------------------------------- MODULE FdCost -------------------------------
(***************************************************************************)
(* The client of examples/fdcost.rs: the same round trip on four rungs.    *)
(* Rung 1 forks an echo child over a socketpair and waits for it to exit,  *)
(* which it does at the end of file, when no process holds the parent's    *)
(* end any more; rung 2 is the raw connection; rungs 3 and 4 are messages  *)
(* whose descriptor the server drops or makes into a Ref.                  *)
(***************************************************************************)
EXTENDS EchoLink

CONSTANTS
  ITERS       \* round trips of a row, those of its warmup included

ASSUME CostAssumption == ITERS \in Nat

VARIABLES
  rung,       \* the row it is in, an index into Rungs
  trips,      \* round trips of the row so far
  kid,        \* the forked child: none, starts, echoes, exited
  ends,       \* which ends of the socketpair a process holds
  there, back \* what is on its way between the ends

forked == <<kid, ends, there, back>>
costVars == <<rung, trips, forked>>

IsCost == prog.name = "fdcost"
NoEnds == [p \in {"parent", "kid"} |-> {}]

\* The rows of one payload and the summary at the end: op, and the
\* capabilities of a message.  The server is spawned after the first two.
R(op, fd) == [op |-> op, fd |-> fd]
KernelRows == <<R("fork", 0), R("fork", 1)>>
Rungs ==
  KernelRows \o
  <<R("spawn", 0), R("raw", 0), R("raw", 1), R("establish", 1),
    R("drop", 0), R("drop", 1), R("ref", 1),
    R("fork", 0), R("raw", 0), R("drop", 0), R("drop", 1), R("ref", 1)>>
Op == Rungs[rung].op
Trips == IF Op = "establish" THEN 1 ELSE ITERS

CostInit ==
  /\ rung = 0 /\ trips = 0
  /\ kid = "none" /\ ends = NoEnds /\ there = <<>> /\ back = <<>>

NextRung ==
  /\ pc = "next" /\ IsCost
  /\ rung' = rung + 1 /\ trips' = 0
  /\ pc' = IF rung = Len(Rungs) THEN "quit"
           ELSE CASE Rungs[rung + 1].op = "fork" -> "fork"
                  [] Rungs[rung + 1].op = "spawn" -> "spawn"
                  [] OTHER -> "rung"
  /\ UNCHANGED <<prog, link, arrived, counted, seq, samples, forked>>

-----------------------------------------------------------------------------
(* Rung 1.                                                                 *)

Fork ==
  /\ pc = "fork"
  /\ kid' = "starts"
  /\ ends' = [p \in {"parent", "kid"} |-> {"sv0", "sv1"}]
  /\ pc' = "forked"
  /\ UNCHANGED <<prog, link, arrived, counted, seq, samples, rung, trips, there, back>>
ParentCloses ==
  /\ pc = "forked"
  /\ ends' = [ends EXCEPT !["parent"] = @ \ {"sv1"}]
  /\ pc' = "xchg"
  /\ UNCHANGED <<prog, link, arrived, counted, seq, samples, rung, trips, kid, there, back>>
Xchg ==
  /\ pc = "xchg" /\ trips < ITERS
  /\ there' = Append(there, seq) /\ seq' = seq + 1
  /\ pc' = "xchgrecv"
  /\ UNCHANGED <<prog, link, arrived, counted, samples, rung, trips, kid, ends, back>>
XchgReturns ==
  /\ pc = "xchgrecv" /\ back # <<>>
  /\ samples' = samples \cup {<<seq - 1, Head(back)>>}
  /\ back' = Tail(back) /\ trips' = trips + 1
  /\ pc' = "xchg"
  /\ UNCHANGED <<prog, link, arrived, counted, seq, rung, kid, ends, there>>
ParentDone ==
  /\ pc = "xchg" /\ trips = ITERS
  /\ ends' = [ends EXCEPT !["parent"] = {}]
  /\ pc' = "waitpid"
  /\ UNCHANGED <<prog, link, arrived, counted, seq, samples, rung, trips, kid, there, back>>
Waitpid ==
  /\ pc = "waitpid" /\ kid = "exited"
  /\ kid' = "none" /\ pc' = "next"
  /\ UNCHANGED <<prog, link, arrived, counted, seq, samples, rung, trips, ends, there, back>>

\* The child closes its copy of the parent's end, echoes, and exits.
KidCloses_Forgets ==
  /\ kid = "starts" /\ kid' = "echoes"
  /\ UNCHANGED <<ends, there, back>>
KidCloses ==
  /\ kid = "starts" /\ kid' = "echoes"
  /\ ends' = [ends EXCEPT !["kid"] = @ \ {"sv0"}]
  /\ UNCHANGED <<there, back>>
KidEchoes ==
  /\ kid = "echoes" /\ there # <<>>
  /\ back' = Append(back, Head(there)) /\ there' = Tail(there)
  /\ UNCHANGED <<kid, ends>>
KidExits ==
  /\ kid = "echoes" /\ there = <<>>
  /\ \A p \in {"parent", "kid"} : "sv0" \notin ends[p]
  /\ kid' = "exited" /\ ends' = [ends EXCEPT !["kid"] = {}]
  /\ UNCHANGED <<there, back>>
KidStep ==
  /\ KidCloses \/ KidEchoes \/ KidExits
  /\ UNCHANGED <<echoVars, rung, trips>>

-----------------------------------------------------------------------------
(* Rungs 2, 3 and 4, and the message that establishes the reply Ref.       *)

Spawn ==
  /\ pc = "spawn"
  /\ server' = "starting" /\ pc' = "connect"
  /\ UNCHANGED <<prog, toServer, handling, cached, boxed, held, toClient, rawIn, rawOut>>
  /\ UNCHANGED <<arrived, counted, seq, samples, costVars>>
CostConnects ==
  /\ IsCost
  /\ Connects("rawconnect") \/ RawConnects("next")
  /\ UNCHANGED costVars

RungSends ==
  /\ pc = "rung" /\ trips < Trips
  /\ \/ /\ IF Op = "raw" THEN RawSends(Message(seq, 0, "echo"))
           ELSE Sends(Message(seq, Rungs[rung].fd, Op))
        /\ seq' = seq + 1 /\ pc' = "rungrecv"
     \/ SendFails /\ pc' = "panic" /\ UNCHANGED seq
  /\ UNCHANGED <<prog, arrived, counted, samples, costVars>>
RungReturns ==
  /\ pc = "rungrecv"
  /\ \/ /\ IF Op = "raw" THEN RawTakes ELSE Takes
        /\ samples' = samples \cup {<<seq - 1, Head(IF Op = "raw" THEN rawOut ELSE arrived)>>}
        /\ pc' = "rung"
     \/ Op = "raw" /\ RawEnds /\ pc' \in {"rung", "panic"} /\ UNCHANGED samples
  /\ trips' = trips + 1
  /\ UNCHANGED <<prog, counted, seq, rung, forked>>
RungEnds ==
  /\ pc = "rung" /\ trips = Trips
  /\ pc' = "next"
  /\ UNCHANGED <<prog, link, arrived, counted, seq, samples, costVars>>

CostQuits == IsCost /\ Quits(0, TRUE) /\ UNCHANGED costVars

CostStep ==
  \/ NextRung \/ Spawn \/ CostConnects
  \/ Fork \/ ParentCloses \/ Xchg \/ XchgReturns \/ ParentDone \/ Waitpid
  \/ RungSends \/ RungReturns \/ RungEnds \/ CostQuits
=============================================================================
