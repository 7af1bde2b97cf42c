------------------------------ MODULE Examples ------------------------------
(***************************************************************************)
(* The example programs, one of Programs at a time: frame loops, benchmark *)
(* and cost decomposition over the link of EchoLink, and the ordering      *)
(* check.  The numbers these programs print are what the design of the     *)
(* library is argued from; the properties say that they are measured on    *)
(* what they claim to be measured on, and that a run comes to its end.     *)
(***************************************************************************)
EXTENDS FrameClients, BenchClient, FdCost, OrderingCheck

vars == <<echoVars, frameVars, benchVars, costVars, checkVars>>

Init ==
  /\ EchoInit /\ FrameInit /\ BenchInit /\ CostInit
  /\ OrderingInit(IF prog.name = "ordering" THEN "sending" ELSE "off")

FrameNext == FrameStep /\ UNCHANGED <<benchVars, costVars, checkVars>>
BenchNext == BenchStep /\ UNCHANGED <<frameVars, costVars, checkVars>>
CostNext  == CostStep /\ UNCHANGED <<frameVars, benchVars, checkVars>>
KidNext   == KidStep /\ UNCHANGED <<frameVars, benchVars, checkVars>>
BoundNext == BoundStep /\ UNCHANGED <<frameVars, benchVars, costVars, checkVars>>
KillNext  == Kills /\ UNCHANGED <<frameVars, benchVars, costVars, checkVars>>
LinkNext  == LinkStep /\ UNCHANGED <<frameVars, benchVars, costVars, checkVars>>
LinkFails == LinkFault /\ UNCHANGED <<frameVars, benchVars, costVars, checkVars>>
CheckNext == OrderingStep /\ UNCHANGED <<echoVars, frameVars, benchVars, costVars>>
CheckFails == Blunder /\ UNCHANGED <<echoVars, frameVars, benchVars, costVars>>

ClientNext == FrameNext \/ BenchNext \/ CostNext \/ BoundNext \/ KillNext

Next ==
  \/ ClientNext \/ KidNext \/ LinkNext \/ LinkFails \/ CheckNext \/ CheckFails

\* The runtimes of the client, of the server and of the forked child go on
\* while they can, and so do the tasks of ordering.rs.
Fairness ==
  /\ WF_vars(ClientNext) /\ WF_vars(KidNext) /\ WF_vars(LinkNext)
  /\ WF_vars(CheckNext)

Spec == Init /\ [][Next]_vars /\ Fairness

-----------------------------------------------------------------------------
\* A timed round trip ends with the reply to the message that began it
\* (paced.rs:473-479 and 497-503, timeline.rs:336-343, bench.rs:446-452,
\* fdcost.rs:385-391), and a flood counts replies to its own messages only,
\* which is what quiesce is for ("without this the next phase reads someone
\* else's mail", bench.rs:409-410).  Only paced --sequential takes whatever
\* reply is next: there it holds while no wait has timed out.
RepliesAreOwn ==
  /\ (prog.name = "paced" /\ prog.sequential /\ gaveUp)
       \/ \A s \in samples : s[1] = s[2]
  /\ \A n \in counted : n >= since

\* A message without a capability finds a cached reply Ref in the handler
\* ("hand the server a reply ref so caps=0 can work", paced.rs:416): else it
\* is not answered and the client waits for nothing.
AlwaysAnswerable ==
  (handling.stage = "took" /\ handling.msg.op \in {"echo", "drop"} /\ handling.msg.caps = 0)
    => cached

\* Descriptors do not pile up in the server: at rest it has one reply socket
\* at most, a second name for it once a reply found no room and the Ref got an
\* outbox, and during a message those of that message as well
\* (bench.rs:901-902, "every passed capability was reclaimed").
ReclaimsCaps ==
  held <= 1 + OneIf(boxed) + (IF handling.stage = "took" THEN handling.msg.caps ELSE 0)

\* The ways a program waits for ever.  bench and fdcost wait for replies
\* without a limit, so a server that dies before it answers stops them.  And
\* paced --raw sends while the server waits to send to it, when the replies it
\* has not read fill one buffer and its messages the other: those it has given
\* up on, which stay where they are, or those to the messages of one burst,
\* which it sends to the end before it reads (paced.rs:483-494; that it gives
\* up "rather than hanging the run", paced.rs:40, is true of its waits only).
Stuck ==
  \/ /\ pc \in {"latencyrecv", "prime", "rungrecv"}
     /\ server = "gone" /\ arrived = <<>> /\ toClient = <<>>
  \/ /\ prog.raw /\ Len(rawIn) = Room /\ Len(rawOut) = Room
     /\ (pc = "warm" /\ turn < Warm) \/ (pc = "send" /\ turn < Burst)

\* Every program comes to an end: nobody waits for room that the other side
\* will never make, for a reply that does not come, for a child that does
\* not exit.
ProgramsEnd == <>(pc \in Finished \/ Stuck \/ main = "verdict")

\* PASS means that the link was in order ("strict ordering held, every
\* capability arrived, no corruption", ordering.rs:142): all messages came
\* with their capability, and all but the last one, whose check main does
\* not wait for, in order and unspoiled.
SoundVerdict ==
  Passes =>
    /\ Len(history) = MESSAGES
    /\ \A i \in 1 .. MESSAGES : history[i].cap = 1
    /\ \A i \in 1 .. MESSAGES - 1 : history[i].seq = i - 1 /\ history[i].intact
=============================================================================
