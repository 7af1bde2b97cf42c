------------------------------ MODULE EchoLink ------------------------------
(***************************************************************************)
(* What the example programs that measure a round trip share               *)
(* (examples/paced.rs, timeline.rs, bench.rs, fdcost.rs, bound_server.rs): *)
(* the server process with its echo handler and its raw listener, the link *)
(* from the client to it, the link back to the client's reply node, and    *)
(* the client's ways to send, to wait and to leave.                        *)
(*                                                                         *)
(* A link is a queue with room for Window messages: the buffer of the      *)
(* socket, which has Room of them, and the queue of the Ref in front of it *)
(* (module SendPath shows that the two together are one queue in order).   *)
(* On the raw connection there is only the buffer.                         *)
(***************************************************************************)
EXTENDS Integers, Sequences, FiniteSets

CONSTANTS
  Programs,   \* the command lines tried, see Program
  Room,       \* messages the buffer of a socket holds
  Window,     \* messages a link holds before its sender waits
  Faults      \* {"serverDies"} or {}

\* burst: --burst; caps: --caps; raw: --raw; sequential: --sequential;
\* soak: --soak
Program == [name : {"paced", "timeline", "bench", "fdcost", "bound", "ordering"},
            burst : Nat, caps : Nat, raw : BOOLEAN, sequential : BOOLEAN, soak : BOOLEAN]

ASSUME LinkAssumption ==
  /\ Programs \subseteq Program
  /\ Room \in Nat \ {0} /\ Window \in Nat /\ Room < Window
  /\ Faults \subseteq {"serverDies"}

VARIABLES
  prog,       \* the program that runs
  server,     \* its child process: none yet, starting, bound, listening
              \* (on the raw socket too), gone
  toServer,   \* messages on their way to the echo handler
  handling,   \* the call of the handler: a message, and how far it is
  cached,     \* the handler holds a reply Ref
  boxed,      \* that Ref has an outbox, with a duplicate of its descriptor
  held,       \* descriptors of reply sockets in the server's table
  toClient,   \* replies on their way to the reply node
  arrived,    \* rx: what ReplyHandler passed on and nobody has taken
  counted,    \* the replies ReplyHandler has counted since the last reset
  rawIn, rawOut, \* the raw connection, there and back
  pc,         \* where the client is
  seq,        \* the number the next message gets
  samples     \* <<sent, got>>: a round trip timed, and the reply that ended it

link == <<server, toServer, handling, cached, boxed, held, toClient, rawIn, rawOut>>
echoVars == <<prog, link, arrived, counted, pc, seq, samples>>

Ops == {"echo", "establish", "drop", "ref", "QUIT"}
Message(n, caps, op) == [seq |-> n, caps |-> caps, op |-> op]
Idle == [stage |-> "idle", msg |-> Message(0, 0, "QUIT")]
Finished == {"end", "panic", "aborted"}
HasRawListener == prog.name \in {"paced", "bench", "fdcost"}
Alive == server \in {"bound", "listening"}

EchoInit ==
  /\ prog \in Programs
  /\ server = IF prog.name \in {"fdcost", "ordering"} THEN "none" ELSE "starting"
  /\ pc = CASE prog.name = "fdcost" -> "next"
            [] prog.name = "ordering" -> "check"
            [] OTHER -> "connect"
  /\ toServer = <<>> /\ handling = Idle /\ cached = FALSE /\ boxed = FALSE /\ held = 0
  /\ toClient = <<>> /\ arrived = <<>> /\ counted = {}
  /\ rawIn = <<>> /\ rawOut = <<>>
  /\ seq = 0 /\ samples = {}

-----------------------------------------------------------------------------
(* The server.                                                             *)

\* The node is built and bound to its path ...
ServerBinds ==
  /\ server = "starting"
  /\ server' = "bound"
  /\ UNCHANGED <<toServer, handling, cached, boxed, held, toClient, rawIn, rawOut, arrived,
                 counted>>

\* ... and the raw listener is bound by a task spawned after that.
RawBinds ==
  /\ server = "bound" /\ HasRawListener
  /\ server' = "listening"
  /\ UNCHANGED <<toServer, handling, cached, boxed, held, toClient, rawIn, rawOut, arrived,
                 counted>>

\* recv_loop hands over the next message; its descriptors are installed.
ServerTakes ==
  /\ Alive /\ handling.stage = "idle" /\ toServer # <<>>
  /\ LET m == Head(toServer) IN
     /\ handling' = [stage |-> "took", msg |-> m]
     /\ held' = held + m.caps
  /\ toServer' = Tail(toServer)
  /\ UNCHANGED <<server, cached, boxed, toClient, rawIn, rawOut, arrived, counted>>

OneIf(yes) == IF yes THEN 1 ELSE 0

\* Does the handler make the first descriptor of m into a Ref, and keep it?
Promotes(m) == m.caps > 0 /\ m.op # "drop"
Keeps(m) == Promotes(m) /\ m.op # "ref"

\* The handler finds where to reply, and drops the other descriptors before
\* it waits.  All the Refs it makes are one: they name the same socket.
FindsReply_KeepsExtras ==
  /\ handling.stage = "took" /\ handling.msg.op # "QUIT"
  /\ LET m == handling.msg
         answers == Promotes(m) \/ (cached /\ m.op # "ref" /\ m.op # "establish")
     IN /\ handling' = IF answers THEN [handling EXCEPT !.stage = "reply"] ELSE Idle
        /\ cached' = (cached \/ Keeps(m))
        /\ UNCHANGED held
  /\ UNCHANGED <<server, toServer, boxed, toClient, rawIn, rawOut, arrived, counted>>
FindsReply ==
  /\ handling.stage = "took" /\ handling.msg.op # "QUIT"
  /\ LET m == handling.msg
         answers == Promotes(m) \/ (cached /\ m.op # "ref" /\ m.op # "establish")
     IN /\ handling' = IF answers THEN [handling EXCEPT !.stage = "reply"] ELSE Idle
        /\ cached' = (cached \/ Keeps(m))
        /\ held' = OneIf(cached \/ Promotes(m)) + OneIf(boxed)
  /\ UNCHANGED <<server, toServer, boxed, toClient, rawIn, rawOut, arrived, counted>>

\* It replies, waiting for room.  The first reply that finds the buffer full
\* builds the outbox of the Ref, which the Ref then keeps.  A Ref that nobody
\* keeps is gone after its one reply (bound_server.rs), to an empty buffer.
Replies ==
  /\ handling.stage = "reply" /\ Len(toClient) < Window
  /\ toClient' = Append(toClient, handling.msg.seq)
  /\ handling' = Idle
  /\ boxed' = (cached /\ (boxed \/ Len(toClient) >= Room))
  /\ held' = IF cached THEN held + OneIf(boxed' /\ ~boxed) ELSE 0
  /\ UNCHANGED <<server, toServer, cached, rawIn, rawOut, arrived, counted>>

\* The process ends: what it had not read or not yet written is lost.
ProcessGone ==
  /\ server' = "gone"
  /\ toServer' = <<>> /\ rawIn' = <<>> /\ handling' = Idle
  /\ cached' = FALSE /\ boxed' = FALSE /\ held' = 0
  /\ \E n \in 0 .. Len(toClient) : toClient' = SubSeq(toClient, 1, n)
  /\ UNCHANGED rawOut

ServerQuits ==
  /\ handling.stage = "took" /\ handling.msg.op = "QUIT"
  /\ ProcessGone
  /\ UNCHANGED <<arrived, counted>>

ServerDies ==
  /\ "serverDies" \in Faults /\ server \notin {"none", "gone"} /\ pc \notin Finished
  /\ ProcessGone
  /\ UNCHANGED <<arrived, counted>>

\* One connection of the raw listener, receiving and sending back.
RawEcho ==
  /\ Alive /\ rawIn # <<>> /\ Len(rawOut) < Room
  /\ rawOut' = Append(rawOut, Head(rawIn))
  /\ rawIn' = Tail(rawIn)
  /\ UNCHANGED <<server, toServer, handling, cached, boxed, held, toClient, arrived, counted>>

\* ReplyHandler in the client's process: counts, and passes on to a channel
\* without a bound.
ReplyArrives ==
  /\ toClient # <<>> /\ pc \notin Finished
  /\ counted' = IF prog.name = "bench" THEN counted \cup {Head(toClient)} ELSE {}
  /\ arrived' = Append(arrived, Head(toClient))
  /\ toClient' = Tail(toClient)
  /\ UNCHANGED <<server, toServer, handling, cached, boxed, held, rawIn, rawOut>>

LinkStep ==
  /\ \/ ServerBinds \/ RawBinds \/ ServerTakes \/ FindsReply \/ Replies
     \/ ServerQuits \/ RawEcho \/ ReplyArrives
  /\ UNCHANGED <<prog, pc, seq, samples>>

LinkFault == ServerDies /\ UNCHANGED <<prog, pc, seq, samples>>

-----------------------------------------------------------------------------
(* The client's half.                                                      *)

\* Ref::send returns Ok, having waited for room; and Err.
Sends(m) ==
  /\ Alive /\ Len(toServer) < Window
  /\ toServer' = Append(toServer, m)
  /\ UNCHANGED <<server, handling, cached, boxed, held, toClient, rawIn, rawOut>>
SendFails == server = "gone" /\ UNCHANGED link

\* The same for the raw socket.
RawSends(m) ==
  /\ Alive /\ Len(rawIn) < Room
  /\ rawIn' = Append(rawIn, m.seq)
  /\ UNCHANGED <<server, toServer, handling, cached, boxed, held, toClient, rawOut>>

\* rx.recv() returns a reply, the raw socket's recv another, ...
Takes ==
  /\ arrived # <<>>
  /\ arrived' = Tail(arrived)
  /\ UNCHANGED link
RawTakes ==
  /\ rawOut # <<>>
  /\ rawOut' = Tail(rawOut)
  /\ UNCHANGED <<server, toServer, handling, cached, boxed, held, toClient, rawIn, arrived>>

\* ... or a reset or an end of file, when the server is gone.
RawEnds == rawOut = <<>> /\ server = "gone" /\ UNCHANGED <<link, arrived>>

\* while rx.try_recv().is_ok() {}
Drains == arrived' = <<>>

\* Connecting, every 20 ms until 5 s are over; once in bound_client.rs.
\* fdcost.rs does not look whether its child still runs.
Connects(next) ==
  /\ pc = "connect"
  /\ \/ Alive /\ pc' = next
     \/ ~Alive /\ pc' = "panic"
  /\ UNCHANGED <<prog, link, arrived, counted, seq, samples>>

\* The raw connection is made right after, once; only fdcost.rs tries again.
RawConnects(next) ==
  /\ pc = "rawconnect"
  /\ \/ server = "listening" /\ pc' = next
     \/ server # "listening" /\ pc' = "panic"
  /\ UNCHANGED <<prog, link, arrived, counted, seq, samples>>

\* The end of every program: QUIT, a pause, then child.kill() and wait().
\* A program that only tries to send it goes on when there is no room.
Quits(caps, tries) ==
  /\ pc = "quit"
  /\ \/ Sends(Message(seq, caps, "QUIT"))
     \/ SendFails
     \/ tries /\ Len(toServer) = Window /\ UNCHANGED link
  /\ pc' = "killing"
  /\ UNCHANGED <<prog, arrived, counted, seq, samples>>
Kills ==
  /\ pc = "killing"
  /\ ProcessGone
  /\ pc' = "end"
  /\ UNCHANGED <<prog, arrived, counted, seq, samples>>

\* examples/bound_client.rs against examples/bound_server.rs, which makes a
\* Ref of the first descriptor, replies and keeps nothing.
BoundStep ==
  /\ prog.name = "bound"
  /\ \/ Connects("bound")
     \/ /\ pc = "bound"
        /\ \/ Sends(Message(seq, 1, "ref")) /\ pc' = "boundwait"
           \/ SendFails /\ pc' = "panic"
        /\ UNCHANGED <<prog, arrived, counted, seq, samples>>
     \/ /\ pc = "boundwait"
        /\ \/ Takes /\ pc' = "end" /\ samples' = {<<seq, Head(arrived)>>}
           \/ arrived = <<>> /\ pc' = "panic" /\ UNCHANGED <<link, arrived, samples>>
        /\ UNCHANGED <<prog, counted, seq>>
=============================================================================
