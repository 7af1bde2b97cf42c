---------------------------- MODULE FrameClients ----------------------------
(***************************************************************************)
(* The frame loops of examples/paced.rs and examples/timeline.rs: warm up, *)
(* then Ticks frames of a burst of messages each, whose replies are        *)
(* awaited after every message (timeline, paced --sequential) or after the *)
(* burst, at most REPLY_TIMEOUT for each.  A round trip is timed by a      *)
(* sample.                                                                 *)
(*                                                                         *)
(* REPLY_TIMEOUT is a second and a reply is due in microseconds, but the   *)
(* server may be held up for any time: a timeout may pass whenever there   *)
(* is no reply, and the reply it gave up on arrives later.                 *)
(***************************************************************************)
EXTENDS EchoLink

CONSTANTS
  Warm,       \* messages of the warmup
  Ticks       \* frames

ASSUME FrameAssumption == Warm \in Nat \ {0} /\ Ticks \in Nat

VARIABLES
  turn,       \* messages of the warmup, or of the burst, sent or awaited so far
  tick,       \* frames begun
  sentAt,     \* the messages of which sent_at has the time
  done, lost, \* replies timed in this frame; replies counted as lost
  overtaken,  \* timeline: the handler began before the client stamped t0b
  gaveUp      \* history: some wait has timed out

frameVars == <<turn, tick, sentAt, done, lost, overtaken, gaveUp>>
untouched == <<prog, counted>>

IsFrames == prog.name \in {"paced", "timeline"}
Burst == prog.burst
InOrder == prog.sequential \/ prog.name = "timeline"
Larger(a, b) == IF a >= b THEN a ELSE b

FrameInit ==
  /\ turn = 0 /\ tick = 0 /\ sentAt = {} /\ done = 0 /\ lost = 0
  /\ overtaken = FALSE /\ gaveUp = FALSE

\* make and push, or the raw socket's send.
PushOk(caps) ==
  IF prog.raw THEN RawSends(Message(seq, 0, "echo"))
  ELSE Sends(Message(seq, caps, "echo"))

\* recv_reply: a reply, or None when there is none in time or ever.  A raw
\* socket reports the reset by a dead server before what it still holds.
Pending == IF prog.raw THEN rawOut ELSE arrived
AReply ==
  /\ Pending # <<>>
  /\ IF prog.raw THEN RawTakes ELSE Takes
  /\ UNCHANGED gaveUp
NoReply ==
  /\ Pending = <<>> \/ (prog.raw /\ server = "gone")
  /\ gaveUp' = TRUE
  /\ UNCHANGED <<link, arrived>>

-----------------------------------------------------------------------------
\* A warmup message; whether it was sent is not looked at.
WarmCaps_AsAsked == prog.caps
WarmCaps == Larger(prog.caps, 1)
WarmSends ==
  /\ pc = "warm" /\ IsFrames /\ turn < Warm
  /\ PushOk(WarmCaps) \/ SendFails
  /\ pc' = "warmreply"
  /\ UNCHANGED <<untouched, frameVars, arrived, seq, samples>>
WarmReplies ==
  /\ pc = "warmreply"
  /\ AReply \/ NoReply
  /\ seq' = seq + 1 /\ turn' = turn + 1
  /\ pc' = "warm"
  /\ UNCHANGED <<untouched, tick, sentAt, done, lost, overtaken, samples>>

\* What has arrived by now is nobody's; the raw socket is not looked at.
WarmEnds ==
  /\ pc = "warm" /\ IsFrames /\ turn = Warm
  /\ Drains /\ sentAt' = {}
  /\ pc' = "frame"
  /\ UNCHANGED <<untouched, link, turn, tick, done, lost, overtaken, gaveUp, seq, samples>>

\* The client wakes for a frame, or the measurement is over.
FrameBegins ==
  /\ pc = "frame"
  /\ IF tick < Ticks
     THEN /\ tick' = tick + 1 /\ turn' = 0 /\ done' = 0
          /\ pc' = "send"
     ELSE /\ pc' = "quit"
          /\ UNCHANGED <<tick, turn, done>>
  /\ UNCHANGED <<untouched, link, arrived, sentAt, lost, overtaken, gaveUp, seq, samples>>

\* A message of the burst.  The pipelined loop stamps it before it is sent.
FrameSends ==
  /\ pc = "send" /\ turn < Burst
  /\ sentAt' = IF InOrder THEN sentAt ELSE sentAt \cup {seq}
  /\ \/ /\ PushOk(prog.caps)
        /\ seq' = IF prog.name = "timeline" THEN seq ELSE seq + 1
        /\ pc' = CASE ~InOrder -> "send"
                   [] prog.name = "timeline" -> "stamp"
                   [] OTHER -> "await"
        /\ turn' = IF InOrder THEN turn ELSE turn + 1
     \/ /\ SendFails
        /\ pc' = IF InOrder THEN "endframe" ELSE "collect"
        /\ turn' = IF InOrder THEN turn ELSE 0
        /\ UNCHANGED seq
  /\ UNCHANGED <<untouched, arrived, tick, done, lost, overtaken, gaveUp, samples>>
FrameSent ==
  /\ pc = "send" /\ turn = Burst
  /\ pc' = IF InOrder THEN "endframe" ELSE "collect"
  /\ turn' = 0
  /\ UNCHANGED <<untouched, link, arrived, tick, sentAt, done, lost, overtaken, gaveUp, seq, samples>>

\* paced --sequential: the next reply is taken for this message's.
SequentialReplies ==
  /\ pc = "await"
  /\ \/ /\ AReply
        /\ samples' = samples \cup {<<seq - 1, Head(Pending)>>}
        /\ done' = done + 1 /\ UNCHANGED lost
     \/ NoReply /\ lost' = lost + 1 /\ UNCHANGED <<samples, done>>
  /\ turn' = turn + 1 /\ pc' = "send"
  /\ UNCHANGED <<untouched, tick, sentAt, overtaken, seq>>

\* paced, pipelined: a reply counts if its message is still in sent_at.
PipelinedReplies ==
  /\ pc = "collect" /\ turn < Burst
  /\ \/ /\ AReply
        /\ LET n == Head(Pending)
               timed == {n} \cap sentAt
           IN
           /\ samples' = samples \cup {<<s, n>> : s \in timed}
           /\ done' = done + Cardinality(timed)
           /\ sentAt' = sentAt \ {n}
        /\ UNCHANGED lost
     \/ NoReply /\ lost' = lost + 1 /\ UNCHANGED <<samples, done, sentAt>>
  /\ turn' = turn + 1
  /\ UNCHANGED <<untouched, tick, overtaken, pc, seq>>
PipelineEnds ==
  /\ pc = "collect" /\ turn = Burst
  /\ pc' = "endframe"
  /\ UNCHANGED <<untouched, link, arrived, frameVars, seq, samples>>

\* paced counts every message of the burst without a sample as lost, the
\* ones whose wait timed out once more.
FrameEnds ==
  /\ pc = "endframe"
  /\ lost' = IF prog.name = "paced" THEN lost + (Burst - done) ELSE lost
  /\ pc' = "frame"
  /\ UNCHANGED <<untouched, link, arrived, turn, tick, sentAt, done, overtaken, gaveUp, seq, samples>>

\* timeline: t0b is read after the send, when the handler may have begun ...
Stamps ==
  /\ pc = "stamp"
  /\ overtaken' = \A i \in 1 .. Len(toServer) : toServer[i].seq # seq
  /\ pc' = "timed"
  /\ UNCHANGED <<untouched, link, arrived, turn, tick, sentAt, done, lost, gaveUp, seq, samples>>

\* ... and a reply counts if it is this message's and its stamps ascend.
TimelineReplies ==
  /\ pc = "timed"
  /\ \/ /\ AReply /\ Head(Pending) = seq /\ ~overtaken
        /\ samples' = samples \cup {<<seq, seq>>}
        /\ UNCHANGED lost
     \/ /\ NoReply \/ (AReply /\ (Head(Pending) # seq \/ overtaken))
        /\ lost' = lost + 1
        /\ UNCHANGED samples
  /\ seq' = seq + 1 /\ turn' = turn + 1 /\ pc' = "send"
  /\ UNCHANGED <<untouched, tick, sentAt, done, overtaken>>

FrameQuits ==
  /\ IsFrames
  /\ Quits(IF prog.name = "timeline" THEN prog.caps ELSE 0, prog.name = "timeline")
  /\ UNCHANGED frameVars

FrameConnects ==
  /\ IsFrames
  /\ Connects(IF prog.raw THEN "rawconnect" ELSE "warm") \/ RawConnects("warm")
  /\ UNCHANGED frameVars

FrameStep ==
  \/ FrameConnects
  \/ WarmSends \/ WarmReplies \/ WarmEnds
  \/ FrameBegins \/ FrameSends \/ FrameSent
  \/ SequentialReplies \/ PipelinedReplies \/ PipelineEnds \/ FrameEnds
  \/ Stamps \/ TimelineReplies
  \/ FrameQuits
=============================================================================
