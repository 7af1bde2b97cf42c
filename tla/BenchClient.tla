---------------------------- MODULE BenchClient -----------------------------
(***************************************************************************)
(* The client of examples/bench.rs.  It runs its phases one after another  *)
(* over one link: a baseline on the raw socket, round trips one at a time  *)
(* (Client::latency), floods that do not wait for their replies            *)
(* (Client::throughput, the churn and the soak), probes of the payload     *)
(* ceiling, and Client::quiesce between those that leave replies behind.   *)
(*                                                                         *)
(* quiesce takes 200 ms of silence for the end of the traffic.  That a     *)
(* server which still has messages does not stay silent for so long is     *)
(* what its comment relies on, and so does Silence here.  The deadlines of *)
(* the floods may pass at any time.                                        *)
(***************************************************************************)
EXTENDS EchoLink

CONSTANTS
  Rounds,     \* measured round trips of a latency phase; it warms up with one
  FloodMax,   \* bound: messages of a flood
  Budget      \* FdWatch.threshold

ASSUME BenchAssumption == Rounds \in Nat /\ FloodMax \in Nat /\ Budget \in Nat

VARIABLES
  phase,      \* the phase it is in, an index into Phases
  step,       \* messages of the phase so far
  sent,       \* the messages throughput has counted as sent
  since       \* history: the number of the first message of the flood

benchVars == <<phase, step, sent, since>>
benchRest == <<prog, benchVars>>

IsBench == prog.name = "bench"

\* The phases of parent_main with the capabilities their messages carry:
\* the rows of the tables and the churn are floods, and --soak is one flood.
P(what, caps) == [what |-> what, caps |-> caps]
SoakPhases == <<P("flood", 1), P("quiesce", 0)>>
TablePhases ==
  <<P("base", 0), P("latency", 0), P("latency", 1), P("latency", 2),
    P("quiesce", 0), P("flood", 0), P("quiesce", 0), P("flood", 1),
    P("quiesce", 0), P("probe", 1), P("quiesce", 0), P("probe", 1)>>
Phases == IF prog.soak THEN SoakPhases ELSE TablePhases
Caps == Phases[phase].caps
AtLeastOne(caps) == IF caps = 0 THEN 1 ELSE caps

BenchInit == phase = 0 /\ step = 0 /\ sent = 0 /\ since = 0

BenchConnects ==
  /\ IsBench
  /\ Connects("rawconnect") \/ RawConnects("next")
  /\ UNCHANGED benchVars

\* The next phase begins.
NextPhase_NoQuiesce ==
  /\ pc = "next" /\ IsBench
  /\ phase' = phase + 1 /\ step' = 0
  /\ pc' = IF phase = Len(Phases) THEN "quit"
           ELSE IF Phases[phase + 1].what = "quiesce" THEN "next"
           ELSE Phases[phase + 1].what
  /\ UNCHANGED <<prog, link, arrived, counted, seq, samples, sent, since>>
NextPhase ==
  /\ pc = "next" /\ IsBench
  /\ phase' = phase + 1 /\ step' = 0
  /\ pc' = IF phase = Len(Phases) THEN "quit" ELSE Phases[phase + 1].what
  /\ UNCHANGED <<prog, link, arrived, counted, seq, samples, sent, since>>

\* Client::send of the next message, true and false.
ClientSends(caps) ==
  Sends(Message(seq, caps, "echo")) /\ seq' = seq + 1
ClientFails == SendFails /\ UNCHANGED seq

-----------------------------------------------------------------------------
(* The baseline and the latency phases: one message in flight.             *)

BaseSends ==
  /\ pc = "base"
  /\ IF step = Rounds + 1 THEN pc' = "next" /\ UNCHANGED <<link, seq>>
     ELSE \/ RawSends(Message(seq, 0, "echo")) /\ seq' = seq + 1 /\ pc' = "baserecv"
          \/ ClientFails /\ pc' = "panic"
  /\ UNCHANGED <<benchRest, arrived, counted, samples>>

\* unwrap() lets an end of file pass, with nothing received.
BaseRecvs ==
  /\ pc = "baserecv"
  /\ \/ /\ RawTakes
        /\ samples' = IF step = 0 THEN samples ELSE samples \cup {<<seq - 1, Head(rawOut)>>}
        /\ pc' = "base"
     \/ RawEnds /\ pc' \in {"base", "panic"} /\ UNCHANGED samples
  /\ step' = step + 1
  /\ UNCHANGED <<prog, counted, seq, phase, sent, since>>

\* The warmup does not look whether it sent, a measured round trip ends the
\* phase; summarize then fails if there is no sample at all.
LatencySends ==
  /\ pc = "latency"
  /\ \/ step = Rounds + 1 /\ pc' = "next" /\ UNCHANGED <<link, seq>>
     \/ /\ step = 0
        /\ ClientSends(AtLeastOne(Caps)) \/ ClientFails
        /\ pc' = "latencyrecv"
     \/ /\ step \in 1 .. Rounds
        /\ \/ ClientSends(Caps) /\ pc' = "latencyrecv"
           \/ ClientFails /\ pc' = IF step = 1 THEN "panic" ELSE "next"
  /\ UNCHANGED <<benchRest, arrived, counted, samples>>
LatencyRecvs ==
  /\ pc = "latencyrecv"
  /\ Takes
  /\ samples' = IF step = 0 THEN samples ELSE samples \cup {<<seq - 1, Head(arrived)>>}
  /\ step' = step + 1
  /\ pc' = "latency"
  /\ UNCHANGED <<prog, counted, seq, phase, sent, since>>

-----------------------------------------------------------------------------
(* Client::throughput.                                                     *)

\* One message primes the reply Ref ...
FloodPrimes ==
  /\ pc = "flood"
  /\ ClientSends(AtLeastOne(Caps)) \/ ClientFails
  /\ pc' = "prime"
  /\ UNCHANGED <<benchRest, arrived, counted, samples>>

\* ... and the counters start at its reply.
FloodBegins ==
  /\ pc = "prime"
  /\ arrived # <<>> /\ Drains /\ UNCHANGED link
  /\ counted' = {}
  /\ sent' = 0 /\ since' = seq
  /\ pc' = "flooding"
  /\ UNCHANGED <<prog, seq, samples, phase, step>>

\* The deadline is looked at now and then, after a message.
FloodSends ==
  /\ pc = "flooding"
  /\ \/ /\ ClientSends(Caps)
        /\ sent' = sent + 1
        /\ Drains
        /\ pc' \in {"flooding", "tail"}
        /\ sent' = FloodMax => pc' = "tail"
     \/ ClientFails /\ pc' = "tail" /\ UNCHANGED <<arrived, sent>>
  /\ UNCHANGED <<prog, counted, samples, phase, step, since>>

\* The tail: until all has come back or 2 s are over, taking what arrives.
TailWaits ==
  /\ pc = "tail" /\ Cardinality(counted) < sent
  /\ Takes
  /\ UNCHANGED <<benchRest, counted, pc, seq, samples>>
TailEnds ==
  /\ pc = "tail"
  /\ pc' = "next"
  /\ UNCHANGED <<benchRest, link, arrived, counted, seq, samples>>

-----------------------------------------------------------------------------
(* Client::quiesce, and the probes of the payload ceiling.                 *)

Silence == toServer = <<>> /\ handling.stage = "idle" /\ toClient = <<>>

\* A reply within the 200 ms: the rest is dropped, and it waits again.
QuiesceAgain ==
  /\ pc = "quiesce"
  /\ arrived # <<>> /\ Drains /\ UNCHANGED link
  /\ UNCHANGED <<benchRest, counted, pc, seq, samples>>
QuiesceEnds ==
  /\ pc = "quiesce"
  /\ arrived = <<>> /\ Silence
  /\ pc' = "next"
  /\ UNCHANGED <<benchRest, link, arrived, counted, seq, samples>>

\* A message that is too large comes back from try_send at once, and so
\* does every message when the server is gone.
Probes ==
  /\ pc = "probe"
  /\ \/ ClientSends(Caps) /\ pc' = "probed"
     \/ (ClientFails \/ UNCHANGED <<link, seq>>) /\ pc' = "next"
  /\ UNCHANGED <<benchRest, arrived, counted, samples>>

\* The reply, or none within 500 ms.
ProbeReplies ==
  /\ pc = "probed"
  /\ \/ Takes /\ samples' = samples \cup {<<seq - 1, Head(arrived)>>}
     \/ arrived = <<>> /\ UNCHANGED <<link, arrived, samples>>
  /\ pc' = "next"
  /\ UNCHANGED <<benchRest, counted, seq>>

-----------------------------------------------------------------------------
\* FdWatch::sample, called in the latency loop, on a Full, now and then after
\* a message of a flood, and in the tail: too many descriptors in the server
\* end the benchmark and the server.  The client's own are looked at as well,
\* but there they stay the same but for the outbox of its one Ref: a message
\* carries a clone of the Ref and no descriptor (message.rs:48-50).
WatchTrips ==
  /\ \/ pc = "latency" /\ step > 1
     \/ pc = "flooding" /\ sent > 0
     \/ pc \in {"flooding", "flood"} /\ Len(toServer) = Window
     \/ pc = "tail"
  /\ held >= Budget
  /\ ProcessGone
  /\ pc' = "aborted"
  /\ UNCHANGED <<benchRest, arrived, counted, seq, samples>>

BenchQuits == IsBench /\ Quits(0, FALSE) /\ UNCHANGED benchVars

BenchStep ==
  \/ BenchConnects \/ NextPhase
  \/ BaseSends \/ BaseRecvs \/ LatencySends \/ LatencyRecvs
  \/ FloodPrimes \/ FloodBegins \/ FloodSends \/ TailWaits \/ TailEnds
  \/ QuiesceAgain \/ QuiesceEnds \/ Probes \/ ProbeReplies
  \/ WatchTrips \/ BenchQuits
=============================================================================
