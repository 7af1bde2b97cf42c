--------------------------- MODULE ExamplesProofs ---------------------------
(***************************************************************************)
(* Proofs about the example programs, for every set of command lines, any  *)
(* room of the links, any number of messages, frames, rounds and trips,    *)
(* and a server that may die at any time:                                  *)
(*                                                                         *)
(*   - ReclaimsCaps, from the types of the link alone;                     *)
(*   - AlwaysAnswerable: a message that needs the cached reply Ref comes   *)
(*     after one that leaves it, wherever the two are;                     *)
(*   - RepliesAreOwn: at most one message is under way whenever a client   *)
(*     times a round trip, and its number is the one the client waits for; *)
(*   - SoundVerdict: each counter of ordering.rs speaks of the messages it *)
(*     has checked, and main reads them in an order that lags behind by    *)
(*     one message at most.                                                *)
(***************************************************************************)
EXTENDS Examples, SequenceTheorems, TLAPS

(***************************************************************************)
(* The tables of the programs.                                             *)
(***************************************************************************)
Whats == {"base", "latency", "flood", "quiesce", "probe"}
\* The rows of parent_main (bench.rs): 12 phases of known kinds, a probe always
\* carries one capability, and a flood or a probe is followed by a quiesce.
LEMMA TableFacts ==
  /\ Len(TablePhases) = 12
  /\ \A i \in 1 .. 12 :
       /\ TablePhases[i].what \in Whats /\ TablePhases[i].caps \in Nat
       /\ TablePhases[i].what = "probe" => TablePhases[i].caps = 1
  /\ \A i \in 1 .. 11 :
       TablePhases[i].what \in {"flood", "probe"} => TablePhases[i + 1].what = "quiesce"
<1>1. Len(TablePhases) = 12
  BY DEF TablePhases
<1>2. /\ TablePhases[1] = P("base", 0) /\ TablePhases[2] = P("latency", 0)
      /\ TablePhases[3] = P("latency", 1) /\ TablePhases[4] = P("latency", 2)
      /\ TablePhases[5] = P("quiesce", 0) /\ TablePhases[6] = P("flood", 0)
      /\ TablePhases[7] = P("quiesce", 0) /\ TablePhases[8] = P("flood", 1)
      /\ TablePhases[9] = P("quiesce", 0) /\ TablePhases[10] = P("probe", 1)
      /\ TablePhases[11] = P("quiesce", 0) /\ TablePhases[12] = P("probe", 1)
  BY DEF TablePhases
<1>3. ASSUME NEW what, NEW caps PROVE P(what, caps).what = what /\ P(what, caps).caps = caps
  BY DEF P
<1>4. \A i \in 1 .. 12 : i \in {1, 2, 3, 4, 5, 6, 7, 8, 9, 10, 11, 12}
  OBVIOUS
<1>5. ASSUME NEW i \in 1 .. 12
      PROVE  /\ TablePhases[i].what \in Whats /\ TablePhases[i].caps \in Nat
             /\ TablePhases[i].what = "probe" => TablePhases[i].caps = 1
  BY <1>2, <1>3, <1>4 DEF Whats
<1>6. ASSUME NEW i \in 1 .. 11
      PROVE TablePhases[i].what \in {"flood", "probe"} => TablePhases[i + 1].what = "quiesce"
  BY <1>2, <1>3, <1>4
<1> QED BY <1>1, <1>5, <1>6

\* The same for the run that is under way, the tables or the soak of --soak.
LEMMA PhaseFacts ==
  /\ Len(Phases) \in Nat /\ Len(Phases) >= 1
  /\ \A i \in 1 .. Len(Phases) :
       /\ Phases[i].what \in Whats /\ Phases[i].caps \in Nat
       /\ Phases[i].what = "probe" => Phases[i].caps = 1
  /\ \A i \in 1 .. Len(Phases) - 1 :
       Phases[i].what \in {"flood", "probe"} => Phases[i + 1].what = "quiesce"
<1>1. CASE ~prog.soak
  <2>1. Phases = TablePhases
    BY <1>1 DEF Phases
  <2> QED BY <2>1, TableFacts
<1>2. CASE prog.soak
  <2>1. Phases = <<P("flood", 1), P("quiesce", 0)>>
    BY <1>2 DEF Phases, SoakPhases
  <2>2. Len(Phases) = 2 /\ Phases[1] = P("flood", 1) /\ Phases[2] = P("quiesce", 0)
    BY <2>1
  <2> QED BY <2>2 DEF P, Whats
<1> QED BY <1>1, <1>2

RungOps == {"fork", "spawn", "raw", "establish", "drop", "ref"}
\* The rows of fdcost.rs: the server is spawned in the third, and the sixth
\* establishes the reply Ref before any row whose descriptor is dropped.
LEMMA RungFacts ==
  /\ Len(Rungs) = 14
  /\ \A i \in 1 .. 14 :
       /\ Rungs[i].op \in RungOps /\ Rungs[i].fd \in Nat
       /\ Rungs[i].op = "drop" => i > 6
       /\ Rungs[i].op = "spawn" <=> i = 3
  /\ Rungs[6] = R("establish", 1)
<1> DEFINE later == <<R("spawn", 0), R("raw", 0), R("raw", 1), R("establish", 1),
    R("drop", 0), R("drop", 1), R("ref", 1),
    R("fork", 0), R("raw", 0), R("drop", 0), R("drop", 1), R("ref", 1)>>
<1>1. /\ Len(KernelRows) = 2 /\ KernelRows \in Seq([op : RungOps, fd : Nat])
      /\ KernelRows[1] = R("fork", 0) /\ KernelRows[2] = R("fork", 1)
  BY DEF KernelRows, R, RungOps
<1>2. /\ Len(later) = 12
      /\ later[1] = R("spawn", 0) /\ later[2] = R("raw", 0) /\ later[3] = R("raw", 1)
      /\ later[4] = R("establish", 1) /\ later[5] = R("drop", 0) /\ later[6] = R("drop", 1)
      /\ later[7] = R("ref", 1) /\ later[8] = R("fork", 0) /\ later[9] = R("raw", 0)
      /\ later[10] = R("drop", 0) /\ later[11] = R("drop", 1) /\ later[12] = R("ref", 1)
  OBVIOUS
<1>3. later \in Seq([op : RungOps, fd : Nat])
  BY DEF R, RungOps
<1>4. Rungs = KernelRows \o later
  BY DEF Rungs
<1> HIDE DEF later
<1>5. /\ Len(Rungs) = 14 /\ Rungs[1] = KernelRows[1] /\ Rungs[2] = KernelRows[2]
      /\ \A i \in 3 .. 14 : Rungs[i] = later[i - 2]
  <2>1. /\ Len(Rungs) = Len(KernelRows) + Len(later)
        /\ \A i \in 1 .. Len(KernelRows) + Len(later) :
             Rungs[i] = IF i <= Len(KernelRows) THEN KernelRows[i]
                        ELSE later[i - Len(KernelRows)]
    BY <1>1, <1>3, <1>4, ConcatProperties, Zenon
  <2> QED BY <1>1, <1>2, <2>1
<1>6. /\ Rungs[1] = R("fork", 0) /\ Rungs[2] = R("fork", 1) /\ Rungs[3] = R("spawn", 0)
      /\ Rungs[4] = R("raw", 0) /\ Rungs[5] = R("raw", 1) /\ Rungs[6] = R("establish", 1)
      /\ Rungs[7] = R("drop", 0) /\ Rungs[8] = R("drop", 1) /\ Rungs[9] = R("ref", 1)
      /\ Rungs[10] = R("fork", 0) /\ Rungs[11] = R("raw", 0) /\ Rungs[12] = R("drop", 0)
      /\ Rungs[13] = R("drop", 1) /\ Rungs[14] = R("ref", 1)
  BY <1>1, <1>2, <1>5
<1>7. ASSUME NEW op, NEW fd PROVE R(op, fd).op = op /\ R(op, fd).fd = fd
  BY DEF R
<1>8. \A i \in 1 .. 14 : i \in {1, 2, 3, 4, 5, 6, 7, 8, 9, 10, 11, 12, 13, 14}
  OBVIOUS
<1>9. ASSUME NEW i \in 1 .. 14
      PROVE  /\ Rungs[i].op \in RungOps /\ Rungs[i].fd \in Nat
             /\ Rungs[i].op = "drop" => i > 6
             /\ Rungs[i].op = "spawn" <=> i = 3
  BY <1>6, <1>7, <1>8 DEF RungOps
<1> QED BY <1>5, <1>6, <1>9

-----------------------------------------------------------------------------
(***************************************************************************)
(* Where a client is: its points, and the row of its table it is in.       *)
(***************************************************************************)
FramePoints == {"warm", "warmreply", "frame", "send", "await", "collect",
                "endframe", "stamp", "timed"}
BenchPoints == {"base", "baserecv", "latency", "latencyrecv", "flood", "prime",
                "flooding", "tail", "quiesce", "probe", "probed"}
ForkPoints == {"fork", "forked", "xchg", "xchgrecv", "waitpid"}
RungPoints == {"rung", "rungrecv"}
BoundPoints == {"bound", "boundwait"}
ConnectPoints == {"connect", "rawconnect"}
LeavePoints == {"quit", "killing"} \cup Finished

PointsOf(what) ==
  CASE what = "base" -> {"base", "baserecv"}
    [] what = "latency" -> {"latency", "latencyrecv"}
    [] what = "flood" -> {"flood", "prime", "flooding", "tail"}
    [] what = "quiesce" -> {"quiesce"}
    [] OTHER -> {"probe", "probed"}

FramePlaces ==
  /\ pc \in FramePoints => IsFrames
  /\ pc = "await" => prog.name = "paced" /\ prog.sequential
  /\ IsFrames /\ pc \in ConnectPoints => turn = 0
  /\ turn \in Nat
BenchPlaces ==
  /\ pc \in BenchPoints =>
       IsBench /\ phase \in 1 .. Len(Phases) /\ pc \in PointsOf(Phases[phase].what)
  /\ IsBench /\ pc = "next" => phase \in 0 .. Len(Phases)
  /\ IsBench /\ pc \in ConnectPoints => phase = 0
  /\ step \in Nat
CostPlaces ==
  /\ pc \in ForkPoints => IsCost /\ rung \in 1 .. 14 /\ Op = "fork"
  /\ pc \in RungPoints => IsCost /\ rung \in 1 .. 14 /\ Op \notin {"fork", "spawn"}
  /\ pc = "spawn" => IsCost /\ rung = 3
  /\ IsCost /\ pc \in ConnectPoints => rung = 3
  /\ IsCost /\ pc = "next" => rung \in 0 .. 14
  /\ trips \in Nat
Placed ==
  /\ prog \in Program /\ seq \in Nat
  /\ FramePlaces /\ BenchPlaces /\ CostPlaces
  /\ pc = "next" => IsBench \/ IsCost
  /\ pc \in BoundPoints => prog.name = "bound"

\* Every program starts where its main() starts.
LEMMA PlacedInit == Init => Placed
<1> SUFFICES ASSUME Init PROVE Placed
  OBVIOUS
<1>1. /\ prog \in Program /\ seq = 0 /\ turn = 0 /\ phase = 0 /\ step = 0 /\ rung = 0 /\ trips = 0
  BY LinkAssumption DEF Init, EchoInit, FrameInit, BenchInit, CostInit
<1>2. /\ pc \in {"next", "check", "connect"}
      /\ pc = "next" <=> IsCost
      /\ IsCost => pc \notin ConnectPoints
  BY DEF Init, EchoInit, IsCost, ConnectPoints
<1>3. FramePlaces /\ BenchPlaces /\ CostPlaces
  <2>1. IsBench => ~IsCost
    BY DEF IsBench, IsCost
  <2> QED BY <1>1, <1>2, <2>1, PhaseFacts
       DEF FramePlaces, BenchPlaces, CostPlaces, FramePoints, BenchPoints, ForkPoints, RungPoints
<1> QED BY <1>1, <1>2, <1>3 DEF Placed, BoundPoints

\* paced.rs and timeline.rs keep to their own points, in every step.
LEMMA FrameGoes ==
  ASSUME Placed, FrameStep
  PROVE  /\ IsFrames /\ prog' = prog /\ seq' \in Nat /\ FramePlaces'
         /\ pc' \in FramePoints \cup ConnectPoints \cup LeavePoints
<1>1. /\ seq \in Nat /\ seq + 1 \in Nat /\ turn \in Nat /\ turn + 1 \in Nat /\ 0 \in Nat
      /\ FramePlaces
  BY DEF Placed, FramePlaces
<1>2. IsFrames
  BY DEF FrameStep, FrameConnects, WarmSends, WarmReplies, WarmEnds, FrameBegins, FrameSends, FrameSent,
      SequentialReplies, PipelinedReplies, PipelineEnds, FrameEnds, Stamps, TimelineReplies,
      FrameQuits, Placed, FramePlaces, FramePoints
<1>3. CASE FrameConnects \/ FrameQuits
  BY <1>1, <1>2, <1>3 DEF FrameConnects, FrameQuits, Connects, RawConnects, Quits, frameVars,
     FramePlaces, FramePoints, ConnectPoints, LeavePoints, Finished, IsFrames
<1>4. CASE WarmSends \/ WarmReplies \/ WarmEnds \/ FrameBegins \/ FrameSent \/ SequentialReplies
           \/ PipelinedReplies \/ PipelineEnds \/ FrameEnds \/ Stamps \/ TimelineReplies
  BY <1>1, <1>2, <1>4 DEF WarmSends, WarmReplies, WarmEnds, FrameBegins, FrameSent,
      SequentialReplies, PipelinedReplies, PipelineEnds, FrameEnds, Stamps, TimelineReplies,
      frameVars, untouched, FramePlaces, FramePoints, ConnectPoints, LeavePoints, IsFrames
<1>5. CASE FrameSends
  <2>1. /\ seq' \in {seq, seq + 1} /\ turn' \in {turn, turn + 1, 0} /\ prog' = prog
        /\ pc' \in {"stamp", "await", "send", "endframe", "collect"}
        /\ pc' = "await" => prog.name # "timeline" /\ prog.sequential
    <3>1. prog' = prog
      BY <1>5 DEF FrameSends, untouched
    <3>2. CASE /\ seq' = (IF prog.name = "timeline" THEN seq ELSE seq + 1)
               /\ pc' = CASE ~InOrder -> "send"
                          [] prog.name = "timeline" -> "stamp"
                          [] OTHER -> "await"
               /\ turn' = IF InOrder THEN turn ELSE turn + 1
      BY <3>1, <3>2 DEF InOrder
    <3>3. CASE /\ pc' = (IF InOrder THEN "endframe" ELSE "collect")
               /\ turn' = (IF InOrder THEN turn ELSE 0)
               /\ seq' = seq
      BY <3>1, <3>3
    <3> QED BY <1>5, <3>2, <3>3 DEF FrameSends
  <2> QED BY <1>1, <1>2, <2>1 DEF FramePlaces, FramePoints, ConnectPoints, IsFrames
<1> QED BY <1>3, <1>4, <1>5 DEF FrameStep

\* bench.rs is at a point of the phase it is in, after every step.
LEMMA BenchGoes ==
  ASSUME Placed, BenchStep
  PROVE  /\ IsBench /\ prog' = prog /\ seq' \in Nat /\ BenchPlaces'
         /\ pc' \in BenchPoints \cup {"next"} \cup ConnectPoints \cup LeavePoints
<1>1. /\ seq \in Nat /\ seq + 1 \in Nat /\ step \in Nat /\ step + 1 \in Nat /\ 0 \in Nat
      /\ BenchPlaces
  BY DEF Placed, BenchPlaces
<1>2. IsBench
  BY DEF BenchStep, BenchConnects, NextPhase, BaseSends, BaseRecvs, LatencySends, LatencyRecvs,
      FloodPrimes, FloodBegins, FloodSends, TailWaits, TailEnds, QuiesceAgain, QuiesceEnds,
      Probes, ProbeReplies, WatchTrips, BenchQuits, Placed, BenchPlaces, BenchPoints
<1>3. CASE BenchConnects \/ BenchQuits
  BY <1>1, <1>2, <1>3 DEF BenchConnects, BenchQuits, Connects, RawConnects, Quits, benchVars,
     BenchPlaces, BenchPoints, ConnectPoints, LeavePoints, Finished, IsBench, Phases
<1>4. CASE NextPhase
  <2>1. phase \in 0 .. Len(Phases) /\ prog' = prog /\ Phases' = Phases
    BY <1>1, <1>2, <1>4 DEF NextPhase, BenchPlaces, Phases
  <2>2. CASE phase = Len(Phases)
    BY <1>1, <1>2, <1>4, <2>1, <2>2
       DEF NextPhase, BenchPlaces, BenchPoints, ConnectPoints, LeavePoints
  <2>3. CASE phase # Len(Phases)
    <3>1. phase + 1 \in 1 .. Len(Phases) /\ phase' = phase + 1
      BY <1>4, <2>1, <2>3, PhaseFacts DEF NextPhase
    <3>2. pc' = Phases[phase + 1].what /\ pc' \in Whats
      BY <1>4, <2>3, <3>1, PhaseFacts DEF NextPhase
    <3>3. pc' \in PointsOf(pc')
      BY <3>2 DEF Whats, PointsOf
    <3>4. IsBench' /\ pc' \in PointsOf(Phases'[phase'].what)
      BY <1>2, <2>1, <3>1, <3>2, <3>3 DEF IsBench
    <3> QED
      BY <1>1, <1>2, <1>4, <2>1, <3>1, <3>2, <3>4
         DEF NextPhase, BenchPlaces, BenchPoints, Whats, ConnectPoints
  <2> QED BY <2>2, <2>3
<1>5. ASSUME ~(BenchConnects \/ BenchQuits \/ NextPhase)
      PROVE  /\ pc \in BenchPoints /\ prog' = prog /\ phase' = phase
             /\ seq' \in Nat /\ step' \in Nat
             /\ \/ pc' = "next" \/ pc' \in LeavePoints
                \/ \E what \in Whats : pc \in PointsOf(what) /\ pc' \in PointsOf(what)
  BY <1>1, <1>5 DEF BenchStep, BaseSends, BaseRecvs, LatencySends, LatencyRecvs,
      FloodPrimes, FloodBegins, FloodSends, TailWaits, TailEnds, QuiesceAgain, QuiesceEnds,
      Probes, ProbeReplies, WatchTrips, ClientSends, ClientFails, benchRest, benchVars,
      BenchPoints, LeavePoints, Finished, Whats, PointsOf
<1>6. CASE ~(BenchConnects \/ BenchQuits \/ NextPhase)
  BY <1>1, <1>2, <1>5, <1>6, PhaseFacts
     DEF BenchPlaces, BenchPoints, LeavePoints, Finished, Phases, IsBench, PointsOf, Whats, ConnectPoints
<1> QED BY <1>3, <1>4, <1>6

\* fdcost.rs is at a point of the row it is in, after every step.
LEMMA CostGoes ==
  ASSUME Placed, CostStep
  PROVE  /\ IsCost /\ prog' = prog /\ seq' \in Nat /\ CostPlaces'
         /\ pc' \in ForkPoints \cup RungPoints \cup {"next", "spawn"} \cup ConnectPoints
                    \cup LeavePoints
<1>1. /\ seq \in Nat /\ seq + 1 \in Nat /\ trips \in Nat /\ trips + 1 \in Nat /\ 0 \in Nat
      /\ CostPlaces
  BY DEF Placed, CostPlaces
<1>2. IsCost
  BY <1>1 DEF CostStep, NextRung, Spawn, CostConnects, Fork, ParentCloses, Xchg, XchgReturns,
      ParentDone, Waitpid, RungSends, RungReturns, RungEnds, CostQuits, CostPlaces, ForkPoints,
      RungPoints
<1>3. CASE CostConnects \/ CostQuits
  BY <1>1, <1>2, <1>3 DEF CostConnects, CostQuits, Connects, RawConnects, Quits, costVars,
     CostPlaces, ForkPoints, RungPoints, ConnectPoints, LeavePoints, Finished, IsCost
<1>4. CASE NextRung
  <2>1. rung \in 0 .. 14 /\ prog' = prog /\ seq' = seq /\ trips' = 0 /\ rung' = rung + 1
    BY <1>1, <1>2, <1>4 DEF NextRung, CostPlaces
  <2>2. CASE rung = Len(Rungs)
    BY <1>1, <1>2, <1>4, <2>1, <2>2
       DEF NextRung, CostPlaces, ForkPoints, RungPoints, ConnectPoints, LeavePoints, Finished
  <2>3. CASE rung # Len(Rungs)
    <3>1. rung' \in 1 .. 14 /\ Op' = Rungs[rung + 1].op /\ (Op' = "spawn" <=> rung' = 3)
      BY <2>1, <2>3, RungFacts DEF Op
    <3>2. /\ pc' \in {"fork", "spawn", "rung"}
          /\ pc' = "fork" <=> Op' = "fork"
          /\ pc' = "spawn" <=> Op' = "spawn"
      BY <1>4, <2>3, <3>1 DEF NextRung
    <3> QED
      BY <1>1, <1>2, <2>1, <3>1, <3>2 DEF CostPlaces, ForkPoints, RungPoints, ConnectPoints, IsCost
  <2> QED BY <2>2, <2>3
<1>5. CASE Fork \/ ParentCloses \/ Xchg \/ XchgReturns \/ ParentDone \/ Waitpid \/ Spawn
           \/ RungSends \/ RungReturns \/ RungEnds
  <2>1. /\ prog' = prog /\ rung' = rung /\ seq' \in Nat /\ trips' \in Nat
    BY <1>1, <1>5 DEF Fork, ParentCloses, Xchg, XchgReturns, ParentDone, Waitpid, Spawn,
       RungSends, RungReturns, RungEnds, costVars
  <2>2. \/ pc \in ForkPoints /\ pc' \in ForkPoints \cup {"next"}
        \/ pc \in RungPoints /\ pc' \in RungPoints \cup {"next", "panic"}
        \/ pc = "spawn" /\ pc' = "connect"
    BY <1>5 DEF Fork, ParentCloses, Xchg, XchgReturns, ParentDone, Waitpid, Spawn,
       RungSends, RungReturns, RungEnds, ForkPoints, RungPoints
  <2>3. Op' = Op /\ IsCost'
    BY <1>2, <2>1 DEF Op, IsCost
  <2> QED BY <1>1, <1>2, <2>1, <2>2, <2>3
          DEF CostPlaces, ForkPoints, RungPoints, ConnectPoints, LeavePoints, Finished
<1> QED BY <1>3, <1>4, <1>5 DEF CostStep

\* bound_client.rs keeps to its own points.
LEMMA BoundGoes ==
  ASSUME Placed, BoundStep
  PROVE  /\ prog.name = "bound" /\ prog' = prog /\ seq' = seq
         /\ pc' \in BoundPoints \cup LeavePoints
BY DEF BoundStep, Connects, BoundPoints, LeavePoints, Finished

\* What the client does not do itself leaves it where it is; kill() ends it.
LEMMA OthersStay ==
  ASSUME Placed, KidNext \/ LinkNext \/ LinkFails \/ CheckNext \/ CheckFails \/ KillNext
  PROVE  /\ prog' = prog /\ seq' = seq /\ UNCHANGED <<frameVars, benchVars, rung, trips>>
         /\ pc' = pc \/ pc' = "end"
BY DEF KidNext, LinkNext, LinkFails, CheckNext, CheckFails, KillNext, KidStep, echoVars, LinkStep,
   LinkFault, Kills, costVars

\* No step of any program or of the link brings a client to another's points.
LEMMA PlacedStep == Placed /\ [Next]_vars => Placed'
<1> SUFFICES ASSUME Placed, [Next]_vars PROVE Placed'
  OBVIOUS
<1> USE DEF ConnectPoints, LeavePoints, Finished, FramePoints, BenchPoints, ForkPoints, RungPoints,
            BoundPoints, IsFrames, IsBench, IsCost
<1>1. CASE FrameNext
  <2>1. IsFrames /\ prog' = prog /\ seq' \in Nat /\ FramePlaces'
         /\ pc' \in FramePoints \cup ConnectPoints \cup LeavePoints
    BY <1>1, FrameGoes DEF FrameNext
  <2>2. UNCHANGED <<phase, step, rung, trips>>
    BY <1>1 DEF FrameNext, benchVars, costVars
  <2> QED BY <2>1, <2>2 DEF Placed, BenchPlaces, CostPlaces
<1>2. CASE BenchNext
  <2>1. IsBench /\ prog' = prog /\ seq' \in Nat /\ BenchPlaces'
         /\ pc' \in BenchPoints \cup {"next"} \cup ConnectPoints \cup LeavePoints
    BY <1>2, BenchGoes DEF BenchNext
  <2>2. UNCHANGED <<turn, rung, trips>>
    BY <1>2 DEF BenchNext, frameVars, costVars
  <2> QED BY <2>1, <2>2 DEF Placed, FramePlaces, CostPlaces
<1>3. CASE CostNext
  <2>1. IsCost /\ prog' = prog /\ seq' \in Nat /\ CostPlaces'
         /\ pc' \in ForkPoints \cup RungPoints \cup {"next", "spawn"} \cup ConnectPoints
                    \cup LeavePoints
    BY <1>3, CostGoes DEF CostNext
  <2>2. UNCHANGED <<turn, phase, step>>
    BY <1>3 DEF CostNext, frameVars, benchVars
  <2> QED BY <2>1, <2>2 DEF Placed, FramePlaces, BenchPlaces
<1>4. CASE BoundNext
  <2>1. /\ prog.name = "bound" /\ prog' = prog /\ seq' = seq
        /\ pc' \in BoundPoints \cup LeavePoints
    BY <1>4, BoundGoes DEF BoundNext
  <2>2. UNCHANGED <<turn, phase, step, rung, trips>>
    BY <1>4 DEF BoundNext, frameVars, benchVars, costVars
  <2> QED BY <2>1, <2>2 DEF Placed, FramePlaces, BenchPlaces, CostPlaces
<1>5. CASE KidNext \/ LinkNext \/ LinkFails \/ CheckNext \/ CheckFails \/ KillNext \/ UNCHANGED vars
  <2>1. /\ prog' = prog /\ seq' = seq /\ UNCHANGED <<turn, phase, step, rung, trips>>
        /\ pc' = pc \/ pc' = "end"
    BY <1>5, OthersStay DEF vars, echoVars, frameVars, benchVars, costVars
  <2>2. Phases' = Phases /\ Op' = Op
    BY <2>1 DEF Phases, Op
  <2> QED BY <2>1, <2>2 DEF Placed, FramePlaces, BenchPlaces, CostPlaces
<1> QED BY <1>1, <1>2, <1>3, <1>4, <1>5 DEF Next, ClientNext

-----------------------------------------------------------------------------
(***************************************************************************)
(* What the link carries, and how a step moves it.                         *)
(***************************************************************************)
Msg == [seq : Nat, caps : Nat, op : Ops]
Calls == [stage : {"idle", "took", "reply"}, msg : Msg]
ThereTypes ==
  /\ toServer \in Seq(Msg) /\ handling \in Calls
  /\ cached \in BOOLEAN /\ boxed \in BOOLEAN /\ held \in Nat
BackTypes == toClient \in Seq(Nat) /\ arrived \in Seq(Nat)
RawTypes == rawIn \in Seq(Nat) /\ rawOut \in Seq(Nat)
GoneIsEmpty ==
  server = "gone" => toServer = <<>> /\ rawIn = <<>> /\ handling.stage = "idle"
LinkTypes == ThereTypes /\ BackTypes /\ RawTypes /\ GoneIsEmpty

\* The handler between two messages.
LEMMA IdleFacts == Idle \in Calls /\ Idle.stage = "idle"
BY DEF Idle, Calls, Message, Msg, Ops

\* The link starts empty, and no process has gone yet.
LEMMA LinkInit == Init => LinkTypes
<1> SUFFICES ASSUME Init PROVE LinkTypes
  OBVIOUS
<1>1. toServer = <<>> /\ handling = Idle /\ cached = FALSE /\ boxed = FALSE /\ held = 0
  BY DEF Init, EchoInit
<1>2. toServer \in Seq(Msg)
  <2>1. toServer = <<>>
    BY <1>1
  <2> QED BY <2>1
<1>3. ThereTypes
  BY <1>1, <1>2, IdleFacts DEF ThereTypes
<1>4. BackTypes /\ RawTypes /\ GoneIsEmpty
  BY DEF Init, EchoInit, BackTypes, RawTypes, GoneIsEmpty
<1> QED BY <1>3, <1>4 DEF LinkTypes

\* What the clients send are messages.
LEMMA MessageFacts ==
  ASSUME NEW n \in Nat, NEW caps \in Nat, NEW op \in Ops
  PROVE  /\ Message(n, caps, op) \in Msg /\ Message(n, caps, op).seq = n
         /\ Message(n, caps, op).caps = caps /\ Message(n, caps, op).op = op
BY DEF Message, Msg

\* What a client may do with the link: send the next message, on either
\* socket, take a reply, or start or end the server.
Sending == \E m \in Msg : m.seq = seq /\ (Sends(m) \/ RawSends(m))
RawTaking ==
  /\ rawOut # <<>> /\ rawOut' = Tail(rawOut)
  /\ UNCHANGED <<server, toServer, handling, cached, boxed, held, toClient, rawIn>>
Spawning ==
  /\ pc = "spawn" /\ server' = "starting"
  /\ UNCHANGED <<toServer, handling, cached, boxed, held, toClient, rawIn, rawOut>>
Touches ==
  /\ UNCHANGED link \/ Sending \/ RawTaking \/ Spawning \/ ProcessGone
  /\ arrived' \in {arrived, <<>>} \/ (arrived # <<>> /\ arrived' = Tail(arrived))
  /\ counted' \in {counted, {}}
  /\ seq' \in {seq, seq + 1}

\* make and push of paced.rs and timeline.rs put this message on one socket.
LEMMA PushTouches ==
  ASSUME Placed, NEW caps \in Nat, PushOk(caps)
  PROVE  Sending
<1>1. Message(seq, 0, "echo") \in Msg /\ Message(seq, caps, "echo") \in Msg
      /\ Message(seq, 0, "echo").seq = seq /\ Message(seq, caps, "echo").seq = seq
  BY MessageFacts DEF Placed, Ops
<1> QED BY <1>1 DEF PushOk, Sending

\* QUIT is sent, or not, and nothing else happens to the link.
LEMMA QuitTouches ==
  ASSUME Placed, NEW caps \in Nat, NEW tries \in BOOLEAN, Quits(caps, tries)
  PROVE  /\ UNCHANGED link \/ Sending
         /\ UNCHANGED <<arrived, counted, seq>>
<1>1. Message(seq, caps, "QUIT") \in Msg /\ Message(seq, caps, "QUIT").seq = seq
  BY MessageFacts DEF Placed, Ops
<1> QED BY <1>1 DEF Quits, Sending, SendFails

\* What a step of paced.rs or timeline.rs does to the link.
LEMMA FrameTouches ==
  ASSUME Placed, FrameStep
  PROVE  Touches
<1>1. prog.caps \in Nat /\ Larger(prog.caps, 1) \in Nat /\ 0 \in Nat
  BY DEF Placed, Program, Larger
<1>2. \A caps \in Nat : PushOk(caps) => Sending
  BY PushTouches
<1>3. AReply \/ NoReply =>
        /\ UNCHANGED link \/ RawTaking
        /\ arrived' = arrived \/ (arrived # <<>> /\ arrived' = Tail(arrived))
  BY DEF AReply, NoReply, Pending, Takes, RawTakes, RawTaking
<1>4. CASE WarmSends \/ FrameSends
  <2>1. /\ Sending \/ UNCHANGED link
        /\ UNCHANGED <<arrived, counted>> /\ seq' \in {seq, seq + 1}
    BY <1>1, <1>2, <1>4 DEF WarmSends, FrameSends, WarmCaps, SendFails, untouched
  <2> QED BY <2>1 DEF Touches
<1>5. CASE FrameQuits
  <2>1. PICK caps \in Nat, tries \in BOOLEAN : Quits(caps, tries)
    BY <1>1, <1>5 DEF FrameQuits
  <2> QED BY <2>1, QuitTouches DEF Touches
<1>6. CASE WarmReplies \/ SequentialReplies \/ PipelinedReplies \/ TimelineReplies
  <2>1. /\ AReply \/ NoReply
        /\ counted' = counted /\ seq' \in {seq, seq + 1}
    BY <1>6 DEF WarmReplies, SequentialReplies, PipelinedReplies, TimelineReplies, untouched
  <2> QED BY <1>3, <2>1 DEF Touches
<1>7. CASE FrameConnects \/ WarmEnds \/ FrameBegins \/ FrameSent \/ PipelineEnds \/ FrameEnds \/ Stamps
  BY <1>7 DEF FrameConnects, Connects, RawConnects, WarmEnds, Drains, FrameBegins, FrameSent,
     PipelineEnds, FrameEnds, Stamps, untouched, Touches
<1> QED BY <1>4, <1>5, <1>6, <1>7 DEF FrameStep

\* What Client::send of bench.rs does to it.
LEMMA ClientTouches ==
  ASSUME Placed, NEW caps \in Nat, ClientSends(caps) \/ ClientFails
  PROVE  (UNCHANGED link \/ Sending) /\ seq' \in {seq, seq + 1}
<1>1. Message(seq, caps, "echo") \in Msg /\ Message(seq, caps, "echo").seq = seq
  BY MessageFacts DEF Placed, Ops
<1> QED BY <1>1 DEF ClientSends, ClientFails, SendFails, Sending

\* What a step of bench.rs does to it.
LEMMA BenchTouches ==
  ASSUME Placed, BenchStep
  PROVE  Touches
<1>1. CASE BenchQuits
  <2>1. PICK caps \in Nat, tries \in BOOLEAN : Quits(caps, tries)
    BY <1>1 DEF BenchQuits
  <2> QED BY <2>1, QuitTouches DEF Touches
<1>2. CASE BaseSends
  <2>1. Message(seq, 0, "echo") \in Msg /\ Message(seq, 0, "echo").seq = seq
    BY MessageFacts DEF Placed, Ops
  <2> QED BY <1>2, <2>1 DEF BaseSends, Sending, Touches, ClientFails, SendFails
<1>3. CASE LatencySends \/ FloodPrimes \/ FloodSends \/ Probes
  <2>1. pc \in BenchPoints
    BY <1>3 DEF LatencySends, FloodPrimes, FloodSends, Probes, BenchPoints
  <2>2. Caps \in Nat /\ AtLeastOne(Caps) \in Nat
    BY <2>1, PhaseFacts DEF Placed, BenchPlaces, Caps, AtLeastOne
  <2>3. \A caps \in Nat : ClientSends(caps) \/ ClientFails =>
          (UNCHANGED link \/ Sending) /\ seq' \in {seq, seq + 1}
    BY ClientTouches
  <2>4. /\ UNCHANGED link \/ Sending
        /\ seq' \in {seq, seq + 1} /\ counted' = counted /\ arrived' \in {arrived, <<>>}
    BY <1>3, <2>2, <2>3 DEF LatencySends, FloodPrimes, FloodSends, Probes, Drains
  <2> QED BY <2>4 DEF Touches
<1>4. CASE BenchConnects \/ NextPhase \/ BaseRecvs \/ LatencyRecvs \/ FloodBegins \/ TailWaits
           \/ TailEnds \/ QuiesceAgain \/ QuiesceEnds \/ ProbeReplies \/ WatchTrips
  BY <1>4 DEF BenchConnects, Connects, RawConnects, NextPhase, BaseRecvs, RawTakes, RawEnds,
     LatencyRecvs, Takes, FloodBegins, Drains, TailWaits, TailEnds, QuiesceAgain, QuiesceEnds,
     ProbeReplies, WatchTrips, RawTaking, Touches
<1> QED BY <1>1, <1>2, <1>3, <1>4 DEF BenchStep

\* What a step of fdcost.rs does to it.
LEMMA CostTouches ==
  ASSUME Placed, CostStep
  PROVE  Touches
<1>1. CASE CostQuits
  <2>1. PICK caps \in Nat, tries \in BOOLEAN : Quits(caps, tries)
    BY <1>1 DEF CostQuits
  <2> QED BY <2>1, QuitTouches DEF Touches
<1>2. CASE RungSends
  <2>1. rung \in 1 .. 14 /\ Op \in RungOps \ {"fork", "spawn"} /\ Rungs[rung].fd \in Nat
    BY <1>2, RungFacts DEF RungSends, Placed, CostPlaces, RungPoints, Op
  <2>2. /\ Message(seq, 0, "echo") \in Msg /\ Message(seq, 0, "echo").seq = seq
        /\ Op # "raw" => /\ Message(seq, Rungs[rung].fd, Op) \in Msg
                         /\ Message(seq, Rungs[rung].fd, Op).seq = seq
    BY <2>1, MessageFacts DEF Placed, Ops, RungOps
  <2> QED BY <1>2, <2>2 DEF RungSends, Sending, Touches, SendFails
<1>3. CASE RungReturns
  <2>1. /\ UNCHANGED link \/ RawTaking
        /\ arrived' = arrived \/ (arrived # <<>> /\ arrived' = Tail(arrived))
        /\ counted' = counted /\ seq' = seq
    BY <1>3 DEF RungReturns, RawTakes, RawEnds, Takes, RawTaking
  <2> QED BY <2>1 DEF Touches
<1>4. CASE NextRung \/ Spawn \/ CostConnects \/ Fork \/ ParentCloses \/ Xchg \/ XchgReturns
           \/ ParentDone \/ Waitpid \/ RungEnds
  BY <1>4 DEF NextRung, Spawn, Spawning, CostConnects, Connects, RawConnects, Fork, ParentCloses,
     Xchg, XchgReturns, ParentDone, Waitpid, RungEnds, Touches
<1> QED BY <1>1, <1>2, <1>3, <1>4 DEF CostStep

\* What a step of bound_client.rs does to it.
LEMMA BoundTouches ==
  ASSUME Placed, BoundStep
  PROVE  Touches
<1>1. Message(seq, 1, "ref") \in Msg /\ Message(seq, 1, "ref").seq = seq
  BY MessageFacts DEF Placed, Ops
<1> QED BY <1>1 DEF BoundStep, Connects, Sending, Takes, SendFails, Touches

\* What any client does to it.
LEMMA ClientMoves == ASSUME Placed, ClientNext PROVE Touches
<1>1. CASE KillNext
  BY <1>1 DEF KillNext, Kills, Touches
<1> QED
  BY <1>1, FrameTouches, BenchTouches, CostTouches, BoundTouches
     DEF ClientNext, FrameNext, BenchNext, CostNext, BoundNext

\* What the server, the link and the reply node do.
LinkMoves ==
  ServerBinds \/ RawBinds \/ ServerTakes \/ FindsReply \/ Replies
    \/ ServerQuits \/ RawEcho \/ ReplyArrives \/ ServerDies

\* A step is a client's or the link's own, which leaves the clients alone.
LEMMA WhatMoves ==
  ASSUME Placed, [Next]_vars
  PROVE  \/ Touches
         \/ LinkMoves /\ UNCHANGED <<prog, pc, seq, samples, frameVars, benchVars, costVars>>
<1>1. CASE ClientNext
  BY <1>1, ClientMoves
<1>2. CASE LinkNext \/ LinkFails
  BY <1>2 DEF LinkNext, LinkFails, LinkStep, LinkFault, LinkMoves
<1>3. CASE KidNext \/ CheckNext \/ CheckFails \/ UNCHANGED vars
  BY <1>3 DEF KidNext, KidStep, CheckNext, CheckFails, vars, echoVars, Touches
<1> QED BY <1>1, <1>2, <1>3 DEF Next

\* A process that ends: unread messages are lost, of the replies a prefix is left.
LEMMA GoneFacts ==
  ASSUME LinkTypes, ProcessGone
  PROVE  /\ server' = "gone" /\ toServer' = <<>> /\ rawIn' = <<>> /\ rawOut' = rawOut
         /\ toServer' \in Seq(Msg) /\ rawIn' \in Seq(Nat)
         /\ handling' \in Calls /\ handling'.stage = "idle"
         /\ cached' = FALSE /\ boxed' = FALSE /\ held' = 0
         /\ toClient' \in Seq(Nat) /\ Len(toClient') <= Len(toClient)
         /\ \A i \in 1 .. Len(toClient') : toClient'[i] = toClient[i]
<1>1. PICK n \in 0 .. Len(toClient) : toClient' = SubSeq(toClient, 1, n)
  BY DEF ProcessGone
<1>2. toClient' \in Seq(Nat) /\ Len(toClient') = n /\ \A i \in 1 .. n : toClient'[i] = toClient[i]
  <2>1. toClient \in Seq(Nat)
    BY DEF LinkTypes, BackTypes
  <2> QED BY <1>1, <2>1
<1>3. Len(toClient') <= Len(toClient)
  BY <1>1, <1>2
<1>4. toServer' = <<>>
  BY DEF ProcessGone
<1>5. toServer' \in Seq(Msg)
  BY <1>4
<1>6. rawIn' = <<>>
  BY DEF ProcessGone
<1>7. rawIn' \in Seq(Nat)
  BY <1>6
<1>8. /\ server' = "gone" /\ rawOut' = rawOut /\ handling' = Idle
      /\ cached' = FALSE /\ boxed' = FALSE /\ held' = 0
  BY DEF ProcessGone
<1> QED BY <1>2, <1>3, <1>4, <1>5, <1>6, <1>7, <1>8, IdleFacts

\* One or none.
LEMMA OneIfFacts == \A yes : OneIf(yes) \in {0, 1}
BY DEF OneIf

\* The next message goes into the handler.
LEMMA TakesFacts ==
  ASSUME LinkTypes, ServerTakes
  PROVE  /\ toServer # <<>> /\ Len(toServer) >= 1 /\ handling.stage = "idle"
         /\ handling'.msg = toServer[1] /\ toServer[1] \in Msg /\ toServer[1].caps \in Nat
         /\ handling'.stage = "took" /\ handling' \in Calls
         /\ toServer' \in Seq(Msg) /\ Len(toServer') = Len(toServer) - 1
         /\ \A i \in 1 .. Len(toServer') : toServer'[i] = toServer[i + 1]
         /\ held' = held + toServer[1].caps /\ held' \in Nat
         /\ server # "gone"
         /\ UNCHANGED <<server, cached, boxed, toClient, rawIn, rawOut, arrived, counted>>
<1>1. /\ toServer # <<>> /\ handling.stage = "idle" /\ server # "gone"
      /\ handling' = [stage |-> "took", msg |-> Head(toServer)]
      /\ held' = held + Head(toServer).caps
      /\ toServer' = Tail(toServer)
      /\ UNCHANGED <<server, cached, boxed, toClient, rawIn, rawOut, arrived, counted>>
  BY DEF ServerTakes, Alive
<1>2. toServer \in Seq(Msg) /\ held \in Nat
  BY DEF LinkTypes, ThereTypes
<1>3. /\ Len(toServer) >= 1 /\ Head(toServer) = toServer[1] /\ toServer[1] \in Msg
      /\ toServer' \in Seq(Msg) /\ Len(toServer') = Len(toServer) - 1
      /\ \A i \in 1 .. Len(toServer') : toServer'[i] = toServer[i + 1]
  BY <1>1, <1>2
<1>4. toServer[1].caps \in Nat
  BY <1>3 DEF Msg
<1>5. handling' \in Calls /\ handling'.stage = "took" /\ handling'.msg = toServer[1]
  BY <1>1, <1>3 DEF Calls
<1> QED BY <1>1, <1>2, <1>3, <1>4, <1>5

\* It finds where to reply, or drops the message.
LEMMA FindsFacts ==
  ASSUME LinkTypes, FindsReply
  PROVE  /\ handling.stage = "took" /\ handling' \in Calls /\ handling'.stage \in {"idle", "reply"}
         /\ handling'.stage = "reply" => handling'.msg = handling.msg
         /\ cached' = (cached \/ Keeps(handling.msg)) /\ cached' \in BOOLEAN
         /\ held' \in Nat /\ held' <= 1 + OneIf(boxed)
         /\ UNCHANGED <<server, toServer, boxed, toClient, rawIn, rawOut, arrived, counted>>
<1>1. handling \in Calls /\ cached \in BOOLEAN
  BY DEF LinkTypes, ThereTypes
<1>2. /\ handling.stage = "took"
      /\ handling' = Idle \/ handling' = [handling EXCEPT !.stage = "reply"]
  BY DEF FindsReply
<1>3. /\ handling' \in Calls /\ handling'.stage \in {"idle", "reply"}
      /\ handling'.stage = "reply" => handling'.msg = handling.msg
  BY <1>1, <1>2, IdleFacts DEF Calls
<1>4. /\ cached' = (cached \/ Keeps(handling.msg))
      /\ held' = OneIf(cached \/ Promotes(handling.msg)) + OneIf(boxed)
      /\ UNCHANGED <<server, toServer, boxed, toClient, rawIn, rawOut, arrived, counted>>
  BY DEF FindsReply
<1>5. held' \in Nat /\ held' <= 1 + OneIf(boxed)
  BY <1>4, OneIfFacts
<1> QED BY <1>1, <1>2, <1>3, <1>4, <1>5 DEF Keeps, Promotes

\* It replies.
LEMMA RepliesFacts ==
  ASSUME LinkTypes, Replies
  PROVE  /\ handling.stage = "reply" /\ handling' \in Calls /\ handling'.stage = "idle"
         /\ handling.msg \in Msg /\ toClient' = Append(toClient, handling.msg.seq)
         /\ toClient' \in Seq(Nat) /\ Len(toClient') = Len(toClient) + 1
         /\ toClient'[Len(toClient) + 1] = handling.msg.seq
         /\ \A i \in 1 .. Len(toClient) : toClient'[i] = toClient[i]
         /\ boxed' \in BOOLEAN /\ held' \in Nat
         /\ held <= 1 + OneIf(boxed) => held' <= 1 + OneIf(boxed')
         /\ UNCHANGED <<server, toServer, cached, rawIn, rawOut, arrived, counted>>
<1>1. handling.msg \in Msg /\ handling.msg.seq \in Nat
  BY DEF LinkTypes, ThereTypes, Calls, Msg
<1>2. /\ handling.stage = "reply" /\ handling' = Idle
      /\ toClient' = Append(toClient, handling.msg.seq)
      /\ boxed' = (cached /\ (boxed \/ Len(toClient) >= Room))
      /\ held' = IF cached THEN held + OneIf(boxed' /\ ~boxed) ELSE 0
      /\ UNCHANGED <<server, toServer, cached, rawIn, rawOut, arrived, counted>>
  BY DEF Replies
<1>3. toClient \in Seq(Nat)
  BY DEF LinkTypes, BackTypes
<1>4. /\ toClient' \in Seq(Nat) /\ Len(toClient') = Len(toClient) + 1
      /\ toClient'[Len(toClient) + 1] = handling.msg.seq
      /\ \A i \in 1 .. Len(toClient) : toClient'[i] = toClient[i]
  BY <1>1, <1>2, <1>3
<1>5. boxed' \in BOOLEAN /\ held' \in Nat
  <2>1. held \in Nat
    BY DEF LinkTypes, ThereTypes
  <2> QED BY <1>2, <2>1, OneIfFacts
<1>6. ASSUME held <= 1 + OneIf(boxed) PROVE held' <= 1 + OneIf(boxed')
  <2>1. held \in Nat
    BY DEF LinkTypes, ThereTypes
  <2>2. CASE ~cached
    BY <1>2, <2>2, OneIfFacts
  <2>3. CASE cached
    <3>1. held' = held + OneIf(boxed' /\ ~boxed) /\ (boxed => boxed')
      BY <1>2, <2>3
    <3>2. OneIf(boxed) + OneIf(boxed' /\ ~boxed) = OneIf(boxed')
      BY <3>1 DEF OneIf
    <3> QED BY <1>6, <2>1, <3>1, <3>2, OneIfFacts
  <2> QED BY <2>2, <2>3
<1> QED BY <1>1, <1>2, <1>4, <1>5, <1>6, IdleFacts

\* The client's send on the socket of its Ref.
LEMMA SendsFacts ==
  ASSUME LinkTypes, NEW m \in Msg, Sends(m)
  PROVE  /\ server # "gone"
         /\ toServer' \in Seq(Msg) /\ Len(toServer') = Len(toServer) + 1
         /\ toServer'[Len(toServer) + 1] = m
         /\ \A i \in 1 .. Len(toServer) : toServer'[i] = toServer[i]
         /\ UNCHANGED <<server, handling, cached, boxed, held, toClient, rawIn, rawOut>>
<1>1. toServer \in Seq(Msg)
  BY DEF LinkTypes, ThereTypes
<1>2. /\ server # "gone" /\ toServer' = Append(toServer, m)
      /\ UNCHANGED <<server, handling, cached, boxed, held, toClient, rawIn, rawOut>>
  BY DEF Sends, Alive
<1> QED BY <1>1, <1>2

\* The link stays well formed, and a dead server holds nothing.
LEMMA LinkTypesStep == Placed /\ LinkTypes /\ [Next]_vars => LinkTypes'
<1> SUFFICES ASSUME Placed, LinkTypes, [Next]_vars PROVE LinkTypes'
  OBVIOUS
<1>0. /\ toServer \in Seq(Msg) /\ handling \in Calls
      /\ cached \in BOOLEAN /\ boxed \in BOOLEAN /\ held \in Nat
      /\ toClient \in Seq(Nat) /\ arrived \in Seq(Nat) /\ rawIn \in Seq(Nat) /\ rawOut \in Seq(Nat)
      /\ server = "gone" => toServer = <<>> /\ rawIn = <<>> /\ handling.stage = "idle"
  BY DEF LinkTypes, ThereTypes, BackTypes, RawTypes, GoneIsEmpty
<1> USE DEF ThereTypes, BackTypes, RawTypes, GoneIsEmpty
<1>1. CASE Touches
  <2>1. arrived' \in Seq(Nat)
    <3>1. arrived \in Seq(Nat)
      BY <1>0
    <3>2. CASE arrived' = arrived
      BY <3>1, <3>2
    <3>3. CASE arrived' = <<>>
      BY <3>3
    <3>4. CASE arrived # <<>> /\ arrived' = Tail(arrived)
      BY <3>1, <3>4
    <3> QED BY <1>1, <3>2, <3>3, <3>4 DEF Touches
  <2>2. CASE UNCHANGED link
    BY <1>0, <2>1, <2>2 DEF link, LinkTypes
  <2>3. CASE RawTaking
    <3>1. rawOut' \in Seq(Nat)
      BY <1>0, <2>3 DEF RawTaking
    <3> QED BY <1>0, <2>1, <2>3, <3>1 DEF RawTaking, LinkTypes
  <2>4. CASE Spawning
    <3>1. /\ server' # "gone"
          /\ UNCHANGED <<toServer, handling, cached, boxed, held, toClient, rawIn, rawOut>>
      BY <2>4 DEF Spawning
    <3> QED BY <1>0, <2>1, <3>1 DEF LinkTypes
  <2>5. CASE ProcessGone
    <3>1. LinkTypes /\ ProcessGone
      BY <2>5
    <3>2. /\ toServer' \in Seq(Msg) /\ handling' \in Calls
          /\ cached' \in BOOLEAN /\ boxed' \in BOOLEAN /\ held' \in Nat
          /\ toClient' \in Seq(Nat) /\ rawIn' \in Seq(Nat) /\ rawOut' \in Seq(Nat)
          /\ toServer' = <<>> /\ rawIn' = <<>> /\ handling'.stage = "idle"
      BY <1>0, <3>1, GoneFacts
    <3> QED BY <2>1, <3>2 DEF LinkTypes
  <2>6. CASE Sending
    <3>1. PICK m \in Msg : Sends(m) \/ RawSends(m)
      BY <2>6 DEF Sending
    <3>2. CASE Sends(m)
      BY <1>0, <2>1, <3>2, SendsFacts DEF LinkTypes
    <3>3. CASE RawSends(m)
      <4>1. m.seq \in Nat
        BY DEF Msg
      <4>2. rawIn' \in Seq(Nat) /\ server # "gone"
        BY <1>0, <3>3, <4>1 DEF RawSends, Alive
      <4> QED BY <1>0, <2>1, <3>3, <4>2 DEF RawSends, LinkTypes
    <3> QED BY <3>1, <3>2, <3>3
  <2> QED BY <1>1, <2>2, <2>3, <2>4, <2>5, <2>6 DEF Touches
<1>2. CASE LinkMoves
  <2>1. CASE ServerQuits \/ ServerDies
    <3>1. ProcessGone /\ arrived' = arrived
      BY <2>1 DEF ServerQuits, ServerDies
    <3>2. /\ toServer' \in Seq(Msg) /\ handling' \in Calls
          /\ cached' \in BOOLEAN /\ boxed' \in BOOLEAN /\ held' \in Nat
          /\ toClient' \in Seq(Nat) /\ rawIn' \in Seq(Nat) /\ rawOut' \in Seq(Nat)
          /\ toServer' = <<>> /\ rawIn' = <<>> /\ handling'.stage = "idle"
      BY <1>0, <3>1, GoneFacts
    <3> QED BY <1>0, <3>1, <3>2 DEF LinkTypes
  <2>2. CASE ServerBinds \/ RawBinds
    <3>1. /\ server' # "gone"
          /\ UNCHANGED <<toServer, handling, cached, boxed, held, toClient, rawIn, rawOut,
                         arrived>>
      BY <2>2 DEF ServerBinds, RawBinds
    <3> QED BY <1>0, <3>1 DEF LinkTypes
  <2>3. CASE RawEcho
    <3>1. rawOut' \in Seq(Nat) /\ rawIn' \in Seq(Nat) /\ server # "gone"
      BY <1>0, <2>3 DEF RawEcho, Alive
    <3> QED BY <1>0, <2>3, <3>1 DEF RawEcho, LinkTypes
  <2>4. CASE ReplyArrives
    <3>1. arrived' \in Seq(Nat) /\ toClient' \in Seq(Nat)
      BY <1>0, <2>4 DEF ReplyArrives
    <3> QED BY <1>0, <2>4, <3>1 DEF ReplyArrives, LinkTypes
  <2>5. CASE ServerTakes
    BY <1>0, <2>5, TakesFacts DEF LinkTypes
  <2>6. CASE FindsReply
    <3>1. held' \in Nat /\ server # "gone"
      BY <1>0, <2>6, FindsFacts
    <3> QED BY <1>0, <2>6, <3>1, FindsFacts DEF LinkTypes
  <2>7. CASE Replies
    <3>1. held' \in Nat /\ boxed' \in BOOLEAN
      BY <1>0, <2>7, RepliesFacts
    <3> QED BY <1>0, <2>7, <3>1, RepliesFacts DEF LinkTypes
  <2> QED BY <1>2, <2>1, <2>2, <2>3, <2>4, <2>5, <2>6, <2>7 DEF LinkMoves
<1> QED BY <1>1, <1>2, WhatMoves

\* The client is always at a point of its own program and in a row of its table,
\* and the link is well formed: it carries messages one way and their numbers
\* back, and a server that is gone holds nothing (ProcessGone).
THEOREM LinkIsWellFormed == Spec => [](Placed /\ LinkTypes)
BY PlacedInit, PlacedStep, LinkInit, LinkTypesStep, PTL DEF Spec

\* A server at rest has one reply socket at most, and the outbox its duplicate
\* (EchoHandler of bench.rs).
LEMMA CapsStep == LinkTypes /\ Placed /\ ReclaimsCaps /\ [Next]_vars => ReclaimsCaps'
<1> SUFFICES ASSUME LinkTypes, Placed, ReclaimsCaps, [Next]_vars PROVE ReclaimsCaps'
  OBVIOUS
<1>1. UNCHANGED <<handling, held, boxed>> => ReclaimsCaps'
  BY DEF ReclaimsCaps
<1>2. ProcessGone => ReclaimsCaps'
  <2> HAVE ProcessGone
  <2>1. held' = 0 /\ boxed' = FALSE /\ handling'.stage = "idle"
    BY DEF ProcessGone, Idle
  <2>2. OneIf(boxed') = 0
    BY <2>1 DEF OneIf
  <2> QED BY <2>1, <2>2 DEF ReclaimsCaps
<1>3. CASE Touches
  BY <1>1, <1>2, <1>3 DEF Touches, Sending, Sends, RawSends, RawTaking, Spawning, link
<1>4. CASE LinkMoves
  <2>1. ServerBinds \/ RawBinds \/ RawEcho \/ ReplyArrives => UNCHANGED <<handling, held, boxed>>
    BY DEF ServerBinds, RawBinds, RawEcho, ReplyArrives
  <2>2. CASE ServerTakes
    <3>1. held <= 1 + OneIf(boxed) /\ held \in Nat /\ toServer[1].caps \in Nat
      BY <2>2, TakesFacts, OneIfFacts DEF LinkTypes, ThereTypes, ReclaimsCaps
    <3>2. /\ held' = held + toServer[1].caps /\ boxed' = boxed
          /\ handling'.stage = "took" /\ handling'.msg.caps = toServer[1].caps
      BY <2>2, TakesFacts
    <3>3. held' <= 1 + OneIf(boxed) + toServer[1].caps
      BY <3>1, <3>2, OneIfFacts
    <3> QED BY <3>2, <3>3 DEF ReclaimsCaps
  <2>3. CASE FindsReply
    <3>1. handling'.stage # "took" /\ boxed' = boxed /\ held' \in Nat /\ held' <= 1 + OneIf(boxed)
      BY <2>3, FindsFacts
    <3> QED BY <3>1, OneIfFacts DEF ReclaimsCaps
  <2>4. CASE Replies
    <3>1. held <= 1 + OneIf(boxed) /\ handling'.stage = "idle"
      BY <2>4, RepliesFacts, OneIfFacts DEF ReclaimsCaps
    <3>2. held' <= 1 + OneIf(boxed')
      BY <2>4, <3>1, RepliesFacts
    <3> QED BY <3>1, <3>2, OneIfFacts DEF ReclaimsCaps
  <2> QED BY <1>1, <1>2, <1>4, <2>1, <2>2, <2>3, <2>4 DEF LinkMoves, ServerQuits, ServerDies
<1> QED BY <1>3, <1>4, WhatMoves

\* No program ever leaves more descriptors in the server than one reply socket,
\* its duplicate in the outbox if there is one, and those of the message being
\* handled: the handler drops every other one
\* (EchoHandler; "every passed capability was reclaimed", bench.rs:901-902).
THEOREM CapsAreReclaimed == Spec => []ReclaimsCaps
<1>1. Init => ReclaimsCaps
  BY OneIfFacts DEF Init, EchoInit, ReclaimsCaps, Idle
<1> QED BY <1>1, PlacedInit, PlacedStep, LinkInit, LinkTypesStep, CapsStep, PTL DEF Spec

-----------------------------------------------------------------------------
(***************************************************************************)
(* The handler always finds a reply Ref.                                   *)
(***************************************************************************)
Needs(m) == m.op \in {"echo", "drop"} /\ m.caps = 0
TookKeeps == handling.stage = "took" /\ Keeps(handling.msg)

\* The handler has a reply Ref, or will have it when all that is on its way
\* has been handled.
Primed == cached \/ TookKeeps \/ \E i \in 1 .. Len(toServer) : Keeps(toServer[i])
Ready == server = "gone" \/ Primed

\* Each message that needs the Ref comes after one that leaves it.
Prepared ==
  /\ AlwaysAnswerable
  /\ \A i \in 1 .. Len(toServer) : Needs(toServer[i]) =>
       cached \/ TookKeeps \/ \E j \in 1 .. i - 1 : Keeps(toServer[j])

\* Where the clients rely on it.
ReadyFrames ==
  IsFrames /\ ~prog.raw /\ (pc \in FramePoints \ {"warm"} \/ (pc = "warm" /\ turn >= 1))
    => Ready
ReadyBench ==
  pc \in {"latencyrecv", "prime", "flooding"} \/ (pc = "latency" /\ step >= 1) => Ready
ReadyCost ==
  /\ IsCost /\ (rung > 6 \/ (rung = 6 /\ (pc = "rungrecv" \/ trips = 1))) => Ready
  /\ IsCost /\ pc = "next" /\ rung = 6 => trips = 1

\* A step of a client that leaves the server's half of the link alone, ends
\* the server, or sends a message the handler will be able to answer.
Still == UNCHANGED <<toServer, handling, cached>> \/ ProcessGone
SafeSending == \E m \in Msg : Sends(m) /\ (Needs(m) => Ready)

\* Whatever happens on the link, a message that needs the reply Ref still comes
\* after one that leaves it, if whoever sends one has waited until then.
LEMMA PreparedKept ==
  ASSUME LinkTypes, Prepared, LinkMoves \/ Still \/ SafeSending
  PROVE  Prepared'
<1>1. CASE UNCHANGED <<toServer, handling, cached>>
  BY <1>1 DEF Prepared, AlwaysAnswerable, TookKeeps, Needs, Keeps, Promotes
<1>2. CASE ProcessGone
  <2>1. handling'.stage = "idle" /\ Len(toServer') = 0
    BY <1>2, GoneFacts
  <2> QED BY <2>1 DEF Prepared, AlwaysAnswerable
<1>3. CASE SafeSending
  <2>1. PICK m \in Msg : Sends(m) /\ (Needs(m) => Ready)
    BY <1>3 DEF SafeSending
  <2>2. /\ server # "gone" /\ Len(toServer') = Len(toServer) + 1
        /\ toServer'[Len(toServer) + 1] = m
        /\ \A i \in 1 .. Len(toServer) : toServer'[i] = toServer[i]
        /\ handling' = handling /\ cached' = cached /\ Len(toServer) \in Nat
    BY <2>1, SendsFacts DEF LinkTypes, ThereTypes
  <2>3. AlwaysAnswerable' /\ (TookKeeps' <=> TookKeeps)
    BY <2>2 DEF Prepared, AlwaysAnswerable, TookKeeps
  <2>4. ASSUME NEW i \in 1 .. Len(toServer'), Needs(toServer'[i]), ~cached, ~TookKeeps
        PROVE  \E j \in 1 .. i - 1 : Keeps(toServer'[j])
    <3>1. CASE i = Len(toServer) + 1
      <4>1. Primed
        BY <2>1, <2>2, <2>4, <3>1 DEF Ready
      <4>2. PICK j \in 1 .. Len(toServer) : Keeps(toServer[j])
        BY <2>4, <4>1 DEF Primed
      <4>3. j \in 1 .. i - 1 /\ toServer'[j] = toServer[j]
        BY <2>2, <3>1
      <4> QED BY <4>2, <4>3
    <3>2. CASE i # Len(toServer) + 1
      <4>1. i \in 1 .. Len(toServer) /\ toServer'[i] = toServer[i]
        BY <2>2, <3>2
      <4>2. PICK j \in 1 .. i - 1 : Keeps(toServer[j])
        BY <2>4, <4>1 DEF Prepared
      <4>3. toServer'[j] = toServer[j]
        BY <2>2, <4>1
      <4> QED BY <4>2, <4>3
    <3> QED BY <3>1, <3>2
  <2> QED BY <2>2, <2>3, <2>4 DEF Prepared
<1>4. CASE ServerTakes
  <2> DEFINE h == toServer[1]
  <2>1. /\ handling.stage = "idle" /\ handling'.stage = "took" /\ handling'.msg = h
        /\ Len(toServer) \in Nat /\ Len(toServer) >= 1
        /\ Len(toServer') = Len(toServer) - 1 /\ cached' = cached
        /\ \A i \in 1 .. Len(toServer') : toServer'[i] = toServer[i + 1]
    BY <1>4, TakesFacts DEF LinkTypes, ThereTypes
  <2>2. ~TookKeeps /\ (TookKeeps' <=> Keeps(h))
    BY <2>1 DEF TookKeeps, Keeps, Promotes
  <2>3. Needs(h) => cached
    BY <2>1, <2>2 DEF Prepared
  <2>4. AlwaysAnswerable'
    BY <2>1, <2>3 DEF AlwaysAnswerable, Needs
  <2>5. ASSUME NEW i \in 1 .. Len(toServer'), Needs(toServer'[i]), ~cached, ~Keeps(h)
        PROVE  \E j \in 1 .. i - 1 : Keeps(toServer'[j])
    <3>1. i + 1 \in 1 .. Len(toServer) /\ Needs(toServer[i + 1])
      BY <2>1, <2>5
    <3>2. PICK j \in 1 .. (i + 1) - 1 : Keeps(toServer[j])
      BY <2>2, <2>5, <3>1 DEF Prepared
    <3>3. j # 1
      BY <2>5, <3>2
    <3>4. j - 1 \in 1 .. i - 1 /\ toServer'[j - 1] = toServer[(j - 1) + 1]
      BY <2>1, <3>2, <3>3
    <3>5. (j - 1) + 1 = j
      BY <3>2
    <3> QED BY <3>2, <3>4, <3>5
  <2> HIDE DEF h
  <2> QED BY <2>1, <2>2, <2>4, <2>5 DEF Prepared
<1>5. CASE FindsReply
  <2>1. /\ handling.stage = "took" /\ handling'.stage # "took"
        /\ cached' = (cached \/ Keeps(handling.msg)) /\ toServer' = toServer
    BY <1>5, FindsFacts
  <2> QED BY <2>1 DEF Prepared, AlwaysAnswerable, TookKeeps, Keeps, Promotes
<1>6. CASE Replies
  <2>1. /\ handling.stage # "took" /\ handling'.stage # "took"
        /\ cached' = cached /\ toServer' = toServer
    BY <1>6, RepliesFacts
  <2> QED BY <2>1 DEF Prepared, AlwaysAnswerable, TookKeeps
<1> QED
  BY <1>1, <1>2, <1>3, <1>4, <1>5, <1>6
     DEF LinkMoves, Still, ServerBinds, RawBinds, RawEcho, ReplyArrives, ServerQuits, ServerDies

\* Once primed, the handler stays so until the server is gone.
LEMMA ReadyStays ==
  ASSUME Placed, LinkTypes, [Next]_vars, Ready, pc # "spawn"
  PROVE  Ready'
<1>1. CASE UNCHANGED link
  BY <1>1 DEF link, Ready, Primed, TookKeeps, Keeps, Promotes
<1>2. CASE ProcessGone
  BY <1>2 DEF ProcessGone, Ready
<1>3. CASE UNCHANGED <<toServer, handling, cached>> /\ (server = "gone" => server' = "gone")
  BY <1>3 DEF Ready, Primed, TookKeeps, Keeps, Promotes
<1>4. CASE \E m \in Msg : Sends(m)
  <2>1. PICK m \in Msg : Sends(m)
    BY <1>4
  <2>2. /\ server # "gone" /\ Len(toServer') = Len(toServer) + 1
        /\ \A i \in 1 .. Len(toServer) : toServer'[i] = toServer[i]
        /\ handling' = handling /\ cached' = cached /\ Len(toServer) \in Nat
    BY <2>1, SendsFacts DEF LinkTypes, ThereTypes
  <2>3. CASE cached \/ TookKeeps
    BY <2>2, <2>3 DEF Ready, Primed, TookKeeps
  <2>4. CASE ~cached /\ ~TookKeeps
    <3>1. PICK i \in 1 .. Len(toServer) : Keeps(toServer[i])
      BY <2>2, <2>4 DEF Ready, Primed
    <3>2. i \in 1 .. Len(toServer') /\ toServer'[i] = toServer[i]
      BY <2>2
    <3> QED BY <3>1, <3>2 DEF Ready, Primed, Keeps, Promotes
  <2> QED BY <2>3, <2>4
<1>5. CASE ServerTakes
  <2>1. /\ handling.stage = "idle" /\ handling'.stage = "took" /\ handling'.msg = toServer[1]
        /\ Len(toServer) \in Nat /\ server # "gone"
        /\ Len(toServer') = Len(toServer) - 1 /\ cached' = cached
        /\ \A i \in 1 .. Len(toServer') : toServer'[i] = toServer[i + 1]
    BY <1>5, TakesFacts DEF LinkTypes, ThereTypes
  <2>2. CASE cached
    BY <2>1, <2>2 DEF Ready, Primed
  <2>3. CASE ~cached
    <3>1. PICK i \in 1 .. Len(toServer) : Keeps(toServer[i])
      BY <2>1, <2>3 DEF Ready, Primed, TookKeeps
    <3>2. CASE i = 1
      BY <2>1, <3>1, <3>2 DEF Ready, Primed, TookKeeps, Keeps, Promotes
    <3>3. CASE i # 1
      <4>1. i - 1 \in 1 .. Len(toServer') /\ toServer'[i - 1] = toServer[(i - 1) + 1] /\ (i - 1) + 1 = i
        BY <2>1, <3>3
      <4>2. Keeps(toServer'[i - 1])
        BY <3>1, <4>1
      <4> QED BY <4>1, <4>2 DEF Ready, Primed, Keeps, Promotes
    <3> QED BY <3>2, <3>3
  <2> QED BY <2>2, <2>3
<1>6. CASE FindsReply
  <2>1. /\ handling.stage = "took" /\ server' = server
        /\ cached' = (cached \/ Keeps(handling.msg)) /\ toServer' = toServer
    BY <1>6, FindsFacts
  <2> QED BY <2>1 DEF Ready, Primed, TookKeeps, Keeps, Promotes
<1>7. CASE Replies
  <2>1. handling.stage = "reply" /\ server' = server /\ cached' = cached /\ toServer' = toServer
    BY <1>7, RepliesFacts
  <2> QED BY <2>1 DEF Ready, Primed, TookKeeps, Keeps, Promotes
<1>8. CASE Touches
  BY <1>1, <1>2, <1>3, <1>4, <1>8 DEF Touches, Sending, RawSends, RawTaking, Spawning
<1>9. CASE LinkMoves
  BY <1>2, <1>3, <1>5, <1>6, <1>7, <1>9
     DEF LinkMoves, ServerBinds, RawBinds, RawEcho, ReplyArrives, ServerQuits, ServerDies
<1> QED BY <1>8, <1>9, WhatMoves

\* A message whose capability the handler keeps primes it; a send that fails
\* says that the server is gone.
LEMMA Primes ==
  ASSUME LinkTypes, NEW m \in Msg, Keeps(m), Sends(m)
  PROVE  Ready'
<1>1. Len(toServer') = Len(toServer) + 1 /\ toServer'[Len(toServer) + 1] = m /\ Len(toServer) \in Nat
  BY SendsFacts DEF LinkTypes, ThereTypes
<1>2. Len(toServer) + 1 \in 1 .. Len(toServer')
  BY <1>1
<1> QED BY <1>1, <1>2 DEF Ready, Primed, Keeps, Promotes

\* paced.rs and timeline.rs warm up with a capability before they send without.
LEMMA FrameAnswers ==
  ASSUME Placed, LinkTypes, Prepared, ReadyFrames, FrameNext
  PROVE  Prepared' /\ ReadyFrames'
<1>1. /\ FrameStep /\ IsFrames /\ prog' = prog /\ pc # "spawn"
      /\ prog.caps \in Nat /\ turn \in Nat
  BY FrameGoes DEF FrameNext, Placed, FramePlaces, CostPlaces, IsFrames, IsCost, Program
<1>2. Ready => Ready'
  BY <1>1, ReadyStays DEF Next, ClientNext
<1>3. SendFails => Ready'
  BY DEF SendFails, link, Ready
<1>4. \A caps \in Nat, op \in Ops :
        /\ Message(seq, caps, op) \in Msg
        /\ caps > 0 \/ op = "QUIT" => ~Needs(Message(seq, caps, op))
        /\ caps > 0 /\ op = "echo" => Keeps(Message(seq, caps, op))
  BY MessageFacts DEF Placed, Needs, Keeps, Promotes
<1>5. CASE WarmSends
  <2> DEFINE m == Message(seq, WarmCaps, "echo")
  <2>1. WarmCaps \in Nat /\ WarmCaps > 0
    BY <1>1 DEF WarmCaps, Larger
  <2>2. m \in Msg /\ ~Needs(m) /\ Keeps(m)
    BY <1>4, <2>1 DEF Ops
  <2>3. PushOk(WarmCaps) \/ SendFails
    BY <1>5 DEF WarmSends
  <2>4. Still \/ SafeSending
    <3>1. CASE SendFails \/ prog.raw
      BY <2>3, <3>1 DEF PushOk, RawSends, SendFails, link, Still
    <3>2. CASE Sends(m)
      BY <2>2, <3>2 DEF SafeSending
    <3> QED BY <2>3, <3>1, <3>2 DEF PushOk
  <2>5. ~prog.raw => Ready'
    BY <1>3, <2>2, <2>3, Primes DEF PushOk
  <2> QED BY <1>1, <2>4, <2>5, PreparedKept DEF ReadyFrames
<1>6. CASE FrameSends
  <2> DEFINE m == Message(seq, prog.caps, "echo")
  <2>1. m \in Msg
    BY <1>1, <1>4 DEF Ops
  <2>2. ~prog.raw => Ready
    BY <1>1, <1>6 DEF FrameSends, ReadyFrames, FramePoints
  <2>3. PushOk(prog.caps) \/ SendFails
    BY <1>6 DEF FrameSends
  <2>4. Still \/ SafeSending
    <3>1. CASE SendFails \/ prog.raw
      BY <2>3, <3>1 DEF PushOk, RawSends, SendFails, link, Still
    <3>2. CASE Sends(m) /\ ~prog.raw
      BY <2>1, <2>2, <3>2 DEF SafeSending
    <3> QED BY <2>3, <3>1, <3>2 DEF PushOk
  <2> QED BY <1>1, <1>2, <2>2, <2>4, PreparedKept DEF ReadyFrames
<1>7. CASE FrameQuits
  <2>1. PICK caps \in Nat, tries \in BOOLEAN : Quits(caps, tries)
    BY <1>1, <1>7 DEF FrameQuits
  <2>2. Message(seq, caps, "QUIT") \in Msg /\ ~Needs(Message(seq, caps, "QUIT"))
    BY <1>4 DEF Ops
  <2>3. Still \/ SafeSending
    BY <2>1, <2>2 DEF Quits, SendFails, link, Still, SafeSending
  <2>4. pc' = "killing"
    BY <2>1 DEF Quits
  <2> QED BY <2>3, <2>4, PreparedKept DEF ReadyFrames, FramePoints
<1>8. CASE ~(WarmSends \/ FrameSends \/ FrameQuits)
  <2>1. Still
    BY <1>1, <1>8 DEF FrameStep, FrameConnects, Connects, RawConnects, WarmReplies, WarmEnds, FrameBegins,
       FrameSent, SequentialReplies, PipelinedReplies, PipelineEnds, FrameEnds, Stamps,
       TimelineReplies, AReply, NoReply, Takes, RawTakes, link, Still
  <2>2. \/ pc \in FramePoints \ {"warm"}
        \/ pc = "warm" /\ turn = Warm
        \/ pc' \notin FramePoints
        \/ pc' = "warm" /\ turn' = 0
    <3>1. CASE FrameConnects
      <4>1. pc \in ConnectPoints /\ (pc' = "warm" \/ pc' \notin FramePoints) /\ turn' = turn
        BY <3>1 DEF FrameConnects, Connects, RawConnects, ConnectPoints, FramePoints, frameVars
      <4> QED BY <1>1, <4>1 DEF Placed, FramePlaces
    <3>2. CASE ~FrameConnects
      BY <1>1, <1>8, <3>2 DEF FrameStep, WarmReplies, WarmEnds, FrameBegins, FrameSent,
         SequentialReplies, PipelinedReplies, PipelineEnds, FrameEnds, Stamps,
         TimelineReplies, FramePoints
    <3> QED BY <3>1, <3>2
  <2>3. ReadyFrames'
    <3>1. CASE pc \in FramePoints \ {"warm"} \/ (pc = "warm" /\ turn = Warm)
      <4>1. turn = Warm => turn >= 1
        BY FrameAssumption
      <4>2. ~prog.raw => Ready
        BY <1>1, <3>1, <4>1 DEF ReadyFrames
      <4> QED BY <1>1, <1>2, <4>2 DEF ReadyFrames
    <3>2. CASE pc' \notin FramePoints \/ (pc' = "warm" /\ turn' = 0)
      BY <3>2 DEF ReadyFrames, FramePoints
    <3> QED BY <2>2, <3>1, <3>2
  <2> QED BY <2>1, <2>3, PreparedKept
<1> QED BY <1>5, <1>6, <1>7, <1>8

\* bench.rs: the warmup of each phase carries at least one capability.
LEMMA BenchAnswers ==
  ASSUME Placed, LinkTypes, Prepared, ReadyBench, BenchNext
  PROVE  Prepared' /\ ReadyBench'
<1>1. BenchStep /\ pc # "spawn" /\ step \in Nat
  BY BenchGoes DEF BenchNext, Placed, BenchPlaces, CostPlaces, IsBench, IsCost
<1>2. Ready => Ready'
  BY <1>1, ReadyStays DEF Next, ClientNext
<1>3. ClientFails => Ready' /\ Still
  BY DEF ClientFails, SendFails, link, Ready, Still
<1>4. \A caps \in Nat :
        /\ Message(seq, caps, "echo") \in Msg
        /\ caps > 0 => ~Needs(Message(seq, caps, "echo")) /\ Keeps(Message(seq, caps, "echo"))
  BY MessageFacts DEF Placed, Needs, Keeps, Promotes, Ops
<1>5. \A caps \in Nat : ClientSends(caps) =>
        /\ Ready \/ caps > 0 => SafeSending
        /\ caps > 0 => Ready'
  <2> SUFFICES ASSUME NEW caps \in Nat, ClientSends(caps)
               PROVE  (Ready \/ caps > 0 => SafeSending) /\ (caps > 0 => Ready')
    OBVIOUS
  <2> DEFINE m == Message(seq, caps, "echo")
  <2>1. m \in Msg /\ (caps > 0 => ~Needs(m) /\ Keeps(m)) /\ Sends(m)
    BY <1>4 DEF ClientSends
  <2> HIDE DEF m
  <2> QED BY <2>1, Primes DEF SafeSending
<1>6. pc \in {"latency", "flood", "flooding", "probe"} =>
        /\ Caps \in Nat /\ AtLeastOne(Caps) \in Nat /\ AtLeastOne(Caps) > 0
        /\ pc = "probe" => Caps > 0
  <2> SUFFICES ASSUME pc \in {"latency", "flood", "flooding", "probe"}
               PROVE  /\ Caps \in Nat /\ AtLeastOne(Caps) \in Nat /\ AtLeastOne(Caps) > 0
                      /\ pc = "probe" => Caps > 0
    OBVIOUS
  <2>1. phase \in 1 .. Len(Phases) /\ pc \in PointsOf(Phases[phase].what)
    BY DEF Placed, BenchPlaces, BenchPoints
  <2>2. pc = "probe" => Phases[phase].what = "probe"
    BY <2>1, PhaseFacts DEF PointsOf, Whats
  <2> QED BY <2>1, <2>2, PhaseFacts DEF Caps, AtLeastOne
<1>7. CASE LatencySends
  <2>1. pc = "latency" /\ step' = step
    BY <1>7 DEF LatencySends, benchRest, benchVars
  <2>2. CASE step = 0
    <3>1. (ClientSends(AtLeastOne(Caps)) \/ ClientFails) \/ (pc' = "next" /\ UNCHANGED link)
      BY <1>7, <2>2 DEF LatencySends
    <3>2. ClientSends(AtLeastOne(Caps)) => SafeSending /\ Ready'
      BY <1>5, <1>6, <2>1
    <3>3. CASE pc' = "next" /\ UNCHANGED link
      <4>1. Still
        BY <3>3 DEF link, Still
      <4> QED BY <3>3, <4>1, PreparedKept DEF ReadyBench
    <3> QED BY <1>3, <3>1, <3>2, <3>3, PreparedKept DEF ReadyBench
  <2>3. CASE step # 0
    <3>1. Ready
      BY <1>1, <2>1, <2>3 DEF ReadyBench
    <3>2. ClientSends(Caps) \/ ClientFails \/ UNCHANGED link
      BY <1>7, <2>3 DEF LatencySends
    <3>3. Still \/ SafeSending
      BY <1>3, <1>5, <1>6, <2>1, <3>1, <3>2 DEF link, Still
    <3> QED BY <1>2, <3>1, <3>3, PreparedKept DEF ReadyBench
  <2> QED BY <2>2, <2>3
<1>8. CASE FloodPrimes
  <2>1. pc = "flood" /\ (ClientSends(AtLeastOne(Caps)) \/ ClientFails)
    BY <1>8 DEF FloodPrimes
  <2> QED BY <1>3, <1>5, <1>6, <2>1, PreparedKept DEF ReadyBench
<1>9. CASE FloodSends
  <2>1. pc = "flooding" /\ (ClientSends(Caps) \/ ClientFails)
    BY <1>9 DEF FloodSends
  <2>2. Ready
    BY <2>1 DEF ReadyBench
  <2> QED BY <1>2, <1>3, <1>5, <1>6, <2>1, <2>2, PreparedKept DEF ReadyBench
<1>10. CASE Probes
  <2>1. /\ pc = "probe" /\ pc' \in {"probed", "next"}
        /\ ClientSends(Caps) \/ ClientFails \/ UNCHANGED link
    BY <1>10 DEF Probes
  <2>2. Still \/ SafeSending
    BY <1>3, <1>5, <1>6, <2>1 DEF link, Still
  <2> QED BY <2>1, <2>2, PreparedKept DEF ReadyBench
<1>11. CASE BenchQuits
  <2>1. PICK caps \in Nat, tries \in BOOLEAN : Quits(caps, tries)
    BY <1>11 DEF BenchQuits
  <2>2. Message(seq, caps, "QUIT") \in Msg /\ ~Needs(Message(seq, caps, "QUIT"))
    BY MessageFacts DEF Placed, Needs, Ops
  <2>3. Still \/ SafeSending
    BY <2>1, <2>2 DEF Quits, SendFails, link, Still, SafeSending
  <2>4. pc' = "killing"
    BY <2>1 DEF Quits
  <2> QED BY <2>3, <2>4, PreparedKept DEF ReadyBench
<1>12. CASE ~(LatencySends \/ FloodPrimes \/ FloodSends \/ Probes \/ BenchQuits)
  <2>1. Still
    BY <1>1, <1>12 DEF BenchStep, BenchConnects, Connects, RawConnects, NextPhase, BaseSends, BaseRecvs,
       LatencyRecvs, FloodBegins, TailWaits, TailEnds, QuiesceAgain, QuiesceEnds, ProbeReplies,
       WatchTrips, ClientFails, SendFails, RawSends, RawTakes, RawEnds, Takes, link, Still
  <2>2. \/ pc \in {"latencyrecv", "prime"}
        \/ pc' = "latency" /\ step' = 0
        \/ pc' \notin {"latency", "latencyrecv", "prime", "flooding"}
    <3>1. CASE NextPhase
      BY <3>1, PhaseFacts DEF NextPhase, Placed, BenchPlaces, Whats, IsCost, IsBench
    <3>2. CASE ~NextPhase
      BY <1>1, <1>12, <3>2 DEF BenchStep, BenchConnects, Connects, RawConnects, BaseSends, BaseRecvs,
         LatencyRecvs, FloodBegins, TailWaits, TailEnds, QuiesceAgain, QuiesceEnds, ProbeReplies,
         WatchTrips
    <3> QED BY <3>1, <3>2
  <2>3. ReadyBench'
    BY <1>2, <2>2 DEF ReadyBench
  <2> QED BY <2>1, <2>3, PreparedKept
<1> QED BY <1>7, <1>8, <1>9, <1>10, <1>11, <1>12

\* fdcost.rs: the row "establish" comes before those whose Ref is dropped.
LEMMA CostAnswers ==
  ASSUME Placed, LinkTypes, Prepared, ReadyCost, CostNext
  PROVE  Prepared' /\ ReadyCost'
<1>1. CostStep /\ IsCost /\ prog' = prog /\ trips \in Nat
  BY CostGoes DEF CostNext, Placed, CostPlaces
<1>2. pc # "spawn" /\ Ready => Ready'
  BY <1>1, ReadyStays DEF Next, ClientNext
<1>3. SendFails => Ready' /\ Still
  BY DEF SendFails, link, Ready, Still
<1>4. CASE RungSends
  <2>1. /\ pc = "rung" /\ rung \in 1 .. 14 /\ Op = Rungs[rung].op
        /\ Op \in RungOps \ {"fork", "spawn"} /\ Rungs[rung].fd \in Nat
        /\ rung' = rung /\ trips' = trips /\ pc' \in {"rungrecv", "panic"}
        /\ Op = "drop" => rung > 6
        /\ rung = 6 => Op = "establish" /\ Rungs[rung].fd = 1
    BY <1>4, RungFacts DEF RungSends, Placed, CostPlaces, RungPoints, Op, costVars, R
  <2> DEFINE m == Message(seq, Rungs[rung].fd, Op)
  <2>2. CASE Op # "raw"
    <3>1. /\ m \in Msg /\ (Needs(m) => rung > 6) /\ (rung = 6 => Keeps(m))
      BY <2>1, <2>2, MessageFacts DEF Placed, Ops, RungOps, Needs, Keeps, Promotes
    <3>2. Sends(m) \/ SendFails
      BY <1>4, <2>2 DEF RungSends
    <3>3. rung > 6 => Ready
      BY <1>1 DEF ReadyCost
    <3>4. Still \/ SafeSending
      BY <1>3, <3>1, <3>2, <3>3 DEF SafeSending
    <3>5. rung >= 6 => Ready'
      <4>1. CASE rung > 6
        BY <1>2, <2>1, <3>3, <4>1
      <4>2. CASE rung = 6
        BY <1>3, <3>1, <3>2, <4>2, Primes
      <4> QED BY <2>1, <4>1, <4>2
    <3> QED BY <2>1, <3>4, <3>5, PreparedKept DEF ReadyCost
  <2>3. CASE Op = "raw"
    <3>1. Still
      BY <1>3, <1>4, <2>3 DEF RungSends, RawSends, Still
    <3>2. rung' > 6 => Ready'
      BY <1>1, <1>2, <2>1 DEF ReadyCost
    <3> QED BY <2>1, <2>3, <3>1, <3>2, PreparedKept DEF ReadyCost
  <2> QED BY <2>2, <2>3
<1>5. CASE CostQuits
  <2>1. PICK caps \in Nat, tries \in BOOLEAN : Quits(caps, tries)
    BY <1>5 DEF CostQuits
  <2>2. Message(seq, caps, "QUIT") \in Msg /\ ~Needs(Message(seq, caps, "QUIT"))
    BY MessageFacts DEF Placed, Needs, Ops
  <2>3. Still \/ SafeSending
    BY <2>1, <2>2 DEF Quits, SendFails, link, Still, SafeSending
  <2>4. /\ pc = "quit" /\ pc' = "killing" /\ rung' = rung /\ trips' = trips
    BY <1>5, <2>1 DEF Quits, CostQuits, costVars
  <2>5. ReadyCost'
    BY <1>1, <1>2, <2>4 DEF ReadyCost
  <2> QED BY <2>3, <2>5, PreparedKept
<1>6. CASE ~(RungSends \/ CostQuits)
  <2>1. Still
    BY <1>1, <1>6 DEF CostStep, NextRung, Spawn, CostConnects, Connects, RawConnects, Fork, ParentCloses,
       Xchg, XchgReturns, ParentDone, Waitpid, RungReturns, RungEnds, RawTakes, RawEnds, Takes,
       link, Still
  <2>2. CASE Spawn
    <3>1. rung = 3 /\ rung' = rung /\ pc' = "connect"
      BY <2>2 DEF Spawn, Placed, CostPlaces, costVars
    <3> QED BY <2>1, <3>1, PreparedKept DEF ReadyCost
  <2>3. CASE NextRung
    <3>1. /\ pc = "next" /\ rung' = rung + 1 /\ trips' = 0 /\ rung \in 0 .. 14
          /\ pc' \in {"quit", "fork", "spawn", "rung"}
      BY <1>1, <2>3 DEF NextRung, Placed, CostPlaces
    <3>2. rung >= 6 => Ready
      BY <1>1, <3>1 DEF ReadyCost
    <3> QED BY <1>2, <2>1, <3>1, <3>2, PreparedKept DEF ReadyCost
  <2>4. CASE RungReturns
    <3>1. /\ pc = "rungrecv" /\ rung' = rung /\ trips' = trips + 1 /\ pc' \in {"rung", "panic"}
      BY <2>4 DEF RungReturns
    <3> QED BY <1>1, <1>2, <2>1, <3>1, PreparedKept DEF ReadyCost
  <2>5. CASE RungEnds
    <3>1. /\ pc = "rung" /\ rung' = rung /\ trips' = trips /\ pc' = "next" /\ trips = Trips
          /\ rung \in 1 .. 14
      BY <2>5 DEF RungEnds, costVars, Placed, CostPlaces, RungPoints
    <3>2. rung = 6 => trips = 1
      BY <3>1, RungFacts DEF Trips, Op, R
    <3> QED BY <1>1, <1>2, <2>1, <3>1, <3>2, PreparedKept DEF ReadyCost
  <2>6. CASE Fork \/ ParentCloses \/ Xchg \/ XchgReturns \/ ParentDone \/ Waitpid
    <3>1. /\ pc \in ForkPoints /\ rung' = rung /\ pc' \in ForkPoints \cup {"next"}
      BY <2>6 DEF Fork, ParentCloses, Xchg, XchgReturns, ParentDone, Waitpid, ForkPoints
    <3>2. rung # 6 /\ pc # "spawn"
      BY <3>1, RungFacts DEF Placed, CostPlaces, Op, R, ForkPoints
    <3> QED BY <1>1, <1>2, <2>1, <3>1, <3>2, PreparedKept DEF ReadyCost
  <2>7. CASE CostConnects
    <3>1. pc \in ConnectPoints /\ rung' = rung
      BY <2>7 DEF CostConnects, Connects, RawConnects, ConnectPoints, costVars
    <3>2. rung = 3
      BY <1>1, <3>1 DEF Placed, CostPlaces
    <3> QED BY <2>1, <3>1, <3>2, PreparedKept DEF ReadyCost
  <2> QED BY <1>1, <1>6, <2>2, <2>3, <2>4, <2>5, <2>6, <2>7 DEF CostStep
<1> QED BY <1>4, <1>5, <1>6

\* bound_client.rs sends its capability with its only message.
LEMMA BoundAnswers == ASSUME Placed, LinkTypes, Prepared, BoundNext PROVE Prepared'
<1>1. Message(seq, 1, "ref") \in Msg /\ ~Needs(Message(seq, 1, "ref"))
  BY MessageFacts DEF Placed, Ops, Needs
<1>2. Still \/ SafeSending
  BY <1>1 DEF BoundNext, BoundStep, Connects, SendFails, Takes, link, Still, SafeSending
<1> QED BY <1>2, PreparedKept

Answering == Prepared /\ ReadyFrames /\ ReadyBench /\ ReadyCost

\* All of them together.
LEMMA AnswersStep == Placed /\ LinkTypes /\ Answering /\ [Next]_vars => Answering'
<1> SUFFICES ASSUME Placed, LinkTypes, Answering, [Next]_vars PROVE Answering'
  OBVIOUS
<1>1. CASE FrameNext
  <2>1. /\ FrameStep /\ IsFrames /\ prog' = prog
        /\ pc' \in FramePoints \cup ConnectPoints \cup LeavePoints
    BY <1>1, FrameGoes DEF FrameNext
  <2>2. ReadyBench' /\ ReadyCost'
    BY <2>1 DEF ReadyBench, ReadyCost, IsFrames, IsCost, FramePoints, ConnectPoints, LeavePoints,
       Finished
  <2> QED BY <1>1, <2>2, FrameAnswers DEF Answering
<1>2. CASE BenchNext
  <2>1. BenchStep /\ IsBench /\ prog' = prog
    BY <1>2, BenchGoes DEF BenchNext
  <2>2. ReadyFrames' /\ ReadyCost'
    BY <2>1 DEF ReadyFrames, ReadyCost, IsFrames, IsBench, IsCost
  <2> QED BY <1>2, <2>2, BenchAnswers DEF Answering
<1>3. CASE CostNext
  <2>1. /\ CostStep /\ IsCost /\ prog' = prog
        /\ pc' \in ForkPoints \cup RungPoints \cup {"next", "spawn"} \cup ConnectPoints
                   \cup LeavePoints
    BY <1>3, CostGoes DEF CostNext
  <2>2. ReadyFrames' /\ ReadyBench'
    BY <2>1 DEF ReadyFrames, ReadyBench, IsFrames, IsCost, ForkPoints, RungPoints, ConnectPoints,
       LeavePoints, Finished
  <2> QED BY <1>3, <2>2, CostAnswers DEF Answering
<1>4. CASE BoundNext
  <2>1. /\ prog.name = "bound" /\ prog' = prog /\ pc' \in BoundPoints \cup LeavePoints
    BY <1>4, BoundGoes DEF BoundNext
  <2>2. ReadyFrames' /\ ReadyBench' /\ ReadyCost'
    BY <2>1 DEF ReadyFrames, ReadyBench, ReadyCost, IsFrames, IsCost, BoundPoints, LeavePoints,
       Finished
  <2> QED BY <1>4, <2>2, BoundAnswers DEF Answering
<1>5. CASE KidNext \/ LinkNext \/ LinkFails \/ CheckNext \/ CheckFails \/ KillNext \/ UNCHANGED vars
  <2>1. /\ prog' = prog /\ UNCHANGED <<turn, step, rung, trips>>
        /\ pc' = pc \/ pc' = "end"
    BY <1>5, OthersStay DEF vars, echoVars, frameVars, benchVars, costVars
  <2>2. pc # "spawn" /\ Ready => Ready'
    BY ReadyStays
  <2>3. ReadyFrames' /\ ReadyBench'
    <3>1. pc = "spawn" => pc' \notin FramePoints /\ pc' \notin BenchPoints
      BY <2>1 DEF FramePoints, BenchPoints
    <3> QED BY <2>1, <2>2, <3>1
            DEF Answering, ReadyFrames, ReadyBench, IsFrames, FramePoints, BenchPoints
  <2>4. ReadyCost'
    <3>1. pc = "spawn" => IsCost /\ rung = 3
      BY DEF Placed, CostPlaces
    <3> QED BY <2>1, <2>2, <3>1 DEF Answering, ReadyCost, IsCost
  <2>5. Still \/ LinkMoves
    BY <1>5 DEF KidNext, KidStep, LinkNext, LinkStep, LinkFails, LinkFault, CheckNext, CheckFails,
       KillNext, Kills, vars, echoVars, link, Still, LinkMoves
  <2> QED BY <2>3, <2>4, <2>5, PreparedKept DEF Answering
<1> QED BY <1>1, <1>2, <1>3, <1>4, <1>5 DEF Next, ClientNext

\* A message without a capability finds a cached reply Ref whenever the handler
\* takes it, in every program, however its sends fail and its server dies ("hand
\* the server a reply ref so caps=0 can work", paced.rs:416).
THEOREM EveryMessageFindsItsReply == Spec => []AlwaysAnswerable
<1>1. Init => Answering
  <2> SUFFICES ASSUME Init PROVE Answering
    OBVIOUS
  <2>1. /\ Len(toServer) = 0 /\ handling.stage = "idle" /\ rung = 0
        /\ pc \in {"next", "check", "connect"}
    BY DEF Init, EchoInit, CostInit, Idle
  <2>2. Prepared
    BY <2>1 DEF Prepared, AlwaysAnswerable
  <2> QED BY <2>1, <2>2 DEF Answering, ReadyFrames, ReadyBench, ReadyCost, FramePoints
<1>2. Answering => AlwaysAnswerable
  BY DEF Answering, Prepared
<1> QED BY <1>1, <1>2, PlacedInit, PlacedStep, LinkInit, LinkTypesStep, AnswersStep, PTL DEF Spec

-----------------------------------------------------------------------------
(***************************************************************************)
(* One message at a time: the round trips that are timed.                  *)
(***************************************************************************)
\* At most one message is between the client and its reply, and its number.
Busy == IF handling.stage = "idle" THEN 0 ELSE 1
Single == Len(toServer) + Busy + Len(toClient) + Len(arrived) <= 1
Flying ==
  IF toServer # <<>> THEN {toServer[1].seq}
  ELSE IF handling.stage # "idle" THEN {handling.msg.seq}
  ELSE IF toClient # <<>> THEN {toClient[1]}
  ELSE IF arrived # <<>> THEN {arrived[1]} ELSE {}
RawSingle == Len(rawIn) + Len(rawOut) <= 1
RawFlying ==
  IF rawIn # <<>> THEN {rawIn[1]} ELSE IF rawOut # <<>> THEN {rawOut[1]} ELSE {}
KidTypes == there \in Seq(Nat) /\ back \in Seq(Nat)
KidSingle == Len(there) + Len(back) <= 1
KidFlying ==
  IF there # <<>> THEN {there[1]} ELSE IF back # <<>> THEN {back[1]} ELSE {}

\* Two queues with one message between them.
LEMMA OneOfTwo == \A x, y \in Nat : x + y <= 1 /\ x >= 1 => x = 1 /\ y = 0
OBVIOUS

\* Four places with one message between them.
LEMMA OneOfFour ==
  \A w, x, y, z \in Nat : w + x + y + z <= 1 =>
    /\ w >= 1 => w = 1 /\ x = 0 /\ y = 0 /\ z = 0
    /\ x >= 1 => w = 0 /\ y = 0 /\ z = 0
    /\ y >= 1 => y = 1 /\ w = 0 /\ x = 0 /\ z = 0
    /\ z >= 1 => z = 1 /\ w = 0 /\ x = 0 /\ y = 0
OBVIOUS

\* If at most one message is under way, wherever it is all else is empty.
LEMMA OneMessage ==
  ASSUME LinkTypes, Single
  PROVE  /\ toServer # <<>> => /\ Len(toServer) = 1 /\ handling.stage = "idle"
                               /\ toClient = <<>> /\ arrived = <<>>
         /\ handling.stage # "idle" => toServer = <<>> /\ toClient = <<>> /\ arrived = <<>>
         /\ toClient # <<>> => /\ Len(toClient) = 1 /\ handling.stage = "idle"
                               /\ toServer = <<>> /\ arrived = <<>>
         /\ arrived # <<>> => /\ Len(arrived) = 1 /\ handling.stage = "idle"
                              /\ toServer = <<>> /\ toClient = <<>>
<1>1. /\ toServer \in Seq(Msg) /\ toClient \in Seq(Nat) /\ arrived \in Seq(Nat)
  BY DEF LinkTypes, ThereTypes, BackTypes
<1>2. /\ Len(toServer) \in Nat /\ (toServer # <<>> => Len(toServer) >= 1)
      /\ Len(toClient) \in Nat /\ (toClient # <<>> => Len(toClient) >= 1)
      /\ Len(arrived) \in Nat /\ (arrived # <<>> => Len(arrived) >= 1)
  BY <1>1
<1>3. Len(toServer) + Busy + Len(toClient) + Len(arrived) <= 1
  BY DEF Single
<1>4. /\ Busy \in Nat /\ (handling.stage # "idle" => Busy >= 1)
      /\ Busy = 0 => handling.stage = "idle"
  BY DEF Busy
<1>5. /\ Len(toServer) >= 1 =>
           Len(toServer) = 1 /\ Busy = 0 /\ Len(toClient) = 0 /\ Len(arrived) = 0
      /\ Busy >= 1 => Len(toServer) = 0 /\ Len(toClient) = 0 /\ Len(arrived) = 0
      /\ Len(toClient) >= 1 =>
           Len(toClient) = 1 /\ Len(toServer) = 0 /\ Busy = 0 /\ Len(arrived) = 0
      /\ Len(arrived) >= 1 =>
           Len(arrived) = 1 /\ Len(toServer) = 0 /\ Busy = 0 /\ Len(toClient) = 0
  BY <1>2, <1>3, <1>4, OneOfFour, Zenon
<1>6. /\ Len(toServer) = 0 => toServer = <<>>
      /\ Len(toClient) = 0 => toClient = <<>>
      /\ Len(arrived) = 0 => arrived = <<>>
  BY <1>1
<1> QED BY <1>2, <1>4, <1>5, <1>6, Zenon

\* A step that touches none of the four places.
LEMMA UntouchedFlight ==
  ASSUME UNCHANGED <<toServer, handling, toClient, arrived>>
  PROVE  (Single' <=> Single) /\ Flying' = Flying
BY DEF Single, Flying, Busy

\* The server, the link and the reply node carry one message to one reply with
\* its number, or lose it.
LEMMA LinkFlight ==
  ASSUME LinkTypes, Single, LinkMoves \/ (ProcessGone /\ UNCHANGED arrived)
  PROVE  Single' /\ Flying' \subseteq Flying
<1>1. /\ toServer \in Seq(Msg) /\ toClient \in Seq(Nat) /\ arrived \in Seq(Nat)
  BY DEF LinkTypes, ThereTypes, BackTypes
<1>2. CASE UNCHANGED <<toServer, handling, toClient, arrived>>
  BY <1>2, UntouchedFlight
<1>3. CASE ProcessGone /\ UNCHANGED arrived
  <2>1. /\ toServer' = <<>> /\ Len(toServer') = 0 /\ handling'.stage = "idle"
        /\ toClient' \in Seq(Nat) /\ Len(toClient') <= Len(toClient)
        /\ \A i \in 1 .. Len(toClient') : toClient'[i] = toClient[i]
        /\ arrived' = arrived
    BY <1>3, GoneFacts
  <2>2. Len(toServer) \in Nat /\ Len(toClient) \in Nat /\ Len(arrived) \in Nat /\ Len(toClient') \in Nat
    BY <1>1, <2>1
  <2>3. Single'
    BY <2>1, <2>2 DEF Single, Busy
  <2>4. CASE toClient' # <<>>
    <3>1. Len(toClient') >= 1
      BY <2>1, <2>4
    <3>2. toClient # <<>> /\ toClient'[1] = toClient[1]
      <4>1. Len(toClient) # 0 /\ toClient'[1] = toClient[1]
        BY <2>1, <2>2, <3>1
      <4> QED BY <4>1
    <3>3. Flying = {toClient[1]}
      BY <3>2, OneMessage DEF Flying
    <3>4. Flying' = {toClient'[1]}
      BY <2>1, <2>4 DEF Flying
    <3> QED BY <2>3, <3>2, <3>3, <3>4
  <2>5. CASE toClient' = <<>> /\ arrived # <<>>
    <3>1. Flying = {arrived[1]}
      BY <2>5, OneMessage DEF Flying
    <3>2. Flying' = {arrived[1]}
      BY <2>1, <2>5 DEF Flying
    <3> QED BY <2>3, <3>1, <3>2
  <2>6. CASE toClient' = <<>> /\ arrived = <<>>
    <3>1. Flying' = {}
      BY <2>1, <2>6 DEF Flying
    <3> QED BY <2>3, <3>1
  <2> QED BY <2>4, <2>5, <2>6
<1>4. CASE ServerTakes
  <2>1. /\ toServer # <<>> /\ handling'.stage = "took" /\ handling'.msg = toServer[1]
        /\ Len(toServer') = Len(toServer) - 1 /\ toServer' \in Seq(Msg)
        /\ UNCHANGED <<toClient, arrived>>
    BY <1>4, TakesFacts
  <2>2. Len(toServer) = 1 /\ toClient = <<>> /\ arrived = <<>> /\ Len(toServer') = 0
    <3>1. Len(toServer) = 1 /\ toClient = <<>> /\ arrived = <<>>
      BY <2>1, OneMessage
    <3> QED BY <2>1, <3>1
  <2>3. toServer' = <<>>
    BY <2>1, <2>2
  <2>4. Single'
    BY <2>1, <2>2 DEF Single, Busy
  <2>5. Flying = {toServer[1].seq} /\ Flying' = {toServer[1].seq}
    BY <2>1, <2>3 DEF Flying
  <2> QED BY <2>4, <2>5
<1>5. CASE FindsReply
  <2>1. /\ handling.stage = "took" /\ handling'.stage \in {"idle", "reply"}
        /\ handling'.stage = "reply" => handling'.msg = handling.msg
        /\ UNCHANGED <<toServer, toClient, arrived>>
    BY <1>5, FindsFacts
  <2>2. toServer = <<>> /\ toClient = <<>> /\ arrived = <<>>
    BY <2>1, OneMessage
  <2>3. Single'
    BY <2>1, <2>2 DEF Single, Busy
  <2>4. Flying = {handling.msg.seq}
    BY <2>1, <2>2 DEF Flying
  <2>5. Flying' \subseteq {handling.msg.seq}
    BY <2>1, <2>2 DEF Flying
  <2> QED BY <2>3, <2>4, <2>5
<1>6. CASE Replies
  <2>1. /\ handling.stage = "reply" /\ handling'.stage = "idle" /\ toServer' = toServer
        /\ Len(toClient') = Len(toClient) + 1
        /\ toClient'[Len(toClient) + 1] = handling.msg.seq
        /\ arrived' = arrived
    BY <1>6, RepliesFacts DEF Replies
  <2>2. toServer = <<>> /\ toClient = <<>> /\ arrived = <<>> /\ Len(toClient) = 0
    BY <2>1, OneMessage
  <2>3. Len(toClient') = 1 /\ toClient' # <<>> /\ toClient'[1] = handling.msg.seq
    BY <2>1, <2>2
  <2>4. Single'
    BY <2>1, <2>2, <2>3 DEF Single, Busy
  <2>5. Flying = {handling.msg.seq} /\ Flying' = {handling.msg.seq}
    BY <2>1, <2>2, <2>3 DEF Flying
  <2> QED BY <2>4, <2>5
<1>7. CASE ReplyArrives
  <2>1. /\ toClient # <<>> /\ arrived' = Append(arrived, Head(toClient))
        /\ toClient' = Tail(toClient) /\ UNCHANGED <<toServer, handling>>
    BY <1>7 DEF ReplyArrives
  <2>2. /\ Len(toClient) = 1 /\ handling.stage = "idle" /\ toServer = <<>> /\ arrived = <<>>
    BY <2>1, OneMessage
  <2>3. /\ toClient' = <<>> /\ Len(toClient') = 0
        /\ Len(arrived') = 1 /\ arrived' # <<>> /\ arrived'[1] = toClient[1]
    BY <1>1, <2>1, <2>2
  <2>4. Single'
    BY <2>1, <2>2, <2>3 DEF Single, Busy
  <2>5. Flying = {toClient[1]} /\ Flying' = {toClient[1]}
    BY <2>1, <2>2, <2>3 DEF Flying
  <2> QED BY <2>4, <2>5
<1> QED
  BY <1>2, <1>3, <1>4, <1>5, <1>6, <1>7
     DEF LinkMoves, ServerBinds, RawBinds, RawEcho, ServerQuits, ServerDies

\* A message sent into silence is the only one.
LEMMA SendFlight ==
  ASSUME LinkTypes, Single, Flying = {}, NEW m \in Msg, Sends(m), UNCHANGED arrived
  PROVE  Single' /\ Flying' = {m.seq}
<1>1. /\ toServer \in Seq(Msg) /\ toClient \in Seq(Nat) /\ arrived \in Seq(Nat)
  BY DEF LinkTypes, ThereTypes, BackTypes
<1>2. toServer = <<>> /\ handling.stage = "idle" /\ toClient = <<>> /\ arrived = <<>>
  BY DEF Flying
<1>3. /\ Len(toServer') = Len(toServer) + 1 /\ toServer'[Len(toServer) + 1] = m
      /\ UNCHANGED <<handling, toClient>>
  BY SendsFacts
<1>4. Len(toServer) = 0 /\ Len(toClient) = 0 /\ Len(arrived) = 0
  BY <1>2
<1>5. Len(toServer') = 1 /\ toServer' # <<>> /\ toServer'[1] = m
  BY <1>3, <1>4
<1> QED BY <1>2, <1>3, <1>4, <1>5 DEF Single, Busy, Flying

\* The reply that is taken is the message's own, and then there is silence.
LEMMA TakeFlight ==
  ASSUME LinkTypes, Single, Takes
  PROVE  Flying = {Head(arrived)} /\ Single' /\ Flying' = {}
<1>1. arrived \in Seq(Nat) /\ arrived # <<>> /\ arrived' = Tail(arrived) /\ UNCHANGED link
  BY DEF Takes, LinkTypes, BackTypes
<1>2. Len(arrived) = 1 /\ handling.stage = "idle" /\ toServer = <<>> /\ toClient = <<>>
  BY <1>1, OneMessage
<1>3. arrived' = <<>> /\ Len(arrived') = 0 /\ Head(arrived) = arrived[1]
  BY <1>1, <1>2
<1>4. handling'.stage = "idle" /\ toServer' = <<>> /\ toClient' = <<>>
      /\ Len(toServer') = 0 /\ Len(toClient') = 0
  BY <1>1, <1>2 DEF link
<1>5. Flying = {Head(arrived)}
  BY <1>1, <1>2, <1>3 DEF Flying
<1>6. Single' /\ Flying' = {}
  BY <1>3, <1>4 DEF Single, Busy, Flying
<1> QED BY <1>5, <1>6

\* Draining rx, after a reply or not.
LEMMA DrainFlight ==
  ASSUME LinkTypes, Single, Drains, UNCHANGED link
  PROVE  /\ Single' /\ Flying' \subseteq Flying
         /\ arrived # <<>> => Flying' = {}
<1>1. arrived \in Seq(Nat) /\ arrived' = <<>> /\ Len(arrived') = 0
  BY DEF Drains, LinkTypes, BackTypes
<1>2. UNCHANGED <<toServer, handling, toClient>>
  BY DEF link
<1>3. Len(toServer) \in Nat /\ Len(toClient) \in Nat /\ Len(arrived) \in Nat
  BY <1>1 DEF LinkTypes, ThereTypes, BackTypes
<1>4. Single'
  BY <1>1, <1>2, <1>3 DEF Single, Busy
<1>5. Flying' \subseteq Flying
  BY <1>1, <1>2 DEF Flying
<1>6. arrived # <<>> => Flying' = {}
  BY <1>1, <1>2, OneMessage DEF Flying
<1> QED BY <1>4, <1>5, <1>6

\* A step that leaves the raw connection alone.
LEMMA RawUntouched ==
  ASSUME UNCHANGED <<rawIn, rawOut>>
  PROVE  (RawSingle' <=> RawSingle) /\ RawFlying' = RawFlying
BY DEF RawSingle, RawFlying

\* The raw listener echoes the one message it has, or it is lost.
LEMMA RawFlight ==
  ASSUME LinkTypes, RawSingle, LinkMoves \/ ProcessGone
  PROVE  RawSingle' /\ RawFlying' \subseteq RawFlying
<1>1. rawIn \in Seq(Nat) /\ rawOut \in Seq(Nat)
  BY DEF LinkTypes, RawTypes
<1>2. CASE UNCHANGED <<rawIn, rawOut>>
  BY <1>2, RawUntouched
<1>3. CASE ProcessGone
  <2>1. rawIn' = <<>> /\ Len(rawIn') = 0 /\ rawOut' = rawOut
    BY <1>3 DEF ProcessGone
  <2>2. RawSingle'
    BY <1>1, <2>1 DEF RawSingle
  <2>3. rawOut # <<>> => rawIn = <<>>
    BY <1>1 DEF RawSingle
  <2> QED BY <2>1, <2>2, <2>3 DEF RawFlying
<1>4. CASE RawEcho
  <2>1. rawIn # <<>> /\ rawOut' = Append(rawOut, Head(rawIn)) /\ rawIn' = Tail(rawIn)
    BY <1>4 DEF RawEcho
  <2>2. Len(rawIn) = 1 /\ Len(rawOut) = 0
    <3>1. Len(rawIn) \in Nat /\ Len(rawIn) >= 1 /\ Len(rawOut) \in Nat
      BY <1>1, <2>1
    <3>2. Len(rawIn) + Len(rawOut) <= 1
      BY DEF RawSingle
    <3> QED BY <3>1, <3>2, OneOfTwo, Zenon
  <2>3. /\ rawIn' = <<>> /\ Len(rawIn') = 0 /\ rawOut' # <<>> /\ Len(rawOut') = 1
        /\ rawOut'[1] = rawIn[1]
    BY <1>1, <2>1, <2>2
  <2> QED BY <2>1, <2>3 DEF RawSingle, RawFlying
<1> QED
  BY <1>2, <1>3, <1>4
     DEF LinkMoves, ServerBinds, RawBinds, ServerTakes, FindsReply, Replies, ServerQuits, ServerDies,
         ReplyArrives

\* A message sent into silence on the raw socket.
LEMMA RawSendFlight ==
  ASSUME LinkTypes, RawSingle, RawFlying = {}, NEW m \in Msg, RawSends(m)
  PROVE  RawSingle' /\ RawFlying' = {m.seq}
<1>1. rawIn = <<>> /\ rawOut = <<>> /\ rawIn' = Append(rawIn, m.seq) /\ rawOut' = rawOut
  BY DEF RawFlying, RawSends
<1>2. Len(rawIn') = 1 /\ rawIn' # <<>> /\ rawIn'[1] = m.seq /\ Len(rawOut') = 0
  BY <1>1
<1> QED BY <1>2 DEF RawSingle, RawFlying

\* And its echo.
LEMMA RawTakeFlight ==
  ASSUME LinkTypes, RawSingle, RawTakes
  PROVE  RawFlying = {Head(rawOut)} /\ RawSingle' /\ RawFlying' = {}
<1>1. /\ rawIn \in Seq(Nat) /\ rawOut \in Seq(Nat)
      /\ rawOut # <<>> /\ rawOut' = Tail(rawOut) /\ rawIn' = rawIn
  BY DEF LinkTypes, RawTypes, RawTakes
<1>2. Len(rawOut) = 1 /\ Len(rawIn) = 0 /\ rawIn = <<>>
  <2>1. Len(rawOut) \in Nat /\ Len(rawOut) >= 1 /\ Len(rawIn) \in Nat
    BY <1>1
  <2>2. Len(rawIn) + Len(rawOut) <= 1
    BY DEF RawSingle
  <2>3. Len(rawOut) + Len(rawIn) <= 1
    BY <2>1, <2>2
  <2>4. Len(rawOut) = 1 /\ Len(rawIn) = 0
    BY <2>1, <2>3, OneOfTwo, Zenon
  <2> QED BY <1>1, <2>4
<1>3. rawOut' = <<>> /\ Len(rawOut') = 0 /\ Len(rawIn') = 0 /\ Head(rawOut) = rawOut[1]
  BY <1>1, <1>2
<1> QED BY <1>1, <1>2, <1>3 DEF RawSingle, RawFlying

\* The forked child of fdcost.rs does the same on the socketpair.
LEMMA KidFlight ==
  ASSUME KidTypes, KidSingle, KidStep
  PROVE  KidTypes' /\ KidSingle' /\ KidFlying' \subseteq KidFlying
<1>1. CASE UNCHANGED <<there, back>>
  BY <1>1 DEF KidTypes, KidSingle, KidFlying
<1>2. CASE KidEchoes
  <2>1. /\ there \in Seq(Nat) /\ back \in Seq(Nat) /\ there # <<>>
        /\ back' = Append(back, Head(there)) /\ there' = Tail(there)
    BY <1>2 DEF KidEchoes, KidTypes
  <2>2. Len(there) \in Nat /\ Len(there) >= 1 /\ Len(back) \in Nat
    BY <2>1
  <2>3. Len(there) + Len(back) <= 1
    BY DEF KidSingle
  <2>4. Len(there) = 1 /\ Len(back) = 0
    BY <2>2, <2>3, OneOfTwo, Zenon
  <2>5. /\ there' = <<>> /\ Len(there') = 0 /\ back' # <<>> /\ Len(back') = 1
        /\ back'[1] = there[1] /\ there' \in Seq(Nat) /\ back' \in Seq(Nat)
    BY <2>1, <2>4
  <2> QED BY <2>1, <2>5 DEF KidTypes, KidSingle, KidFlying
<1> QED BY <1>1, <1>2 DEF KidStep, KidCloses, KidExits

\* The parent writes to the socketpair.
LEMMA XchgFlight ==
  ASSUME Placed, KidTypes, KidSingle, KidFlying = {}, Xchg
  PROVE  KidTypes' /\ KidSingle' /\ KidFlying' = {seq}
<1>1. /\ there = <<>> /\ back = <<>> /\ there' = Append(there, seq) /\ back' = back /\ seq \in Nat
  BY DEF KidFlying, Xchg, Placed
<1>2. Len(there') = 1 /\ there' # <<>> /\ there'[1] = seq /\ Len(back') = 0 /\ there' \in Seq(Nat)
  BY <1>1
<1> QED BY <1>1, <1>2 DEF KidTypes, KidSingle, KidFlying

\* And reads its echo.
LEMMA XchgReturnFlight ==
  ASSUME KidTypes, KidSingle, XchgReturns
  PROVE  KidTypes' /\ KidFlying = {Head(back)} /\ KidSingle' /\ KidFlying' = {}
<1>1. /\ there \in Seq(Nat) /\ back \in Seq(Nat) /\ back # <<>> /\ back' = Tail(back) /\ there' = there
  BY DEF KidTypes, XchgReturns
<1>2. Len(back) \in Nat /\ Len(back) >= 1 /\ Len(there) \in Nat
  BY <1>1
<1>3. Len(back) + Len(there) <= 1
  BY <1>2 DEF KidSingle
<1>4. Len(back) = 1 /\ Len(there) = 0
  BY <1>2, <1>3, OneOfTwo, Zenon
<1>5. /\ there = <<>> /\ back' = <<>> /\ Len(back') = 0 /\ Len(there') = 0 /\ Head(back) = back[1]
      /\ back' \in Seq(Nat)
  BY <1>1, <1>4
<1> QED BY <1>1, <1>5 DEF KidTypes, KidSingle, KidFlying

-----------------------------------------------------------------------------
\* Every sample is a round trip with its own reply, which only a wait that
\* timed out can spoil.
Own ==
  (prog.name = "paced" /\ prog.sequential /\ gaveUp) \/ \A s \in samples : s[1] = s[2]

\* paced --sequential, on either socket.
One == IF prog.raw THEN RawSingle ELSE Single
OnWay == IF prog.raw THEN RawFlying ELSE Flying
FrameCalm ==
  prog.name = "paced" /\ prog.sequential /\ ~gaveUp =>
    /\ pc \in {"connect", "rawconnect", "warm", "frame", "send", "endframe"} => One /\ OnWay = {}
    /\ pc = "warmreply" => One /\ OnWay \subseteq {seq}
    /\ pc = "await" => One /\ OnWay \subseteq {seq - 1}
    /\ pc \notin {"collect", "stamp", "timed"}

\* bench leaves replies behind after its floods and probes only, and its
\* quiesce waits until they are gone.
Rested == phase = 0 \/ Phases[phase].what \notin {"flood", "probe"}
BenchCalm ==
  IsBench =>
    /\ RawSingle /\ (IF pc = "baserecv" THEN RawFlying \subseteq {seq - 1} ELSE RawFlying = {})
    /\ pc \in {"connect", "rawconnect", "base", "baserecv", "latency", "flood", "probe"}
         \/ (pc = "next" /\ Rested) => Single /\ Flying = {}
    /\ pc \in {"latencyrecv", "prime", "probed"} => Single /\ Flying \subseteq {seq - 1}

\* fdcost has one message under way, on one of its three links.
CostCalm ==
  IsCost =>
    /\ KidTypes /\ KidSingle
    /\ IF pc = "xchgrecv" THEN KidFlying \subseteq {seq - 1} ELSE KidFlying = {}
    /\ RawSingle
    /\ IF pc = "rungrecv" /\ Op = "raw" THEN RawFlying \subseteq {seq - 1} ELSE RawFlying = {}
    /\ pc \notin LeavePoints =>
         /\ Single
         /\ IF pc = "rungrecv" /\ Op # "raw" THEN Flying \subseteq {seq - 1} ELSE Flying = {}
BoundCalm ==
  prog.name = "bound" =>
    /\ pc \in {"connect", "bound"} => Single /\ Flying = {}
    /\ pc = "boundwait" => Single /\ Flying \subseteq {seq}
Calm == FrameCalm /\ BenchCalm /\ CostCalm /\ BoundCalm

\* push into silence, on either socket.
LEMMA PushFlight ==
  ASSUME Placed, LinkTypes, One, OnWay = {}, NEW caps \in Nat, PushOk(caps), UNCHANGED <<arrived, prog>>
  PROVE  One' /\ OnWay' = {seq}
<1>1. /\ Message(seq, 0, "echo") \in Msg /\ Message(seq, caps, "echo") \in Msg
      /\ Message(seq, 0, "echo").seq = seq /\ Message(seq, caps, "echo").seq = seq
  BY MessageFacts DEF Placed, Ops
<1>2. CASE prog.raw
  <2>1. RawSends(Message(seq, 0, "echo")) /\ RawSingle /\ RawFlying = {}
    BY <1>2 DEF PushOk, One, OnWay
  <2> QED BY <1>1, <1>2, <2>1, RawSendFlight DEF One, OnWay
<1>3. CASE ~prog.raw
  <2>1. Sends(Message(seq, caps, "echo")) /\ Single /\ Flying = {}
    BY <1>3 DEF PushOk, One, OnWay
  <2> QED BY <1>1, <1>3, <2>1, SendFlight DEF One, OnWay
<1> QED BY <1>2, <1>3

\* recv_reply on either socket, when there is a reply.
LEMMA ReplyFlight ==
  ASSUME LinkTypes, One, AReply, UNCHANGED prog
  PROVE  OnWay = {Head(Pending)} /\ One' /\ OnWay' = {} /\ gaveUp' = gaveUp
<1>1. CASE prog.raw
  BY <1>1, RawTakeFlight DEF AReply, Pending, One, OnWay
<1>2. CASE ~prog.raw
  BY <1>2, TakeFlight DEF AReply, Pending, One, OnWay
<1> QED BY <1>1, <1>2 DEF AReply

\* Nothing happens to the link.
LEMMA SameFlight ==
  ASSUME UNCHANGED <<link, arrived>>
  PROVE  /\ (Single' <=> Single) /\ Flying' = Flying
         /\ (RawSingle' <=> RawSingle) /\ RawFlying' = RawFlying
BY UntouchedFlight, RawUntouched DEF link

\* paced --sequential sends when nothing is under way, so what it receives is the
\* reply to what it sent, until a wait times out; the others look at the number.
LEMMA FrameKeepsCalm ==
  ASSUME Placed, LinkTypes, FrameCalm, Own, FrameNext
  PROVE  FrameCalm' /\ Own'
<1>1. /\ FrameStep /\ IsFrames /\ prog' = prog /\ seq \in Nat
      /\ pc = "await" => prog.name = "paced" /\ prog.sequential
  BY FrameGoes DEF FrameNext, Placed, FramePlaces
<1> DEFINE Plain == FrameConnects \/ WarmSends \/ WarmReplies \/ WarmEnds \/ FrameBegins
                      \/ FrameSends \/ FrameSent \/ PipelineEnds \/ FrameEnds \/ Stamps \/ FrameQuits
<1> HIDE DEF Plain
<1>2. (gaveUp => gaveUp') /\ (Plain => samples' = samples)
  <2>1. CASE Plain
    <3>1. CASE FrameQuits
      <4>1. PICK caps, tries : Quits(caps, tries)
        BY <1>1, <3>1 DEF FrameQuits
      <4> QED BY <3>1, <4>1 DEF FrameQuits, Quits, frameVars
    <3>2. CASE WarmReplies
      BY <3>2 DEF WarmReplies, AReply, NoReply
    <3>3. CASE FrameConnects
      BY <3>3 DEF FrameConnects, Connects, RawConnects, frameVars
    <3>4. CASE WarmSends \/ WarmEnds \/ FrameBegins
      BY <3>4 DEF WarmSends, WarmEnds, FrameBegins, frameVars
    <3>6. CASE FrameSends
      <4>1. UNCHANGED <<gaveUp, samples>>
        BY <3>6 DEF FrameSends
      <4> QED BY <4>1
    <3>5. CASE FrameSent \/ PipelineEnds \/ FrameEnds
      BY <3>5 DEF FrameSent, PipelineEnds, FrameEnds, frameVars
    <3>7. CASE Stamps
      BY <3>7 DEF Stamps
    <3> QED BY <2>1, <3>1, <3>2, <3>3, <3>4, <3>5, <3>6, <3>7 DEF Plain
  <2>2. CASE ~Plain
    <3>1. SequentialReplies \/ PipelinedReplies \/ TimelineReplies
      BY <1>1, <2>2 DEF FrameStep, Plain
    <3>2. AReply \/ NoReply
      BY <3>1 DEF SequentialReplies, PipelinedReplies, TimelineReplies
    <3> QED BY <2>2, <3>2 DEF AReply, NoReply
  <2> QED BY <2>1, <2>2
<1>3. Own'
  <2>1. CASE samples' = samples
    BY <1>1, <1>2, <2>1 DEF Own
  <2>2. CASE SequentialReplies /\ samples' # samples
    <3>1. /\ pc = "await" /\ AReply /\ samples' = samples \cup {<<seq - 1, Head(Pending)>>}
      BY <2>2 DEF SequentialReplies
    <3>2. CASE gaveUp
      BY <1>1, <1>2, <3>1, <3>2 DEF Own
    <3>3. CASE ~gaveUp
      <4>1. One /\ OnWay \subseteq {seq - 1}
        BY <1>1, <3>1, <3>3 DEF FrameCalm
      <4>2. OnWay = {Head(Pending)}
        BY <1>1, <3>1, <4>1, ReplyFlight
      <4>3. Head(Pending) = seq - 1 /\ \A s \in samples : s[1] = s[2]
        BY <3>3, <4>1, <4>2 DEF Own
      <4> QED BY <3>1, <4>3 DEF Own
    <3> QED BY <3>2, <3>3
  <2>3. CASE PipelinedReplies
    <3>1. \A s \in samples' : s \in samples \/ s[1] = s[2]
      BY <2>3 DEF PipelinedReplies
    <3> QED BY <1>1, <1>2, <3>1 DEF Own
  <2>4. CASE TimelineReplies
    <3>1. \A s \in samples' : s \in samples \/ s[1] = s[2]
      BY <2>4 DEF TimelineReplies
    <3> QED BY <1>1, <1>2, <3>1 DEF Own
  <2> QED BY <1>1, <1>2, <2>1, <2>2, <2>3, <2>4 DEF FrameStep, Plain
<1>4. FrameCalm'
  <2> DEFINE Free(p) == p \in {"connect", "rawconnect", "warm", "frame", "send", "endframe"}
  <2> SUFFICES ASSUME prog.name = "paced", prog.sequential, ~gaveUp'
               PROVE  /\ Free(pc') => One' /\ OnWay' = {}
                      /\ pc' = "warmreply" => One' /\ OnWay' \subseteq {seq'}
                      /\ pc' = "await" => One' /\ OnWay' \subseteq {seq' - 1}
                      /\ pc' \notin {"collect", "stamp", "timed"}
    BY <1>1 DEF FrameCalm
  <2>1. /\ Free(pc) => One /\ OnWay = {}
        /\ pc = "warmreply" => One /\ OnWay \subseteq {seq}
        /\ pc = "await" => One /\ OnWay \subseteq {seq - 1}
        /\ pc \notin {"collect", "stamp", "timed"} /\ InOrder
    BY <1>2 DEF FrameCalm, InOrder
  <2>2. UNCHANGED <<link, arrived>> => (One' <=> One) /\ OnWay' = OnWay
    BY <1>1, SameFlight DEF One, OnWay
  <2>3. CASE FrameConnects \/ FrameBegins \/ FrameSent \/ FrameEnds
    BY <2>1, <2>2, <2>3 DEF FrameConnects, Connects, RawConnects, FrameBegins, FrameSent, FrameEnds
  <2>4. CASE WarmSends
    <3>1. /\ pc = "warm" /\ pc' = "warmreply" /\ seq' = seq /\ arrived' = arrived
          /\ PushOk(WarmCaps) \/ SendFails
      BY <2>4 DEF WarmSends
    <3>2. WarmCaps \in Nat
      BY DEF WarmCaps, Larger, Placed, Program
    <3>3. CASE PushOk(WarmCaps)
      BY <1>1, <2>1, <3>1, <3>2, <3>3, PushFlight
    <3>4. CASE SendFails
      BY <2>1, <2>2, <3>1, <3>4 DEF SendFails
    <3> QED BY <3>1, <3>3, <3>4
  <2>5. CASE WarmReplies
    <3>1. pc = "warmreply" /\ pc' = "warm" /\ AReply
      BY <2>5 DEF WarmReplies, NoReply
    <3> QED BY <1>1, <2>1, <3>1, ReplyFlight
  <2>6. CASE WarmEnds
    <3>1. pc = "warm" /\ pc' = "frame" /\ Drains /\ UNCHANGED link
      BY <2>6 DEF WarmEnds
    <3>2. One' /\ OnWay' = {}
      <4>1. CASE prog.raw
        BY <1>1, <2>1, <3>1, <4>1, RawUntouched DEF One, OnWay, link
      <4>2. CASE ~prog.raw
        BY <1>1, <2>1, <3>1, <4>2, DrainFlight DEF One, OnWay
      <4> QED BY <4>1, <4>2
    <3> QED BY <3>1, <3>2
  <2>7. CASE FrameSends
    <3>1. pc = "send" /\ arrived' = arrived
      BY <2>7 DEF FrameSends
    <3>2. CASE PushOk(prog.caps) /\ seq' = seq + 1 /\ pc' = "await"
      <4>1. prog.caps \in Nat
        BY DEF Placed, Program
      <4> QED BY <1>1, <2>1, <3>1, <3>2, <4>1, PushFlight
    <3>3. CASE SendFails /\ pc' = "endframe"
      BY <2>1, <2>2, <3>1, <3>3 DEF SendFails
    <3>4. \/ PushOk(prog.caps) /\ seq' = seq + 1 /\ pc' = "await"
          \/ SendFails /\ pc' = "endframe"
      BY <2>1, <2>7 DEF FrameSends
    <3> QED BY <3>2, <3>3, <3>4
  <2>8. CASE SequentialReplies
    <3>1. pc = "await" /\ pc' = "send" /\ AReply
      BY <2>8 DEF SequentialReplies, NoReply
    <3> QED BY <1>1, <2>1, <3>1, ReplyFlight
  <2>9. CASE PipelinedReplies \/ PipelineEnds \/ Stamps \/ TimelineReplies
    BY <2>1, <2>9 DEF PipelinedReplies, PipelineEnds, Stamps, TimelineReplies
  <2>10. CASE FrameQuits
    <3>1. pc' = "killing"
      BY <2>10 DEF FrameQuits, Quits
    <3> QED BY <3>1
  <2> QED BY <1>1, <2>3, <2>4, <2>5, <2>6, <2>7, <2>8, <2>9, <2>10 DEF FrameStep
<1> QED BY <1>3, <1>4

\* Client::send of bench.rs into silence.
LEMMA MailFlight ==
  ASSUME Placed, LinkTypes, Single, Flying = {}, UNCHANGED arrived,
         (\E caps \in Nat : ClientSends(caps)) \/ ClientFails
  PROVE  /\ Single' /\ UNCHANGED <<rawIn, rawOut>> /\ Flying' \subseteq {seq' - 1}
         /\ ClientFails => Flying' = {}
<1>1. CASE ClientFails
  BY <1>1, SameFlight DEF ClientFails, SendFails, link
<1>2. CASE ~ClientFails
  <2>1. PICK caps \in Nat : ClientSends(caps)
    BY <1>2
  <2>2. Message(seq, caps, "echo") \in Msg /\ Message(seq, caps, "echo").seq = seq
    BY MessageFacts DEF Placed, Ops
  <2>3. Sends(Message(seq, caps, "echo")) /\ seq' = seq + 1
    BY <2>1 DEF ClientSends
  <2>4. Single' /\ Flying' = {seq}
    BY <2>2, <2>3, SendFlight
  <2> QED BY <1>2, <2>3, <2>4 DEF Sends, Placed
<1> QED BY <1>1, <1>2

\* bench.rs: a phase that times round trips starts in silence, because quiesce
\* comes after every phase that leaves replies behind.
LEMMA BenchKeepsCalm ==
  ASSUME Placed, LinkTypes, BenchCalm, Own, BenchNext
  PROVE  BenchCalm' /\ Own'
<1> DEFINE RawPart == /\ RawSingle
                      /\ IF pc = "baserecv" THEN RawFlying \subseteq {seq - 1} ELSE RawFlying = {}
           Quiet(p) == p \in {"connect", "rawconnect", "base", "baserecv", "latency", "flood", "probe"}
           Timed(p) == p \in {"latencyrecv", "prime", "probed"}
<1>1. /\ BenchStep /\ IsBench /\ prog' = prog /\ seq \in Nat /\ Phases' = Phases
  BY BenchGoes DEF BenchNext, Placed, Phases
<1>2. /\ RawPart
      /\ Quiet(pc) \/ (pc = "next" /\ Rested) => Single /\ Flying = {}
      /\ Timed(pc) => Single /\ Flying \subseteq {seq - 1}
  BY <1>1 DEF BenchCalm
<1>3. \A s \in samples : s[1] = s[2]
  BY <1>1 DEF Own, IsBench
<1>4. /\ pc \in PointsOf("flood") => ~Rested
      /\ pc \in PointsOf("probe") => ~Rested
      /\ pc \in ConnectPoints => phase = 0
  <2>1. pc \in BenchPoints => phase \in 1 .. Len(Phases) /\ pc \in PointsOf(Phases[phase].what)
                              /\ Phases[phase].what \in Whats
    BY PhaseFacts DEF Placed, BenchPlaces
  <2> QED BY <1>1, <2>1 DEF Rested, PointsOf, Whats, BenchPoints, Placed, BenchPlaces
<1>5. \A caps : ClientSends(caps) \/ ClientFails => UNCHANGED <<rawIn, rawOut>>
  BY DEF ClientSends, Sends, ClientFails, SendFails, link
<1>6. pc = "latency" \/ pc = "flood" \/ pc = "probe" =>
        /\ Caps \in Nat /\ AtLeastOne(Caps) \in Nat
  BY PhaseFacts DEF Placed, BenchPlaces, BenchPoints, Caps, AtLeastOne
<1>7. RawPart'
  <2>1. CASE BaseSends
    <3>1. pc = "base" /\ RawSingle /\ RawFlying = {}
      BY <1>2, <2>1 DEF BaseSends
    <3>2. CASE RawSends(Message(seq, 0, "echo")) /\ seq' = seq + 1 /\ pc' = "baserecv"
      <4>1. Message(seq, 0, "echo") \in Msg /\ Message(seq, 0, "echo").seq = seq
        BY <1>1, MessageFacts DEF Ops
      <4>2. RawSingle' /\ RawFlying' = {seq}
        BY <3>1, <3>2, <4>1, RawSendFlight
      <4> QED BY <1>1, <3>2, <4>2
    <3>3. CASE UNCHANGED link /\ pc' # "baserecv"
      BY <3>1, <3>3, RawUntouched DEF link
    <3> QED BY <2>1, <3>2, <3>3 DEF BaseSends, ClientFails, SendFails
  <2>2. CASE BaseRecvs
    <3>1. pc = "baserecv" /\ pc' # "baserecv" /\ RawSingle
      BY <1>2, <2>2 DEF BaseRecvs
    <3>2. CASE RawTakes
      BY <3>1, <3>2, RawTakeFlight
    <3>3. CASE RawEnds
      <4>1. rawOut = <<>> /\ rawIn = <<>> /\ UNCHANGED <<rawIn, rawOut>>
        BY <3>3 DEF RawEnds, link, LinkTypes, GoneIsEmpty
      <4> QED BY <3>1, <4>1 DEF RawSingle, RawFlying
    <3> QED BY <2>2, <3>2, <3>3 DEF BaseRecvs
  <2>3. CASE WatchTrips
    <3>1. pc # "baserecv" /\ pc' # "baserecv" /\ ProcessGone
      BY <2>3 DEF WatchTrips
    <3> QED BY <1>2, <3>1, RawFlight
  <2>4. CASE NextPhase
    <3>1. pc = "next" /\ UNCHANGED <<rawIn, rawOut>> /\ phase \in 0 .. Len(Phases)
      BY <1>1, <2>4 DEF NextPhase, link, Placed, BenchPlaces
    <3>2. pc' # "baserecv"
      <4>1. CASE phase = Len(Phases)
        BY <2>4, <4>1 DEF NextPhase
      <4>2. CASE phase # Len(Phases)
        <5>1. phase + 1 \in 1 .. Len(Phases)
          BY <3>1, <4>2, PhaseFacts
        <5> QED BY <2>4, <4>2, <5>1, PhaseFacts DEF NextPhase, Whats
      <4> QED BY <4>1, <4>2
    <3> QED BY <1>2, <3>1, <3>2, RawUntouched
  <2>5. CASE BenchConnects \/ BenchQuits
    <3>1. pc # "baserecv" /\ pc' # "baserecv" /\ UNCHANGED <<rawIn, rawOut>>
      BY <2>5 DEF BenchConnects, Connects, RawConnects, BenchQuits, Quits, Sends, SendFails, link
    <3> QED BY <1>2, <3>1, RawUntouched
  <2>6. CASE LatencySends \/ LatencyRecvs \/ FloodPrimes \/ FloodBegins \/ FloodSends \/ TailWaits
             \/ TailEnds \/ QuiesceAgain \/ QuiesceEnds \/ Probes \/ ProbeReplies
    <3>1. pc # "baserecv" /\ pc' # "baserecv" /\ UNCHANGED <<rawIn, rawOut>>
      BY <1>5, <2>6 DEF LatencySends, LatencyRecvs, FloodPrimes, FloodBegins, FloodSends, TailWaits,
         TailEnds, QuiesceAgain, QuiesceEnds, Probes, ProbeReplies, Takes, link
    <3> QED BY <1>2, <3>1, RawUntouched
  <2> QED BY <1>1, <2>1, <2>2, <2>3, <2>4, <2>5, <2>6 DEF BenchStep
<1>8. /\ Quiet(pc') \/ (pc' = "next" /\ Rested') => Single' /\ Flying' = {}
      /\ Timed(pc') => Single' /\ Flying' \subseteq {seq' - 1}
  <2>1. CASE BenchConnects
    <3>1. /\ pc \in ConnectPoints /\ pc' \in {"rawconnect", "next", "panic"}
          /\ UNCHANGED <<link, arrived>>
      BY <2>1 DEF BenchConnects, Connects, RawConnects, ConnectPoints
    <3> QED BY <1>2, <3>1, SameFlight DEF ConnectPoints
  <2>2. CASE NextPhase
    <3>1. /\ pc = "next" /\ phase \in 0 .. Len(Phases) /\ phase' = phase + 1
          /\ pc' = (IF phase = Len(Phases) THEN "quit" ELSE Phases[phase + 1].what)
          /\ UNCHANGED <<link, arrived>>
      BY <1>1, <2>2 DEF NextPhase, Placed, BenchPlaces
    <3>2. CASE Rested
      <4>1. Single' /\ Flying' = {} /\ Flying' \subseteq {seq' - 1}
        BY <1>2, <3>1, <3>2, SameFlight
      <4> QED BY <4>1
    <3>3. CASE ~Rested
      <4>1. phase \in 1 .. Len(Phases) /\ Phases[phase].what \in {"flood", "probe"}
        BY <3>1, <3>3, PhaseFacts DEF Rested
      <4>2. phase # Len(Phases) => phase \in 1 .. Len(Phases) - 1
        BY <4>1, PhaseFacts
      <4>3. pc' \in {"quit", "quiesce"}
        BY <3>1, <4>1, <4>2, PhaseFacts
      <4> QED BY <4>3
    <3> QED BY <3>2, <3>3
  <2>3. CASE BaseSends \/ BaseRecvs
    <3>1. /\ pc \in {"base", "baserecv"} /\ pc' \in {"next", "base", "baserecv", "panic"}
          /\ UNCHANGED <<toServer, handling, toClient, arrived>>
      BY <2>3 DEF BaseSends, BaseRecvs, RawSends, RawTakes, RawEnds, ClientFails, SendFails, link
    <3> QED BY <1>2, <3>1, UntouchedFlight
  <2>4. CASE LatencySends \/ FloodPrimes \/ Probes
    <3>1. Single /\ Flying = {} /\ arrived' = arrived /\ Caps \in Nat /\ AtLeastOne(Caps) \in Nat
      BY <1>2, <1>6, <2>4 DEF LatencySends, FloodPrimes, Probes
    <3>2. \/ UNCHANGED link /\ pc' = "next"
          \/ ClientFails /\ pc' \in {"next", "latencyrecv", "prime", "panic"}
          \/ /\ \E caps \in Nat : ClientSends(caps)
             /\ pc' \in {"latencyrecv", "prime", "probed"}
      BY <2>4, <3>1 DEF LatencySends, FloodPrimes, Probes
    <3>3. CASE UNCHANGED link /\ pc' = "next"
      BY <3>1, <3>3, SameFlight
    <3>4. CASE ClientFails /\ pc' \in {"next", "latencyrecv", "prime", "panic"}
      BY <3>1, <3>4, MailFlight
    <3>5. CASE /\ \E caps \in Nat : ClientSends(caps)
               /\ pc' \in {"latencyrecv", "prime", "probed"}
      BY <3>1, <3>5, MailFlight
    <3> QED BY <3>2, <3>3, <3>4, <3>5
  <2>5. CASE LatencyRecvs
    <3>1. Single /\ Takes /\ pc' = "latency"
      BY <1>2, <2>5 DEF LatencyRecvs
    <3> QED BY <3>1, TakeFlight
  <2>6. CASE FloodBegins \/ FloodSends \/ TailWaits \/ QuiesceAgain \/ WatchTrips \/ BenchQuits
    <3>1. pc' \in {"flooding", "tail", "quiesce", "aborted", "killing"}
      BY <2>6 DEF FloodBegins, FloodSends, TailWaits, QuiesceAgain, WatchTrips, BenchQuits, Quits
    <3> QED BY <3>1
  <2>7. CASE TailEnds
    <3>1. pc = "tail" /\ pc' = "next" /\ phase' = phase
      BY <2>7 DEF TailEnds, benchRest, benchVars
    <3>2. ~Rested'
      BY <1>1, <1>4, <3>1 DEF Rested, PointsOf
    <3> QED BY <3>1, <3>2
  <2>8. CASE QuiesceEnds
    <3>1. /\ pc' = "next" /\ UNCHANGED <<link, arrived>>
          /\ toServer = <<>> /\ handling.stage = "idle" /\ toClient = <<>> /\ arrived = <<>>
      BY <2>8 DEF QuiesceEnds, Silence
    <3>2. Single /\ Flying = {}
      <4>1. Len(toServer) = 0 /\ Len(toClient) = 0 /\ Len(arrived) = 0 /\ Busy = 0
        BY <3>1 DEF Busy
      <4> QED BY <3>1, <4>1 DEF Single, Flying
    <3> QED BY <3>1, <3>2, SameFlight
  <2>9. CASE ProbeReplies
    <3>1. pc = "probed" /\ pc' = "next" /\ phase' = phase
      BY <2>9 DEF ProbeReplies, benchRest, benchVars
    <3>2. ~Rested'
      BY <1>1, <1>4, <3>1 DEF Rested, PointsOf
    <3> QED BY <3>1, <3>2
  <2> QED BY <1>1, <2>1, <2>2, <2>3, <2>4, <2>5, <2>6, <2>7, <2>8, <2>9 DEF BenchStep
<1>9. Own'
  <2>1. CASE samples' = samples
    BY <1>3, <2>1 DEF Own
  <2>2. CASE BaseRecvs /\ samples' # samples
    <3>1. pc = "baserecv" /\ RawTakes /\ samples' = samples \cup {<<seq - 1, Head(rawOut)>>}
      BY <2>2 DEF BaseRecvs
    <3>2. Head(rawOut) = seq - 1
      BY <1>2, <3>1, RawTakeFlight
    <3> QED BY <1>3, <3>1, <3>2 DEF Own
  <2>3. CASE (LatencyRecvs \/ ProbeReplies) /\ samples' # samples
    <3>1. Timed(pc) /\ Takes /\ samples' = samples \cup {<<seq - 1, Head(arrived)>>}
      BY <2>3 DEF LatencyRecvs, ProbeReplies
    <3>2. Head(arrived) = seq - 1
      BY <1>2, <3>1, TakeFlight
    <3> QED BY <1>3, <3>1, <3>2 DEF Own
  <2>4. CASE BenchConnects \/ NextPhase \/ BaseSends \/ LatencySends \/ FloodPrimes \/ FloodBegins
             \/ FloodSends \/ TailWaits \/ TailEnds \/ QuiesceAgain \/ QuiesceEnds \/ Probes
             \/ WatchTrips \/ BenchQuits
    <3>1. samples' = samples
      BY <2>4 DEF BenchConnects, Connects, RawConnects, NextPhase, BaseSends, LatencySends, FloodPrimes,
         FloodBegins, FloodSends, TailWaits, TailEnds, QuiesceAgain, QuiesceEnds, Probes, WatchTrips,
         BenchQuits, Quits
    <3> QED BY <2>1, <3>1
  <2> QED BY <1>1, <2>1, <2>2, <2>3, <2>4 DEF BenchStep
<1> QED BY <1>1, <1>7, <1>8, <1>9 DEF BenchCalm

\* fdcost.rs: one message at a time on each of its links.
LEMMA CostKeepsCalm ==
  ASSUME Placed, LinkTypes, CostCalm, Own, CostNext
  PROVE  CostCalm' /\ Own'
<1> DEFINE KidPart == /\ KidTypes /\ KidSingle
                      /\ IF pc = "xchgrecv" THEN KidFlying \subseteq {seq - 1} ELSE KidFlying = {}
           RawPart == /\ RawSingle
                      /\ IF pc = "rungrecv" /\ Op = "raw"
                         THEN RawFlying \subseteq {seq - 1} ELSE RawFlying = {}
           LinkPart == pc \notin LeavePoints =>
                         /\ Single
                         /\ IF pc = "rungrecv" /\ Op # "raw"
                            THEN Flying \subseteq {seq - 1} ELSE Flying = {}
           Kid == Xchg \/ XchgReturns
           Forks == Fork \/ ParentCloses \/ ParentDone \/ Waitpid
           Rest == NextRung \/ CostConnects \/ RungEnds
<1>1. /\ CostStep /\ IsCost /\ prog' = prog /\ seq \in Nat
  BY CostGoes DEF CostNext, Placed
<1>2. KidPart /\ RawPart /\ LinkPart
  BY <1>1 DEF CostCalm
<1>3. \A s \in samples : s[1] = s[2]
  BY <1>1 DEF Own, IsCost
<1>4. Rest => /\ pc \notin LeavePoints \cup {"xchgrecv", "rungrecv"}
              /\ pc' \notin {"xchgrecv", "rungrecv"}
              /\ UNCHANGED <<link, arrived, there, back, samples>>
  <2>1. CASE NextRung
    BY <2>1 DEF NextRung, forked, LeavePoints, Finished
  <2>2. CASE CostConnects
    BY <2>2 DEF CostConnects, Connects, RawConnects, costVars, forked, LeavePoints, Finished
  <2>3. CASE RungEnds
    BY <2>3 DEF RungEnds, costVars, forked, LeavePoints, Finished
  <2> QED BY <2>1, <2>2, <2>3
<1>5. Forks => /\ pc \notin LeavePoints \cup {"xchgrecv", "rungrecv"}
               /\ pc' \notin {"xchgrecv", "rungrecv"}
               /\ UNCHANGED <<link, arrived, there, back, samples>>
  BY DEF Fork, ParentCloses, ParentDone, Waitpid, LeavePoints, Finished
<1>6. Kid => /\ pc \notin LeavePoints \cup {"rungrecv"} /\ pc' # "rungrecv"
             /\ UNCHANGED <<link, arrived>>
  BY DEF Xchg, XchgReturns, LeavePoints, Finished
<1>7. Spawn => /\ pc \notin LeavePoints \cup {"xchgrecv", "rungrecv"}
               /\ pc' \notin {"xchgrecv", "rungrecv"}
               /\ UNCHANGED <<toServer, handling, toClient, rawIn, rawOut, arrived, there, back, samples>>
  BY DEF Spawn, costVars, forked, LeavePoints, Finished
<1>8. CostQuits => /\ pc = "quit" /\ pc' = "killing"
                   /\ UNCHANGED <<rawIn, rawOut, there, back, samples>>
  <2> SUFFICES ASSUME CostQuits
               PROVE  /\ pc = "quit" /\ pc' = "killing"
                      /\ UNCHANGED <<rawIn, rawOut, there, back, samples>>
    OBVIOUS
  <2>1. PICK caps, tries : Quits(caps, tries)
    BY DEF CostQuits
  <2> QED BY <2>1 DEF CostQuits, Quits, Sends, SendFails, link, costVars, forked
<1>9. RungSends => /\ pc = "rung" /\ rung' = rung /\ UNCHANGED <<there, back, samples, arrived>>
                   /\ \/ /\ Op = "raw" /\ RawSends(Message(seq, 0, "echo"))
                         /\ seq' = seq + 1 /\ pc' = "rungrecv"
                      \/ /\ Op # "raw" /\ Sends(Message(seq, Rungs[rung].fd, Op))
                         /\ seq' = seq + 1 /\ pc' = "rungrecv"
                      \/ UNCHANGED link /\ pc' = "panic"
  BY DEF RungSends, SendFails, costVars, forked
<1>10. RungReturns => /\ pc = "rungrecv" /\ rung' = rung /\ seq' = seq /\ UNCHANGED <<there, back>>
                      /\ pc' \in {"rung", "panic"}
                      /\ \/ /\ Op = "raw" /\ RawTakes
                            /\ samples' = samples \cup {<<seq - 1, Head(rawOut)>>}
                         \/ /\ Op # "raw" /\ Takes
                            /\ samples' = samples \cup {<<seq - 1, Head(arrived)>>}
                         \/ /\ Op = "raw" /\ RawEnds /\ samples' = samples
  BY DEF RungReturns, forked
<1>11. KidPart'
  <2>1. UNCHANGED <<there, back>> => (KidTypes' <=> KidTypes) /\ (KidSingle' <=> KidSingle)
                                     /\ KidFlying' = KidFlying
    BY DEF KidTypes, KidSingle, KidFlying
  <2>2. CASE Xchg
    <3>1. pc = "xchg" /\ pc' = "xchgrecv" /\ seq' = seq + 1
      BY <2>2 DEF Xchg
    <3>2. KidTypes' /\ KidSingle' /\ KidFlying' = {seq}
      BY <1>2, <2>2, <3>1, XchgFlight
    <3> QED BY <1>1, <3>1, <3>2
  <2>3. CASE XchgReturns
    <3>1. pc = "xchgrecv" /\ pc' = "xchg"
      BY <2>3 DEF XchgReturns
    <3> QED BY <1>2, <2>3, <3>1, XchgReturnFlight
  <2>4. CASE Rest \/ Forks \/ Spawn \/ CostQuits \/ RungSends \/ RungReturns
    <3>1. UNCHANGED <<there, back>> /\ pc # "xchgrecv" /\ pc' # "xchgrecv"
      BY <1>4, <1>5, <1>7, <1>8, <1>9, <1>10, <2>4
    <3> QED BY <1>2, <2>1, <3>1
  <2> QED BY <1>1, <2>2, <2>3, <2>4 DEF CostStep
<1>12. RawPart'
  <2>1. UNCHANGED <<rawIn, rawOut>> /\ pc # "rungrecv" /\ pc' # "rungrecv" => RawPart'
    BY <1>2, RawUntouched
  <2>2. CASE RungSends
    <3>1. RawSingle /\ RawFlying = {} /\ Op' = Op /\ pc = "rung"
      BY <1>2, <1>9, <2>2 DEF Op
    <3>2. CASE Op = "raw" /\ RawSends(Message(seq, 0, "echo")) /\ seq' = seq + 1
      <4>1. Message(seq, 0, "echo") \in Msg /\ Message(seq, 0, "echo").seq = seq
        BY <1>1, MessageFacts DEF Ops
      <4>2. RawSingle' /\ RawFlying' = {seq}
        BY <3>1, <3>2, <4>1, RawSendFlight
      <4>3. pc' = "rungrecv"
        BY <1>9, <2>2, <3>2 DEF RungSends, RawSends, SendFails
      <4> QED BY <1>1, <3>1, <3>2, <4>2, <4>3
    <3>3. CASE Op # "raw" /\ UNCHANGED <<rawIn, rawOut>>
      BY <3>1, <3>3, RawUntouched
    <3>4. CASE pc' = "panic" /\ UNCHANGED link
      BY <2>1, <3>1, <3>4 DEF link
    <3> QED BY <1>9, <2>2, <3>2, <3>3, <3>4 DEF Sends
  <2>3. CASE RungReturns
    <3>1. RawSingle /\ pc = "rungrecv" /\ pc' # "rungrecv"
      BY <1>2, <1>10, <2>3
    <3>2. CASE RawTakes
      BY <3>1, <3>2, RawTakeFlight
    <3>3. CASE RawEnds
      <4>1. rawOut = <<>> /\ rawIn = <<>> /\ UNCHANGED <<rawIn, rawOut>>
        BY <3>3 DEF RawEnds, link, LinkTypes, GoneIsEmpty
      <4> QED BY <3>1, <4>1 DEF RawSingle, RawFlying
    <3>4. CASE Op # "raw" /\ Takes
      BY <1>2, <3>1, <3>4, RawUntouched DEF Takes, link
    <3> QED BY <1>10, <2>3, <3>2, <3>3, <3>4
  <2>4. CASE Rest \/ Forks \/ Kid \/ Spawn \/ CostQuits
    <3>1. UNCHANGED <<rawIn, rawOut>> /\ pc # "rungrecv" /\ pc' # "rungrecv"
      BY <1>4, <1>5, <1>6, <1>7, <1>8, <2>4 DEF link
    <3> QED BY <2>1, <3>1
  <2> QED BY <1>1, <2>1, <2>2, <2>3, <2>4 DEF CostStep
<1>13. LinkPart'
  <2>1. UNCHANGED <<toServer, handling, toClient, arrived>>
        /\ pc \notin LeavePoints \cup {"rungrecv"} /\ pc' # "rungrecv" => LinkPart'
    BY <1>2, UntouchedFlight DEF LeavePoints, Finished
  <2>2. CASE RungSends
    <3>1. Single /\ Flying = {} /\ Op' = Op /\ pc = "rung" /\ arrived' = arrived
      BY <1>2, <1>9, <2>2 DEF Op, LeavePoints, Finished
    <3>2. CASE Op = "raw" /\ UNCHANGED <<toServer, handling, toClient>>
      BY <3>1, <3>2, UntouchedFlight
    <3>3. CASE Op # "raw" /\ Sends(Message(seq, Rungs[rung].fd, Op)) /\ seq' = seq + 1
      <4>1. /\ Message(seq, Rungs[rung].fd, Op) \in Msg
            /\ Message(seq, Rungs[rung].fd, Op).seq = seq
        <5>1. rung \in 1 .. 14 /\ Op \in RungOps \ {"fork", "spawn"} /\ Rungs[rung].fd \in Nat
          BY <3>1, RungFacts DEF Placed, CostPlaces, RungPoints, Op
        <5> QED BY <1>1, <3>3, <5>1, MessageFacts DEF Ops, RungOps
      <4>2. Single' /\ Flying' = {seq}
        BY <3>1, <3>3, <4>1, SendFlight
      <4>3. pc' \in {"rungrecv", "panic"}
        BY <1>9, <2>2
      <4> QED BY <1>1, <3>1, <3>3, <4>2, <4>3 DEF LeavePoints, Finished
    <3>4. CASE pc' = "panic"
      BY <3>4 DEF LeavePoints, Finished
    <3> QED BY <1>9, <2>2, <3>2, <3>3, <3>4 DEF RawSends
  <2>3. CASE RungReturns
    <3>1. /\ pc = "rungrecv" /\ pc' # "rungrecv" /\ Single
          /\ IF Op # "raw" THEN Flying \subseteq {seq - 1} ELSE Flying = {}
      BY <1>2, <1>10, <2>3 DEF LeavePoints, Finished
    <3>2. CASE Op = "raw" /\ UNCHANGED <<toServer, handling, toClient, arrived>>
      BY <3>1, <3>2, UntouchedFlight
    <3>3. CASE Op # "raw" /\ Takes
      BY <3>1, <3>3, TakeFlight
    <3> QED BY <1>10, <2>3, <3>2, <3>3 DEF RawTakes, RawEnds, link
  <2>4. CASE Rest \/ Forks \/ Kid \/ Spawn
    <3>1. /\ UNCHANGED <<toServer, handling, toClient, arrived>>
          /\ pc \notin LeavePoints \cup {"rungrecv"} /\ pc' # "rungrecv"
      BY <1>4, <1>5, <1>6, <1>7, <2>4 DEF link
    <3> QED BY <2>1, <3>1
  <2>5. CASE CostQuits
    BY <1>8, <2>5 DEF LeavePoints
  <2> QED BY <1>1, <2>2, <2>3, <2>4, <2>5 DEF CostStep
<1>14. Own'
  <2>1. CASE samples' = samples
    BY <1>3, <2>1 DEF Own
  <2>2. CASE XchgReturns
    <3>1. pc = "xchgrecv" /\ samples' = samples \cup {<<seq - 1, Head(back)>>}
      BY <2>2 DEF XchgReturns
    <3>2. Head(back) = seq - 1
      BY <1>2, <2>2, <3>1, XchgReturnFlight
    <3> QED BY <1>3, <3>1, <3>2 DEF Own
  <2>3. CASE RungReturns /\ Op = "raw" /\ RawTakes
    <3>1. samples' \subseteq samples \cup {<<seq - 1, Head(rawOut)>>}
      BY <1>10, <2>3
    <3>2. Head(rawOut) = seq - 1
      BY <1>2, <1>10, <2>3, RawTakeFlight
    <3> QED BY <1>3, <3>1, <3>2 DEF Own
  <2>4. CASE RungReturns /\ Op # "raw" /\ Takes
    <3>1. samples' \subseteq samples \cup {<<seq - 1, Head(arrived)>>}
      BY <1>10, <2>4
    <3>2. Single /\ Flying \subseteq {seq - 1}
      BY <1>2, <1>10, <2>4 DEF LeavePoints, Finished
    <3>3. Head(arrived) = seq - 1
      BY <2>4, <3>2, TakeFlight
    <3> QED BY <1>3, <3>1, <3>3 DEF Own
  <2>5. CASE Rest \/ Forks \/ Xchg \/ Spawn \/ CostQuits \/ RungSends
    <3>1. samples' = samples
      BY <1>4, <1>5, <1>7, <1>8, <1>9, <2>5 DEF Xchg
    <3> QED BY <2>1, <3>1
  <2> QED BY <1>1, <1>10, <2>1, <2>2, <2>3, <2>4, <2>5 DEF CostStep
<1> QED BY <1>1, <1>11, <1>12, <1>13, <1>14 DEF CostCalm

\* bound_client.rs: one message at all.
LEMMA BoundKeepsCalm ==
  ASSUME Placed, LinkTypes, BoundCalm, Own, BoundNext
  PROVE  BoundCalm' /\ Own'
<1>1. /\ BoundStep /\ prog.name = "bound" /\ prog' = prog /\ seq' = seq
      /\ \A s \in samples : s[1] = s[2]
  BY BoundGoes DEF BoundNext, Own
<1>2. /\ pc \in {"connect", "bound"} => Single /\ Flying = {}
      /\ pc = "boundwait" => Single /\ Flying \subseteq {seq}
  BY <1>1 DEF BoundCalm
<1>3. CASE Connects("bound")
  <2>1. /\ pc = "connect" /\ pc' \in {"bound", "panic"} /\ samples' = samples
        /\ UNCHANGED <<link, arrived>>
    BY <1>3 DEF Connects
  <2>2. Single' /\ Flying' = {}
    BY <1>2, <2>1, SameFlight
  <2> QED BY <1>1, <2>1, <2>2 DEF BoundCalm, Own
<1>4. CASE pc = "bound"
  <2>1. /\ samples' = samples /\ arrived' = arrived
        /\ \/ Sends(Message(seq, 1, "ref")) /\ pc' = "boundwait"
           \/ pc' = "panic"
    BY <1>1, <1>4 DEF BoundStep, Connects
  <2>2. Message(seq, 1, "ref") \in Msg /\ Message(seq, 1, "ref").seq = seq
    BY MessageFacts DEF Placed, Ops
  <2>3. Sends(Message(seq, 1, "ref")) => Single' /\ Flying' = {seq}
    BY <1>2, <1>4, <2>1, <2>2, SendFlight
  <2> QED BY <1>1, <2>1, <2>3 DEF BoundCalm, Own
<1>5. CASE pc = "boundwait"
  <2>1. /\ pc' \in {"end", "panic"}
        /\ \/ Takes /\ samples' = {<<seq, Head(arrived)>>}
           \/ samples' = samples
    BY <1>1, <1>5 DEF BoundStep, Connects
  <2>2. Takes => Head(arrived) = seq
    BY <1>2, <1>5, TakeFlight
  <2> QED BY <1>1, <2>1, <2>2 DEF BoundCalm, Own
<1> QED BY <1>1, <1>3, <1>4, <1>5 DEF BoundStep

\* A step of none of the clients, on which messages move on or are lost.
LEMMA CalmShrinks ==
  ASSUME Calm, Own, UNCHANGED <<prog, pc, seq, samples, gaveUp, phase, rung>>,
         Single => Single' /\ Flying' \subseteq Flying,
         RawSingle => RawSingle' /\ RawFlying' \subseteq RawFlying,
         IsCost /\ KidTypes /\ KidSingle =>
           KidTypes' /\ KidSingle' /\ KidFlying' \subseteq KidFlying
  PROVE  Calm' /\ Own'
<1>1. Own'
  BY DEF Own
<1>2. FrameCalm'
  <2>1. One => One' /\ OnWay' \subseteq OnWay
    BY DEF One, OnWay
  <2> QED BY <2>1 DEF Calm, FrameCalm
<1>3. BenchCalm'
  <2>1. (IsBench' <=> IsBench) /\ (Rested' <=> Rested)
    BY DEF IsBench, Rested, Phases
  <2> QED BY <2>1 DEF Calm, BenchCalm
<1>4. CostCalm'
  <2>1. (IsCost' <=> IsCost) /\ Op' = Op
    BY DEF IsCost, Op
  <2> QED BY <2>1 DEF Calm, CostCalm, LeavePoints, Finished
<1>5. BoundCalm'
  BY DEF Calm, BoundCalm
<1> QED BY <1>1, <1>2, <1>3, <1>4, <1>5 DEF Calm

\* All of them together: every sample is a round trip with its own reply.
LEMMA CalmStep == Placed /\ LinkTypes /\ Calm /\ Own /\ [Next]_vars => Calm' /\ Own'
<1> SUFFICES ASSUME Placed, LinkTypes, Calm, Own, [Next]_vars PROVE Calm' /\ Own'
  OBVIOUS
<1>1. CASE FrameNext
  <2>1. IsFrames /\ prog' = prog
    BY <1>1, FrameGoes DEF FrameNext
  <2>2. BenchCalm' /\ CostCalm' /\ BoundCalm'
    BY <2>1 DEF BenchCalm, CostCalm, BoundCalm, IsFrames, IsBench, IsCost
  <2> QED BY <1>1, <2>2, FrameKeepsCalm DEF Calm
<1>2. CASE BenchNext
  <2>1. IsBench /\ prog' = prog
    BY <1>2, BenchGoes DEF BenchNext
  <2>2. FrameCalm' /\ CostCalm' /\ BoundCalm'
    BY <2>1 DEF FrameCalm, CostCalm, BoundCalm, IsBench, IsCost
  <2> QED BY <1>2, <2>2, BenchKeepsCalm DEF Calm
<1>3. CASE CostNext
  <2>1. IsCost /\ prog' = prog
    BY <1>3, CostGoes DEF CostNext
  <2>2. FrameCalm' /\ BenchCalm' /\ BoundCalm'
    BY <2>1 DEF FrameCalm, BenchCalm, BoundCalm, IsBench, IsCost
  <2> QED BY <1>3, <2>2, CostKeepsCalm DEF Calm
<1>4. CASE BoundNext
  <2>1. prog.name = "bound" /\ prog' = prog
    BY <1>4, BoundGoes DEF BoundNext
  <2>2. FrameCalm' /\ BenchCalm' /\ CostCalm'
    BY <2>1 DEF FrameCalm, BenchCalm, CostCalm, IsBench, IsCost
  <2> QED BY <1>4, <2>2, BoundKeepsCalm DEF Calm
<1>5. CASE KillNext
  <2>1. /\ prog' = prog /\ samples' = samples /\ gaveUp' = gaveUp /\ ProcessGone
        /\ pc = "killing" /\ pc' = "end" /\ UNCHANGED <<there, back>>
    BY <1>5 DEF KillNext, Kills, frameVars, costVars, forked
  <2>2. FrameCalm' /\ BoundCalm' /\ Own'
    BY <2>1 DEF FrameCalm, BoundCalm, Own
  <2>3. RawSingle => RawSingle' /\ RawFlying' \subseteq RawFlying
    BY <2>1, RawFlight
  <2>4. BenchCalm'
    BY <2>1, <2>3 DEF Calm, BenchCalm, IsBench
  <2>5. CostCalm'
    BY <2>1, <2>3 DEF Calm, CostCalm, IsCost, KidTypes, KidSingle, KidFlying, LeavePoints, Finished
  <2> QED BY <2>2, <2>4, <2>5 DEF Calm
<1>6. CASE KidNext
  <2>1. /\ UNCHANGED <<prog, pc, seq, samples, gaveUp, phase, rung>> /\ KidStep
        /\ UNCHANGED <<link, arrived>>
    BY <1>6 DEF KidNext, KidStep, echoVars, frameVars, benchVars
  <2>2. KidTypes /\ KidSingle => KidTypes' /\ KidSingle' /\ KidFlying' \subseteq KidFlying
    BY <2>1, KidFlight
  <2> QED BY <2>1, <2>2, SameFlight, CalmShrinks
<1>7. CASE LinkNext \/ LinkFails
  <2>1. /\ UNCHANGED <<prog, pc, seq, samples, gaveUp, phase, rung, there, back>> /\ LinkMoves
    BY <1>7 DEF LinkNext, LinkFails, LinkStep, LinkFault, LinkMoves, frameVars, benchVars, costVars, forked
  <2>2. KidTypes /\ KidSingle => KidTypes' /\ KidSingle' /\ KidFlying' \subseteq KidFlying
    BY <2>1 DEF KidTypes, KidSingle, KidFlying
  <2> QED BY <2>1, <2>2, LinkFlight, RawFlight, CalmShrinks
<1>8. CASE CheckNext \/ CheckFails \/ UNCHANGED vars
  <2>1. /\ UNCHANGED <<prog, pc, seq, samples, gaveUp, phase, rung, there, back, link, arrived>>
    BY <1>8 DEF CheckNext, CheckFails, vars, echoVars, frameVars, benchVars, costVars, forked
  <2>2. KidTypes /\ KidSingle => KidTypes' /\ KidSingle' /\ KidFlying' \subseteq KidFlying
    BY <2>1 DEF KidTypes, KidSingle, KidFlying
  <2> QED BY <2>1, <2>2, SameFlight, CalmShrinks
<1> QED BY <1>1, <1>2, <1>3, <1>4, <1>5, <1>6, <1>7, <1>8 DEF Next, ClientNext

\* At the start nothing is under way.
LEMMA CalmInit == Init => Calm /\ Own
<1> SUFFICES ASSUME Init PROVE Calm /\ Own
  OBVIOUS
<1>1. /\ toServer = <<>> /\ handling.stage = "idle" /\ toClient = <<>> /\ arrived = <<>>
      /\ rawIn = <<>> /\ rawOut = <<>> /\ there = <<>> /\ back = <<>> /\ samples = {}
      /\ pc \in {"next", "check", "connect"}
  BY DEF Init, EchoInit, CostInit, Idle
<1>2. /\ Len(toServer) = 0 /\ Busy = 0 /\ Len(toClient) = 0 /\ Len(arrived) = 0
      /\ Len(rawIn) = 0 /\ Len(rawOut) = 0 /\ Len(there) = 0 /\ Len(back) = 0
  BY <1>1 DEF Busy
<1>3. /\ Single /\ Flying = {} /\ RawSingle /\ RawFlying = {}
  BY <1>1, <1>2 DEF Single, Flying, RawSingle, RawFlying
<1>4. KidTypes /\ KidSingle /\ KidFlying = {}
  BY <1>1, <1>2 DEF KidTypes, KidSingle, KidFlying
<1> QED
  BY <1>1, <1>3, <1>4
     DEF Calm, FrameCalm, BenchCalm, CostCalm, BoundCalm, One, OnWay, Own

-----------------------------------------------------------------------------
(***************************************************************************)
(* A flood counts replies to its own messages only.                        *)
(***************************************************************************)
\* Nothing on the link, and nothing counted, is older than the flood.
Recent ==
  /\ since \in Nat /\ since <= seq
  /\ \A i \in 1 .. Len(toServer) : toServer[i].seq >= since
  /\ handling.stage # "idle" => handling.msg.seq >= since
  /\ \A i \in 1 .. Len(toClient) : toClient[i] >= since
  /\ \A n \in counted : n >= since

\* Only the start of a flood sets the mark its replies are compared with.
LEMMA SinceStays ==
  ASSUME Placed, [Next]_vars, ~FloodBegins
  PROVE  since' = since
<1>1. CASE BenchNext
  <2>1. BenchStep
    BY <1>1 DEF BenchNext
  <2>2. CASE BenchQuits
    BY <2>2 DEF BenchQuits, benchVars
  <2>3. CASE BenchConnects \/ NextPhase \/ BaseSends \/ BaseRecvs
    BY <2>3 DEF BenchConnects, NextPhase, BaseSends, BaseRecvs, benchRest, benchVars
  <2>4. CASE LatencySends \/ LatencyRecvs \/ FloodPrimes \/ FloodSends \/ TailWaits \/ TailEnds
             \/ QuiesceAgain \/ QuiesceEnds \/ Probes \/ ProbeReplies \/ WatchTrips
    BY <2>4 DEF LatencySends, LatencyRecvs, FloodPrimes, FloodSends, TailWaits, TailEnds,
       QuiesceAgain, QuiesceEnds, Probes, ProbeReplies, WatchTrips, benchRest, benchVars
  <2> QED BY <2>1, <2>2, <2>3, <2>4 DEF BenchStep
<1>2. CASE FrameNext \/ CostNext \/ BoundNext \/ KillNext
  BY <1>2 DEF FrameNext, CostNext, BoundNext, KillNext, benchVars
<1>3. CASE KidNext \/ LinkNext \/ LinkFails \/ CheckNext \/ CheckFails \/ UNCHANGED vars
  BY <1>3 DEF KidNext, LinkNext, LinkFails, CheckNext, CheckFails, vars, benchVars
<1> QED BY <1>1, <1>2, <1>3 DEF Next, ClientNext

\* A process that ends leaves no older message.
LEMMA GoneKeepsRecent ==
  ASSUME LinkTypes, Recent, ProcessGone
  PROVE  /\ Len(toServer') = 0 /\ handling'.stage = "idle"
         /\ \A i \in 1 .. Len(toClient') : toClient'[i] >= since
<1>1. /\ toServer' = <<>> /\ handling'.stage = "idle" /\ Len(toClient') <= Len(toClient)
      /\ toClient' \in Seq(Nat) /\ Len(toClient') \in Nat /\ Len(toClient) \in Nat
      /\ \A i \in 1 .. Len(toClient') : toClient'[i] = toClient[i]
  BY GoneFacts DEF LinkTypes, BackTypes
<1>2. Len(toServer') = 0
  BY <1>1
<1>3. ASSUME NEW i \in 1 .. Len(toClient') PROVE toClient'[i] >= since
  <2>1. i \in 1 .. Len(toClient) /\ toClient'[i] = toClient[i]
    BY <1>1
  <2> QED BY <2>1 DEF Recent
<1> QED BY <1>1, <1>2, <1>3

\* throughput sets the mark when its prime is answered and nothing is under way,
\* and numbers only grow from there.
LEMMA RecentStep == Placed /\ LinkTypes /\ Calm /\ Recent /\ [Next]_vars => Recent'
<1> SUFFICES ASSUME Placed, LinkTypes, Calm, Recent, [Next]_vars PROVE Recent'
  OBVIOUS
<1>1. /\ toServer \in Seq(Msg) /\ toClient \in Seq(Nat) /\ seq \in Nat
      /\ since \in Nat /\ since <= seq
  BY DEF LinkTypes, ThereTypes, BackTypes, Placed, Recent
<1>2. CASE FloodBegins
  <2>1. /\ pc = "prime" /\ arrived # <<>> /\ Drains /\ UNCHANGED link
        /\ counted' = {} /\ since' = seq /\ seq' = seq
    BY <1>2 DEF FloodBegins
  <2>2. Single
    BY <2>1 DEF Calm, BenchCalm, Placed, BenchPlaces, BenchPoints
  <2>3. Flying' = {}
    BY <2>1, <2>2, DrainFlight
  <2>4. toServer' = <<>> /\ handling'.stage = "idle" /\ toClient' = <<>>
    BY <2>3 DEF Flying
  <2>5. Len(toServer') = 0 /\ Len(toClient') = 0
    BY <2>4
  <2> QED BY <1>1, <2>1, <2>4, <2>5 DEF Recent
<1>3. CASE ~FloodBegins /\ Touches
  <2>1. since' = since /\ counted' \in {counted, {}} /\ seq' \in {seq, seq + 1}
    BY <1>3, SinceStays DEF Touches
  <2>2. since' \in Nat /\ since' <= seq' /\ \A n \in counted' : n >= since'
    BY <1>1, <2>1 DEF Recent
  <2>3. CASE UNCHANGED <<toServer, handling, toClient>>
    BY <2>1, <2>2, <2>3 DEF Recent
  <2>4. CASE ProcessGone
    BY <2>1, <2>2, <2>4, GoneKeepsRecent DEF Recent
  <2>5. CASE Sending
    <3>1. PICK m \in Msg : m.seq = seq /\ (Sends(m) \/ RawSends(m))
      BY <2>5 DEF Sending
    <3>2. CASE Sends(m)
      <4>1. /\ toServer' \in Seq(Msg) /\ Len(toServer') = Len(toServer) + 1
            /\ toServer'[Len(toServer) + 1] = m
            /\ \A i \in 1 .. Len(toServer) : toServer'[i] = toServer[i]
            /\ UNCHANGED <<handling, toClient>>
        BY <3>2, SendsFacts
      <4>2. ASSUME NEW i \in 1 .. Len(toServer') PROVE toServer'[i].seq >= since
        <5>1. CASE i = Len(toServer) + 1
          BY <1>1, <3>1, <4>1, <5>1
        <5>2. CASE i # Len(toServer) + 1
          <6>1. i \in 1 .. Len(toServer)
            BY <1>1, <4>1, <5>2
          <6> QED BY <4>1, <6>1 DEF Recent
        <5> QED BY <5>1, <5>2
      <4> QED BY <2>1, <2>2, <4>1, <4>2 DEF Recent
    <3>3. CASE RawSends(m)
      BY <2>3, <3>3 DEF RawSends
    <3> QED BY <3>1, <3>2, <3>3
  <2> QED BY <1>3, <2>3, <2>4, <2>5 DEF Touches, RawTaking, Spawning, link
<1>4. CASE ~FloodBegins /\ LinkMoves /\ UNCHANGED <<seq, benchVars>>
  <2>1. since' = since /\ seq' = seq
    BY <1>4 DEF benchVars
  <2>2. CASE ServerQuits \/ ServerDies
    <3>1. ProcessGone /\ counted' = counted
      BY <2>2 DEF ServerQuits, ServerDies
    <3> QED BY <1>1, <2>1, <3>1, GoneKeepsRecent DEF Recent
  <2>3. CASE ServerBinds \/ RawBinds \/ RawEcho
    <3>1. UNCHANGED <<toServer, handling, toClient, counted>>
      BY <2>3 DEF ServerBinds, RawBinds, RawEcho
    <3> QED BY <2>1, <3>1 DEF Recent
  <2>4. CASE ServerTakes
    <3>1. /\ Len(toServer) \in Nat /\ Len(toServer) >= 1 /\ handling'.msg = toServer[1]
          /\ Len(toServer') = Len(toServer) - 1
          /\ \A i \in 1 .. Len(toServer') : toServer'[i] = toServer[i + 1]
          /\ UNCHANGED <<toClient, counted>>
      BY <1>1, <2>4, TakesFacts
    <3>2. toServer[1].seq >= since
      BY <3>1 DEF Recent
    <3>3. ASSUME NEW i \in 1 .. Len(toServer') PROVE toServer'[i].seq >= since
      <4>1. i + 1 \in 1 .. Len(toServer)
        BY <3>1
      <4> QED BY <3>1, <4>1 DEF Recent
    <3> QED BY <1>1, <2>1, <3>1, <3>2, <3>3 DEF Recent
  <2>5. CASE FindsReply
    <3>1. /\ handling.stage = "took"
          /\ handling'.stage # "idle" => handling'.msg = handling.msg
          /\ UNCHANGED <<toServer, toClient, counted>>
      BY <2>5, FindsFacts
    <3> QED BY <2>1, <3>1 DEF Recent
  <2>6. CASE Replies
    <3>1. /\ handling.stage = "reply" /\ handling'.stage = "idle"
          /\ Len(toClient') = Len(toClient) + 1 /\ Len(toClient) \in Nat
          /\ toClient'[Len(toClient) + 1] = handling.msg.seq
          /\ \A i \in 1 .. Len(toClient) : toClient'[i] = toClient[i]
          /\ UNCHANGED <<toServer, counted>>
      BY <1>1, <2>6, RepliesFacts
    <3>2. ASSUME NEW i \in 1 .. Len(toClient') PROVE toClient'[i] >= since
      <4>1. CASE i = Len(toClient) + 1
        BY <3>1, <4>1 DEF Recent
      <4>2. CASE i # Len(toClient) + 1
        <5>1. i \in 1 .. Len(toClient)
          BY <3>1, <4>2
        <5> QED BY <3>1, <5>1 DEF Recent
      <4> QED BY <4>1, <4>2
    <3> QED BY <2>1, <3>1, <3>2 DEF Recent
  <2>7. CASE ReplyArrives
    <3>1. /\ toClient # <<>> /\ toClient' = Tail(toClient)
          /\ counted' \subseteq counted \cup {Head(toClient)}
          /\ UNCHANGED <<toServer, handling>>
      BY <2>7 DEF ReplyArrives
    <3>2. /\ Head(toClient) = toClient[1] /\ Len(toClient) >= 1 /\ Len(toClient) \in Nat
          /\ Len(toClient') = Len(toClient) - 1
          /\ \A i \in 1 .. Len(toClient') : toClient'[i] = toClient[i + 1]
      BY <1>1, <3>1
    <3>3. \A n \in counted' : n >= since
      BY <3>1, <3>2 DEF Recent
    <3>4. ASSUME NEW i \in 1 .. Len(toClient') PROVE toClient'[i] >= since
      <4>1. i + 1 \in 1 .. Len(toClient)
        BY <3>2
      <4> QED BY <3>2, <4>1 DEF Recent
    <3> QED BY <2>1, <3>1, <3>3, <3>4 DEF Recent
  <2> QED BY <1>4, <2>2, <2>3, <2>4, <2>5, <2>6, <2>7 DEF LinkMoves
<1> QED BY <1>2, <1>3, <1>4, WhatMoves

\* Every timed round trip of every program ends with the reply to the message
\* that began it, and a flood counts replies to its own messages only ("without
\* this the next phase reads someone else's mail", bench.rs:409-410); only
\* paced --sequential, after a wait that timed out, may take another's.
THEOREM RoundTripsAreOwn == Spec => []RepliesAreOwn
<1>1. Init => Recent
  <2> SUFFICES ASSUME Init PROVE Recent
    OBVIOUS
  <2>1. /\ since = 0 /\ seq = 0 /\ counted = {} /\ handling.stage = "idle"
        /\ toServer = <<>> /\ toClient = <<>>
    BY DEF Init, EchoInit, BenchInit, Idle
  <2>2. Len(toServer) = 0 /\ Len(toClient) = 0
    BY <2>1
  <2> QED BY <2>1, <2>2 DEF Recent
<1>2. Own /\ Recent => RepliesAreOwn
  BY DEF Own, Recent, RepliesAreOwn
<1> QED
  BY <1>1, <1>2, PlacedInit, PlacedStep, LinkInit, LinkTypesStep, CalmInit, CalmStep, RecentStep,
     PTL DEF Spec

-----------------------------------------------------------------------------
(***************************************************************************)
(* The verdict of ordering.rs.                                             *)
(***************************************************************************)

Letter == [seq : Nat, intact : BOOLEAN, cap : {0, 1}]
CheckTypes ==
  /\ queue \in Seq(Letter) /\ history \in Seq(Letter) /\ next \in Nat
  /\ at \in {"idle", "fds", "order", "payload"}
  /\ next_expected \in Nat /\ out_of_order \in Nat /\ payload_corrupt \in Nat
  /\ fds_seen \in Nat /\ loads \in Seq(Nat)

\* The last message the handler was given may not be checked for all yet.
CheckedFds == IF at = "fds" THEN Len(history) - 1 ELSE Len(history)
CheckedOrder == IF at \in {"fds", "order"} THEN Len(history) - 1 ELSE Len(history)
CheckedPayload == IF at # "idle" THEN Len(history) - 1 ELSE Len(history)

FirstFds(n) == \A i \in 1 .. n : history[i].cap = 1
FirstInOrder(n) == \A i \in 1 .. n : history[i].seq = i - 1
FirstIntact(n) == \A i \in 1 .. n : history[i].intact

\* Each counter says what it says of the messages checked for it so far, and
\* no more messages are counted than were sent.
Counting ==
  /\ Len(history) + Len(queue) <= next /\ next <= MESSAGES
  /\ received = Len(history)
  /\ at # "idle" => history # <<>> /\ checking = <<history[Len(history)]>>
  /\ fds_seen <= CheckedFds /\ (fds_seen = CheckedFds => FirstFds(CheckedFds))
  /\ next_expected = IF CheckedOrder = 0 THEN 0 ELSE history[CheckedOrder].seq + 1
  /\ out_of_order = 0 => FirstInOrder(CheckedOrder)
  /\ payload_corrupt = 0 => FirstIntact(CheckedPayload)

\* What main has read stays true: once all messages are counted none is left.
Loaded ==
  /\ main \notin {"loading", "verdict"} => loads = <<>>
  /\ main = "loading" => Len(loads) <= 3
  /\ main = "verdict" => Len(loads) = 4
  /\ Len(loads) >= 1 /\ loads[1] = MESSAGES =>
       /\ Len(history) = MESSAGES
       /\ Len(loads) >= 2 /\ loads[2] = 0 => FirstInOrder(MESSAGES - 1)
       /\ Len(loads) >= 3 /\ loads[3] = 0 => FirstIntact(MESSAGES - 1)
       /\ Len(loads) >= 4 /\ loads[4] = MESSAGES => FirstFds(MESSAGES)

VerdictInv == CheckTypes /\ Counting /\ Loaded

-----------------------------------------------------------------------------
\* ordering.rs starts with nothing sent and nothing counted.
LEMMA CheckInit == Init => VerdictInv
BY OrderingAssumption
   DEF Init, OrderingInit, VerdictInv, CheckTypes, Counting, Loaded, CheckedFds, CheckedOrder,
       CheckedPayload, FirstFds, FirstInOrder, FirstIntact

\* Sending and the link's blunders leave the handler and main alone.
LEMMA QueueMoves ==
  ASSUME VerdictInv, TrySends \/ Blunder
  PROVE  VerdictInv'
<1>1. /\ UNCHANGED <<checking, at, counters, loads, history>>
      /\ main' = main
  BY DEF TrySends, Blunder
<1>2. /\ queue' \in Seq(Letter) /\ next' \in Nat /\ next' <= MESSAGES
      /\ Len(queue') - next' <= Len(queue) - next
  <2>1. CASE TrySends
    BY <2>1, OrderingAssumption DEF TrySends, VerdictInv, CheckTypes, Counting, Letter
  <2>2. CASE Blunder
    <3>0. next' = next /\ queue # <<>> /\ queue \in Seq(Letter) /\ next \in Nat
          /\ next <= MESSAGES
      BY <2>2 DEF Blunder, VerdictInv, CheckTypes, Counting
    <3>1. CASE Len(queue) > 1 /\ queue' = <<queue[2], queue[1]>> \o SubSeq(queue, 3, Len(queue))
      <4>1. <<queue[2], queue[1]>> \in Seq(Letter) /\ Len(<<queue[2], queue[1]>>) = 2
        BY <3>0, <3>1
      <4>2. SubSeq(queue, 3, Len(queue)) \in Seq(Letter)
            /\ Len(SubSeq(queue, 3, Len(queue))) = Len(queue) - 2
        BY <3>0, <3>1
      <4> QED BY <3>0, <3>1, <4>1, <4>2
    <3>2. CASE queue' = Tail(queue)
      BY <3>0, <3>2
    <3>3. CASE queue' = [queue EXCEPT ![1].intact = FALSE]
      <4>0. queue[1] \in Letter
        BY <3>0
      <4>1. [queue[1] EXCEPT !.intact = FALSE] \in Letter
        BY <4>0 DEF Letter
      <4>2. queue' = [queue EXCEPT ![1] = [queue[1] EXCEPT !.intact = FALSE]]
        BY <3>3
      <4> QED BY <3>0, <4>1, <4>2
    <3>4. CASE queue' = [queue EXCEPT ![1].cap = 0]
      <4>0. queue[1] \in Letter
        BY <3>0
      <4>1. [queue[1] EXCEPT !.cap = 0] \in Letter
        BY <4>0 DEF Letter
      <4>2. queue' = [queue EXCEPT ![1] = [queue[1] EXCEPT !.cap = 0]]
        BY <3>4
      <4> QED BY <3>0, <4>1, <4>2
    <3> QED BY <2>2, <3>1, <3>2, <3>3, <3>4 DEF Blunder
  <2> QED BY <2>1, <2>2
<1>3. CheckTypes' /\ Counting'
  BY <1>1, <1>2
     DEF VerdictInv, CheckTypes, Counting, counters, CheckedFds, CheckedOrder, CheckedPayload,
         FirstFds, FirstInOrder, FirstIntact
<1>4. Loaded'
  BY <1>1 DEF VerdictInv, Loaded, FirstFds, FirstInOrder, FirstIntact
<1> QED BY <1>3, <1>4 DEF VerdictInv

\* A message goes into the handler and is counted as received.
LEMMA CountsKeeps ==
  ASSUME VerdictInv, Counts
  PROVE  VerdictInv'
<1>0. PICK n : n = Len(history)
  OBVIOUS
<1>1. /\ history \in Seq(Letter) /\ n \in Nat /\ queue \in Seq(Letter)
      /\ queue # <<>> /\ at = "idle" /\ at' = "fds" /\ Head(queue) \in Letter
      /\ history' = Append(history, Head(queue)) /\ queue' = Tail(queue)
      /\ checking' = <<Head(queue)>>
      /\ received' = received + 1
      /\ UNCHANGED <<next, next_expected, fds_seen, out_of_order, payload_corrupt, main, loads>>
  BY <1>0 DEF Counts, VerdictInv, CheckTypes
<1>2. /\ history' \in Seq(Letter) /\ Len(history') = n + 1
      /\ history'[n + 1] = Head(queue)
      /\ \A i \in 1 .. n : history'[i] = history[i]
      /\ queue' \in Seq(Letter) /\ Len(queue') = Len(queue) - 1 /\ Len(queue) >= 1
  BY <1>0, <1>1
<1>3. CheckTypes'
  BY <1>1, <1>2 DEF VerdictInv, CheckTypes
<1>4. CheckedFds' = n /\ CheckedOrder' = n /\ CheckedPayload' = n
      /\ CheckedFds = n /\ CheckedOrder = n /\ CheckedPayload = n
  BY <1>0, <1>1, <1>2 DEF CheckedFds, CheckedOrder, CheckedPayload
<1>5. (FirstFds(n) => FirstFds(n)') /\ (FirstInOrder(n) => FirstInOrder(n)')
      /\ (FirstIntact(n) => FirstIntact(n)')
  BY <1>2 DEF FirstFds, FirstInOrder, FirstIntact
<1>6. Counting'
  <2>1. /\ Len(history') + Len(queue') <= next' /\ next' <= MESSAGES
        /\ received' = Len(history')
    BY <1>0, <1>1, <1>2 DEF VerdictInv, Counting
  <2>2. at' # "idle" => history' # <<>> /\ checking' = <<history'[Len(history')]>>
    <3>1. Len(history') # 0
      BY <1>0, <1>1, <1>2
    <3>2. <<Head(queue)>> = <<history'[Len(history')]>>
      BY <1>2
    <3> QED BY <1>1, <3>1, <3>2
  <2>3. fds_seen' <= n /\ (fds_seen' = n => FirstFds(n)')
    BY <1>1, <1>4, <1>5 DEF VerdictInv, Counting
  <2>4. next_expected' = IF n = 0 THEN 0 ELSE history'[n].seq + 1
    BY <1>1, <1>2, <1>4 DEF VerdictInv, Counting
  <2>5. /\ out_of_order' = 0 => FirstInOrder(n)'
        /\ payload_corrupt' = 0 => FirstIntact(n)'
    BY <1>1, <1>4, <1>5 DEF VerdictInv, Counting
  <2> QED BY <1>4, <2>1, <2>2, <2>3, <2>4, <2>5 DEF Counting, FirstFds, FirstInOrder, FirstIntact
<1>7. ~(Len(loads) >= 1 /\ loads[1] = MESSAGES)
  <2>1. n + Len(queue) <= MESSAGES
    BY <1>0, <1>1, OrderingAssumption DEF VerdictInv, Counting, CheckTypes
  <2> QED BY <1>0, <1>1, <1>2, <2>1, OrderingAssumption DEF VerdictInv, Loaded
<1>8. Loaded'
  BY <1>1, <1>7 DEF VerdictInv, Loaded
<1> QED BY <1>3, <1>6, <1>8 DEF VerdictInv

\* The handler goes on with the message it has.
LEMMA ChecksKeep ==
  ASSUME VerdictInv, CountsFds \/ ChecksOrder \/ ChecksPayload
  PROVE  VerdictInv'
<1> DEFINE n == Len(history)
           m == history[n]
<1>1. /\ history \in Seq(Letter) /\ n \in Nat /\ n >= 1 /\ m \in Letter
      /\ at # "idle" /\ checking[1] = m /\ checking = <<m>>
      /\ UNCHANGED <<queue, next, received, main, loads, history>>
  BY DEF VerdictInv, CheckTypes, Counting, CountsFds, ChecksOrder, ChecksPayload
<1>2. Loaded'
  BY <1>1 DEF VerdictInv, Loaded, FirstFds, FirstInOrder, FirstIntact
<1>3. /\ Len(history') + Len(queue') <= next' /\ next' <= MESSAGES
      /\ received' = Len(history')
  BY <1>1 DEF VerdictInv, Counting
<1>4. CASE CountsFds
  <2>1. /\ at = "fds" /\ at' = "order" /\ fds_seen' = fds_seen + m.cap
        /\ UNCHANGED <<checking, next_expected, out_of_order, payload_corrupt>>
    BY <1>1, <1>4 DEF CountsFds
  <2>2. /\ CheckedFds = n - 1 /\ CheckedFds' = n
        /\ CheckedOrder' = CheckedOrder /\ CheckedPayload' = CheckedPayload
    BY <1>1, <2>1 DEF CheckedFds, CheckedOrder, CheckedPayload
  <2>3. fds_seen \in Nat /\ fds_seen <= n - 1 /\ (fds_seen = n - 1 => FirstFds(n - 1))
    BY <2>2 DEF VerdictInv, Counting, CheckTypes
  <2>4. m.cap \in {0, 1}
    BY <1>1 DEF Letter
  <2>5. fds_seen' \in Nat /\ fds_seen' <= n /\ (fds_seen' = n => FirstFds(n)')
    BY <1>1, <2>1, <2>3, <2>4 DEF FirstFds
  <2>6. CheckTypes'
    BY <1>1, <2>1, <2>5 DEF VerdictInv, CheckTypes
  <2>7. Counting'
    BY <1>1, <1>3, <2>1, <2>2, <2>5
       DEF VerdictInv, Counting, FirstFds, FirstInOrder, FirstIntact
  <2> QED BY <1>2, <2>6, <2>7 DEF VerdictInv
<1>5. CASE ChecksOrder
  <2>1. /\ at = "order" /\ at' = "payload" /\ next_expected' = m.seq + 1
        /\ out_of_order' = out_of_order + (IF m.seq = next_expected THEN 0 ELSE 1)
        /\ UNCHANGED <<checking, fds_seen, payload_corrupt>>
    BY <1>1, <1>5 DEF ChecksOrder
  <2>2. /\ CheckedOrder = n - 1 /\ CheckedOrder' = n
        /\ CheckedFds' = CheckedFds /\ CheckedPayload' = CheckedPayload
    BY <1>1, <2>1 DEF CheckedFds, CheckedOrder, CheckedPayload
  <2>3. /\ next_expected \in Nat /\ out_of_order \in Nat /\ m.seq \in Nat
        /\ next_expected = (IF n - 1 = 0 THEN 0 ELSE history[n - 1].seq + 1)
        /\ out_of_order = 0 => FirstInOrder(n - 1)
    BY <1>1, <2>2 DEF VerdictInv, Counting, CheckTypes, Letter
  <2>4. next_expected' \in Nat /\ out_of_order' \in Nat
    BY <2>1, <2>3
  <2>5. out_of_order' = 0 => FirstInOrder(n)'
    <3>1. SUFFICES ASSUME out_of_order' = 0 PROVE FirstInOrder(n)'
      OBVIOUS
    <3>2. out_of_order = 0 /\ m.seq = next_expected
      BY <2>1, <2>3, <3>1
    <3>3. FirstInOrder(n - 1)
      BY <2>3, <3>2
    <3>4. m.seq = n - 1
      BY <1>1, <2>3, <3>2, <3>3 DEF FirstInOrder
    <3> QED BY <1>1, <3>3, <3>4 DEF FirstInOrder
  <2>6. CheckTypes'
    BY <1>1, <2>1, <2>4 DEF VerdictInv, CheckTypes
  <2>7. Counting'
    BY <1>1, <1>3, <2>1, <2>2, <2>5
       DEF VerdictInv, Counting, FirstFds, FirstInOrder, FirstIntact
  <2> QED BY <1>2, <2>6, <2>7 DEF VerdictInv
<1>6. CASE ChecksPayload
  <2>1. /\ at = "payload" /\ at' = "idle"
        /\ payload_corrupt' = payload_corrupt + (IF m.intact THEN 0 ELSE 1)
        /\ UNCHANGED <<next_expected, fds_seen, out_of_order>>
    BY <1>1, <1>6 DEF ChecksPayload
  <2>2. /\ CheckedPayload = n - 1 /\ CheckedPayload' = n
        /\ CheckedFds' = CheckedFds /\ CheckedOrder' = CheckedOrder
    BY <1>1, <2>1 DEF CheckedFds, CheckedOrder, CheckedPayload
  <2>3. payload_corrupt \in Nat /\ (payload_corrupt = 0 => FirstIntact(n - 1))
    BY <2>2 DEF VerdictInv, Counting, CheckTypes
  <2>4. payload_corrupt' \in Nat
    BY <2>1, <2>3
  <2>5. payload_corrupt' = 0 => FirstIntact(n)'
    BY <1>1, <2>1, <2>3 DEF FirstIntact
  <2>6. CheckTypes'
    BY <1>1, <2>1, <2>4 DEF VerdictInv, CheckTypes
  <2>7. Counting'
    BY <1>1, <1>3, <2>1, <2>2, <2>5
       DEF VerdictInv, Counting, FirstFds, FirstInOrder, FirstIntact
  <2> QED BY <1>2, <2>6, <2>7 DEF VerdictInv
<1> QED BY <1>4, <1>5, <1>6

\* main reads a counter: of the messages it has counted, all but the last
\* are checked for everything, and each counter it reads speaks of those.
LEMMA MainKeeps ==
  ASSUME VerdictInv, Sent \/ WaitEnds \/ Loads
  PROVE  VerdictInv'
<1>1. /\ UNCHANGED <<queue, next, checking, at, counters, history>>
      /\ history \in Seq(Letter) /\ loads \in Seq(Nat) /\ Len(history) \in Nat
  BY DEF VerdictInv, CheckTypes, Sent, WaitEnds, Loads
<1>2. Counting'
  BY <1>1 DEF VerdictInv, Counting, counters, CheckedFds, CheckedOrder, CheckedPayload,
              FirstFds, FirstInOrder, FirstIntact
<1>3. CASE Sent \/ WaitEnds
  <2>1. loads' = loads /\ loads = <<>> /\ main' \in {"waiting", "loading"}
    BY <1>3 DEF Sent, WaitEnds, VerdictInv, Loaded
  <2>2. CheckTypes'
    BY <1>1, <2>1 DEF VerdictInv, CheckTypes, counters
  <2>3. Loaded'
    BY <2>1 DEF Loaded
  <2> QED BY <1>2, <2>2, <2>3 DEF VerdictInv
<1>4. CASE Loads
  <2> DEFINE k == Len(loads)
             v == <<received, out_of_order, payload_corrupt, fds_seen>>[k + 1]
  <2>1. /\ main = "loading" /\ k \in Nat /\ k <= 3 /\ loads' = Append(loads, v)
        /\ main' = IF k = 3 THEN "verdict" ELSE "loading"
    BY <1>4 DEF Loads, VerdictInv, Loaded, CheckTypes
  <2>2. /\ k = 0 => v = received
        /\ k = 1 => v = out_of_order
        /\ k = 2 => v = payload_corrupt
        /\ k = 3 => v = fds_seen
    <3>1. <<received, out_of_order, payload_corrupt, fds_seen>>[1] = received
      OBVIOUS
    <3>2. <<received, out_of_order, payload_corrupt, fds_seen>>[2] = out_of_order
      OBVIOUS
    <3>3. <<received, out_of_order, payload_corrupt, fds_seen>>[3] = payload_corrupt
      OBVIOUS
    <3>4. <<received, out_of_order, payload_corrupt, fds_seen>>[4] = fds_seen
      OBVIOUS
    <3> HIDE DEF k
    <3> QED BY <3>1, <3>2, <3>3, <3>4
  <2> HIDE DEF v
  <2>3. k \in {0, 1, 2, 3} /\ v \in Nat
    <3>1. k \in {0, 1, 2, 3}
      <4>1. k \in Nat /\ k <= 3
        BY <2>1
      <4> HIDE DEF k
      <4> QED BY <4>1
    <3>2. /\ received \in Nat /\ out_of_order \in Nat
          /\ payload_corrupt \in Nat /\ fds_seen \in Nat
      BY <1>1 DEF VerdictInv, CheckTypes, Counting
    <3> HIDE DEF k
    <3> QED BY <2>2, <3>1, <3>2
  <2>4. /\ loads' \in Seq(Nat) /\ Len(loads') = k + 1 /\ loads'[k + 1] = v
        /\ \A i \in 1 .. k : loads'[i] = loads[i]
    BY <2>1, <2>3, <1>1
  <2>5. CheckTypes'
    BY <1>1, <2>4 DEF VerdictInv, CheckTypes, counters
  <2>6. /\ main' \notin {"loading", "verdict"} => loads' = <<>>
        /\ main' = "loading" => Len(loads') <= 3
        /\ main' = "verdict" => Len(loads') = 4
    BY <2>1, <2>3, <2>4
  <2>7. ASSUME loads'[1] = MESSAGES PROVE Len(history) = MESSAGES
    <3>1. CASE k = 0
      BY <2>2, <2>4, <2>7, <3>1 DEF VerdictInv, Counting
    <3>2. CASE k >= 1
      BY <2>1, <2>4, <2>7, <3>2 DEF VerdictInv, Loaded
    <3> QED BY <2>3, <3>1, <3>2
  <2>8. ASSUME Len(loads') >= 2, loads'[2] = 0, loads'[1] = MESSAGES
        PROVE  FirstInOrder(MESSAGES - 1)
    <3>1. CASE k = 1
      <4>1. out_of_order = 0 /\ Len(history) = MESSAGES
        BY <2>2, <2>4, <2>7, <2>8, <3>1
      <4> QED BY <1>1, <4>1 DEF VerdictInv, Counting, CheckedOrder, FirstInOrder
    <3>2. CASE k >= 2
      BY <2>1, <2>4, <2>8, <3>2 DEF VerdictInv, Loaded
    <3>3. k \in {1, 2, 3}
      BY <2>3, <2>4, <2>8
    <3> HIDE DEF k
    <3> QED BY <3>1, <3>2, <3>3
  <2>9. ASSUME Len(loads') >= 3, loads'[3] = 0, loads'[1] = MESSAGES
        PROVE  FirstIntact(MESSAGES - 1)
    <3>1. CASE k = 2
      <4>1. payload_corrupt = 0 /\ Len(history) = MESSAGES
        BY <2>2, <2>4, <2>7, <2>9, <3>1
      <4> QED BY <1>1, <4>1 DEF VerdictInv, Counting, CheckedPayload, FirstIntact
    <3>2. CASE k >= 3
      BY <2>1, <2>4, <2>9, <3>2 DEF VerdictInv, Loaded
    <3>3. k \in {2, 3}
      BY <2>3, <2>4, <2>9
    <3> HIDE DEF k
    <3> QED BY <3>1, <3>2, <3>3
  <2>10. ASSUME Len(loads') >= 4, loads'[4] = MESSAGES, loads'[1] = MESSAGES
         PROVE  FirstFds(MESSAGES)
    <3>1. k = 3 /\ fds_seen = MESSAGES /\ Len(history) = MESSAGES
      BY <2>2, <2>3, <2>4, <2>7, <2>10
    <3> QED BY <1>1, <3>1 DEF VerdictInv, Counting, CheckedFds
  <2>11. Loaded'
    BY <1>1, <2>6, <2>7, <2>8, <2>9, <2>10 DEF Loaded, FirstFds, FirstInOrder, FirstIntact
  <2> QED BY <1>2, <2>5, <2>11 DEF VerdictInv
<1> QED BY <1>3, <1>4

\* A pass speaks the truth of the link: the run's own messages came with
\* their capabilities, in order and intact (main and SeqChecker of ordering.rs).
LEMMA VerdictStep == VerdictInv /\ [Next]_vars => VerdictInv'
<1> SUFFICES ASSUME VerdictInv, [Next]_vars PROVE VerdictInv'
  OBVIOUS
<1>1. CASE UNCHANGED checkVars
  BY <1>1 DEF checkVars, counters, VerdictInv, CheckTypes, Counting, Loaded, CheckedFds,
              CheckedOrder, CheckedPayload, FirstFds, FirstInOrder, FirstIntact
<1>2. CASE OrderingStep \/ Blunder
  BY <1>2, QueueMoves, CountsKeeps, ChecksKeep, MainKeeps DEF OrderingStep
<1> QED
  BY <1>1, <1>2 DEF Next, ClientNext, FrameNext, BenchNext, CostNext, KidNext, BoundNext, KillNext,
     LinkNext, LinkFails, CheckNext, CheckFails, vars

\* PASS of ordering.rs means what it says: all messages with their capability,
\* and all but the last one in order and intact (ordering.rs:142).
THEOREM VerdictIsSound == Spec => []SoundVerdict
<1>1. VerdictInv => SoundVerdict
  <2> SUFFICES ASSUME VerdictInv, Passes
               PROVE  /\ Len(history) = MESSAGES
                      /\ FirstFds(MESSAGES) /\ FirstInOrder(MESSAGES - 1)
                      /\ FirstIntact(MESSAGES - 1)
    BY DEF SoundVerdict, FirstFds, FirstInOrder, FirstIntact
  <2>1. /\ Len(loads) = 4 /\ loads[1] = MESSAGES /\ loads[2] = 0 /\ loads[3] = 0
        /\ loads[4] = MESSAGES
    BY DEF VerdictInv, Loaded, Passes
  <2> QED BY <2>1 DEF VerdictInv, Loaded
<1> QED BY <1>1, CheckInit, VerdictStep, PTL DEF Spec
=============================================================================
