--------------------------- MODULE FdLimitProofs ----------------------------
(***************************************************************************)
(* Proofs about FdLimit: its types, and its three action properties, for   *)
(* any number of threads, any width of usize and any limits.  The          *)
(* invariant says what a thread that is between its two system calls is    *)
(* about to write, in terms of what it was asked and of the hard limit     *)
(* that it saw.                                                            *)
(***************************************************************************)
EXTENDS FdLimit, TLAPS

Pending ==
  \A t \in Threads : call[t] # "none" =>
    /\ request[t].max = began[t]
    /\ call[t] = "set" => request[t].cur = AsRlim(arg[t])
    /\ call[t] = "maximize" => request[t].cur = request[t].max

IInv == TypeOK /\ Pending

\* The two conversions agree on every count, and lose nothing downwards.
LEMMA CountRoundTrip ==
  ASSUME NEW n \in Counts
  PROVE  AsRlim(n) \in Limits /\ AsCount(AsRlim(n)) = n
BY FdLimitAssumption DEF AsCount, AsRlim, Counts, Limits

LEMMA RlimRoundTrip ==
  ASSUME NEW v \in Limits
  PROVE  AsCount(v) \in Counts /\ AsRlim(AsCount(v)) >= v
BY FdLimitAssumption DEF AsCount, AsRlim, Counts, Limits

\* What each call leaves in the thread's own variables.
LEMMA ReturnOK ==
  ASSUME IInv, NEW t \in Threads, NEW outcome \in Results, NEW n \in Counts,
         Return(t, outcome, n), saved' \in [Threads -> Limits],
         hard' \in Limits, soft' \in 0 .. hard', nrOpen' \in Limits
  PROVE  IInv'
<1>0. 0 \in Limits /\ 0 \in Counts /\ NoRequest \in [cur : Limits, max : Limits]
  BY FdLimitAssumption DEF NoRequest, Limits, Counts
<1>1. TypeOK'
  BY <1>0 DEF IInv, TypeOK, Return, Calls
<1>2. Pending'
  BY DEF IInv, TypeOK, Pending, Return, AsRlim
<1> QED BY <1>1, <1>2 DEF IInv

LEMMA AskOK ==
  ASSUME IInv, NEW t \in Threads, NEW name \in Calls, NEW n \in Counts,
         NEW cur \in Limits, Ask(t, name, n, cur, hard),
         name = "set" => cur = AsRlim(n), name = "maximize" => cur = hard,
         UNCHANGED <<limits, saved>>
  PROVE  IInv'
<1>1. TypeOK'
  BY FdLimitAssumption DEF IInv, TypeOK, Ask, Results, Limits, Counts, limits
<1>2. Pending'
  BY DEF IInv, TypeOK, Pending, Ask, AsRlim
<1> QED BY <1>1, <1>2 DEF IInv

\* The kernel admits a pair only with the soft limit below the hard one, and
\* without privilege only below the hard limit in force.
LEMMA RefusalOK ==
  ASSUME IInv, NEW t \in Threads
  PROVE  /\ Refusal(request[t]) \in Results
         /\ Refusal(request[t]) = "Ok" =>
              /\ request[t].cur <= request[t].max
              /\ ~Privileged => request[t].max <= hard
BY FdLimitAssumption DEF IInv, TypeOK, Refusal, Results, Limits

LEMMA InitOK == Init => IInv
<1> SUFFICES ASSUME Init PROVE IInv OBVIOUS
<1> USE FdLimitAssumption DEF Init
<1>1. TypeOK
  BY DEF TypeOK, Calls, Results, NoRequest, Limits, Counts
<1>2. Pending
  BY DEF Pending
<1> QED BY <1>1, <1>2 DEF IInv

LEMMA NextOK == IInv /\ [Next]_vars => IInv'
<1> SUFFICES ASSUME IInv, [Next]_vars PROVE IInv' OBVIOUS
<1>t. TypeOK /\ soft \in Limits /\ soft <= hard
  BY FdLimitAssumption DEF IInv, TypeOK, Limits
<1>1. ASSUME NEW t \in Threads, GetFdLimit(t) PROVE IInv'
  <2>1. AsCount(soft) \in Counts BY <1>t, RlimRoundTrip
  <2>2. saved' \in [Threads -> Limits] BY <1>t, <1>1 DEF GetFdLimit, TypeOK
  <2> QED BY <1>t, <1>1, <2>1, <2>2, ReturnOK DEF GetFdLimit, TypeOK, limits, Results
<1>2. ASSUME NEW t \in Threads, MaximizeFdLimit(t) PROVE IInv'
  <2>1. hard \in Limits /\ AsCount(hard) \in Counts
    BY <1>t, RlimRoundTrip DEF TypeOK
  <2>2. CASE Return(t, "Ok", AsCount(hard))
    BY <1>t, <1>2, <2>1, <2>2, ReturnOK DEF MaximizeFdLimit, TypeOK, limits, Results
  <2>3. CASE Ask(t, "maximize", 0, hard, hard)
    <3>1. 0 \in Counts BY FdLimitAssumption DEF Counts
    <3> QED BY <1>2, <2>1, <2>3, <3>1, AskOK DEF MaximizeFdLimit, Calls
  <2> QED BY <1>2, <2>2, <2>3 DEF MaximizeFdLimit
<1>3. ASSUME NEW t \in Threads, Setrlimit(t) PROVE IInv'
  <2>1. request[t].cur \in Limits /\ request[t].max \in Limits
    BY <1>t DEF TypeOK
  <2>2. CASE Refusal(request[t]) = "Ok"
    <3>1. AsCount(request[t].cur) \in Counts BY <2>1, RlimRoundTrip
    <3>2. /\ Return(t, "Ok", AsCount(request[t].cur))
          /\ hard' \in Limits /\ soft' \in 0 .. hard' /\ nrOpen' \in Limits
          /\ saved' \in [Threads -> Limits]
      BY <1>t, <1>3, <2>1, <2>2, RefusalOK DEF Setrlimit, TypeOK, Limits
    <3> QED BY <3>1, <3>2, ReturnOK DEF Results
  <2>3. CASE Refusal(request[t]) # "Ok"
    <3>1. 0 \in Counts BY FdLimitAssumption DEF Counts
    <3>2. /\ Return(t, Refusal(request[t]), 0)
          /\ hard' \in Limits /\ soft' \in 0 .. hard' /\ nrOpen' \in Limits
          /\ saved' \in [Threads -> Limits]
      BY <1>t, <1>3, <2>3 DEF Setrlimit, TypeOK
    <3> QED BY <3>1, <3>2, RefusalOK, ReturnOK
  <2> QED BY <2>2, <2>3
<1>4. ASSUME NEW t \in Threads, NEW n \in Counts, SetFdLimit(t, n) PROVE IInv'
  BY <1>4, CountRoundTrip, AskOK DEF SetFdLimit, Calls
<1>5. ASSUME NEW t \in Threads, NEW limit \in Limits, SetNofileLimit(t, limit)
      PROVE  IInv'
  <2>1. AtMostHard(limit) \in Limits BY <1>t DEF AtMostHard, TypeOK
  <2>2. 0 \in Counts BY FdLimitAssumption DEF Counts
  <2> QED BY <1>5, <2>1, <2>2, AskOK DEF SetNofileLimit, Calls
<1>6. CASE Elsewhere
  <2>1. hard' \in Limits /\ soft' \in 0 .. hard' /\ nrOpen' \in Limits
    BY <1>t, <1>6, FdLimitAssumption DEF Elsewhere, TypeOK, Limits
  <2> QED BY <1>6, <2>1 DEF Elsewhere, IInv, TypeOK, Pending
<1>7. CASE UNCHANGED vars
  BY <1>7 DEF vars, limits, IInv, TypeOK, Pending
<1> QED BY <1>1, <1>2, <1>3, <1>4, <1>5, <1>6, <1>7 DEF Next

\* What a thread is about to write is what its function said it would.
THEOREM FdLimitInvariant == Spec => []IInv
BY InitOK, NextOK, PTL DEF Spec

\* Types, and a soft limit that stays below the hard one.
THEOREM FdLimitTypeCorrect == Spec => []TypeOK
<1>1. IInv => TypeOK BY DEF IInv
<1> QED BY <1>1, FdLimitInvariant, PTL

\* Only Setrlimit brings a thread back from between its two system calls.
LEMMA OnlySetrlimitReturns ==
  ASSUME IInv, [Next]_vars, NEW t \in Threads, call[t] # "none", call'[t] = "none"
  PROVE  Setrlimit(t)
<1>1. ASSUME NEW u \in Threads, GetFdLimit(u) PROVE FALSE
  BY <1>1 DEF GetFdLimit, Idle, Return, IInv, TypeOK
<1>2. ASSUME NEW u \in Threads, MaximizeFdLimit(u) PROVE FALSE
  BY <1>2 DEF MaximizeFdLimit, Idle, Return, Ask, IInv, TypeOK
<1>3. ASSUME NEW u \in Threads, Setrlimit(u) PROVE u = t
  BY <1>3 DEF Setrlimit, Return, IInv, TypeOK
<1>4. ASSUME NEW u \in Threads, NEW n \in Counts, SetFdLimit(u, n) PROVE FALSE
  BY <1>4 DEF SetFdLimit, Idle, Ask, IInv, TypeOK
<1>5. ASSUME NEW u \in Threads, NEW limit \in Limits, SetNofileLimit(u, limit)
      PROVE  FALSE
  BY <1>5 DEF SetNofileLimit, Idle, Ask, IInv, TypeOK
<1>6. ~Elsewhere /\ ~UNCHANGED vars BY DEF Elsewhere, vars
<1> QED BY <1>1, <1>2, <1>3, <1>4, <1>5, <1>6 DEF Next

\* A call never raises the hard limit, and lowers it only to where it was
\* when the call began (set_fd_limit, maximize_fd_limit).  The process must
\* be without the privilege that would let it.
THEOREM CeilingNeverElsewhere == ASSUME ~Privileged PROVE Spec => CeilingIsAsRead
<1>1. ASSUME IInv, [Next]_vars, NEW t \in Threads,
             call[t] # "none", call'[t] = "none"
      PROVE  hard' = hard \/ (hard' = began[t] /\ hard' < hard)
  <2>1. Setrlimit(t) BY <1>1, OnlySetrlimitReturns
  <2>2. CASE Refusal(request[t]) = "Ok"
    <3>1. hard' = request[t].max /\ request[t].max = began[t]
      BY <1>1, <2>1, <2>2 DEF Setrlimit, IInv, Pending
    <3>2. request[t].max <= hard BY <1>1, <2>2, RefusalOK
    <3>3. request[t].max \in Int /\ hard \in Int
      BY <1>1, FdLimitAssumption DEF IInv, TypeOK, Limits
    <3> QED BY <3>1, <3>2, <3>3
  <2>3. CASE Refusal(request[t]) # "Ok"
    BY <2>1, <2>3 DEF Setrlimit
  <2> QED BY <2>2, <2>3
<1>2. IInv /\ [Next]_vars =>
        [\A t \in Threads :
           call[t] # "none" /\ call'[t] = "none"
             => hard' = hard \/ (hard' = began[t] /\ hard' < hard)]_vars
  BY <1>1
<1> QED BY <1>2, FdLimitInvariant, PTL DEF Spec, CeilingIsAsRead

\* Ok is true: what was asked for is in force when the call returns, and a
\* caller that restores a limit it read gets no less than it had.
LEMMA ReturnsTrue ==
  ASSUME IInv, [Next]_vars, NEW t \in Threads
  PROVE  /\ Returns(t, "set", "Ok") => count'[t] = arg[t] /\ count'[t] = AsCount(soft')
         /\ Returns(t, "maximize", "Ok") => soft' = hard' /\ count'[t] = AsCount(soft')
         /\ Returns(t, "set", "Ok") /\ arg[t] = AsCount(saved[t]) => soft' >= saved[t]
<1> SUFFICES ASSUME NEW name \in {"set", "maximize"}, Returns(t, name, "Ok")
             PROVE  /\ count'[t] = AsCount(soft')
                    /\ name = "set" => /\ count'[t] = arg[t]
                                       /\ arg[t] = AsCount(saved[t]) => soft' >= saved[t]
                    /\ name = "maximize" => soft' = hard'
  BY DEF Returns
<1>1. call[t] = name /\ call'[t] = "none" /\ result'[t] = "Ok" BY DEF Returns
<1>2. Setrlimit(t) BY <1>1, OnlySetrlimitReturns
<1>3. Refusal(request[t]) = "Ok"
  BY <1>1, <1>2 DEF Setrlimit, Return, IInv, TypeOK
<1>4. /\ soft' = request[t].cur /\ hard' = request[t].max
      /\ count'[t] = AsCount(request[t].cur)
  BY <1>2, <1>3 DEF Setrlimit, Return, IInv, TypeOK
<1>5. arg[t] \in Counts /\ saved[t] \in Limits BY DEF IInv, TypeOK
<1>6. name = "set" => request[t].cur = AsRlim(arg[t]) BY <1>1 DEF IInv, Pending
<1>7. name = "maximize" => request[t].cur = request[t].max
  BY <1>1 DEF IInv, Pending
<1> QED BY <1>4, <1>5, <1>6, <1>7, CountRoundTrip, RlimRoundTrip

THEOREM ReportsAreTrue == Spec => ReportIsTrue
<1>1. IInv /\ [Next]_vars =>
        [\A t \in Threads :
           /\ Returns(t, "set", "Ok") => count'[t] = arg[t] /\ count'[t] = AsCount(soft')
           /\ Returns(t, "maximize", "Ok") => soft' = hard' /\ count'[t] = AsCount(soft')]_vars
  BY ReturnsTrue
<1> QED BY <1>1, FdLimitInvariant, PTL DEF Spec, ReportIsTrue

\* Reading the limit and setting it again loses nothing (SavedIsRestored).
THEOREM RestoreLosesNothing == Spec => SavedIsRestored
<1>1. IInv /\ [Next]_vars =>
        [\A t \in Threads :
           Returns(t, "set", "Ok") /\ arg[t] = AsCount(saved[t]) => soft' >= saved[t]]_vars
  BY ReturnsTrue
<1> QED BY <1>1, FdLimitInvariant, PTL DEF Spec, SavedIsRestored
=============================================================================
