------------------------------ MODULE FdLimit -------------------------------
(***************************************************************************)
(* The descriptor limit of one process: fd_limit, set_fd_limit and         *)
(* maximize_fd_limit (wire.rs), and the two functions bench.rs has of its  *)
(* own.  All of them read RLIMIT_NOFILE with one system call and some      *)
(* write it with a second; threads of the process, and other processes     *)
(* that have the right to, come in between.                                *)
(*                                                                         *)
(* A limit is a number up to Infinity, the largest u64, which is what      *)
(* RLIM_INFINITY is.  A count is a number up to USIZE_MAX, which is the    *)
(* same number on a 64 bit target and a smaller one on a 32 bit target.    *)
(***************************************************************************)
EXTENDS Integers

CONSTANTS
  Threads,     \* threads of the process
  Infinity,    \* RLIM_INFINITY
  USIZE_MAX,   \* usize::MAX
  Privileged,  \* the process may raise its hard limit
  Others       \* what others do to the limits, see OthersDo

\* lower:  another process, or this one elsewhere, lowers either limit
\* raise:  a privileged process raises the hard limit (prlimit)
\* nropen: the administrator sets fs.nr_open
OthersDo == {"lower", "raise", "nropen"}

ASSUME FdLimitAssumption ==
  /\ Infinity \in Nat
  /\ USIZE_MAX \in 0 .. Infinity
  /\ Privileged \in BOOLEAN
  /\ Others \subseteq OthersDo

Limits == 0 .. Infinity
Counts == 0 .. USIZE_MAX

VARIABLES
  soft, hard,  \* the RLIMIT_NOFILE pair of the process
  nrOpen,      \* fs.nr_open
  call,        \* per thread: the function it is in, between its system calls
  arg,         \* per thread: the count set_fd_limit was called with
  request,     \* per thread: the pair it is about to write
  result,      \* per thread: how its last call returned
  count,       \* per thread: the count that call returned
  began,       \* history: the hard limit when the thread's call began
  saved        \* history: the soft limit at the thread's last fd_limit

limits == <<soft, hard, nrOpen>>
vars == <<limits, call, arg, request, result, count, began, saved>>

Calls   == {"none", "set", "maximize", "clamp"}
Results == {"none", "Ok", "EINVAL", "EPERM"}
NoRequest == [cur |-> 0, max |-> 0]

Init ==
  /\ hard \in Limits /\ soft \in 0 .. hard /\ nrOpen \in Limits
  /\ call = [t \in Threads |-> "none"]
  /\ arg = [t \in Threads |-> 0]
  /\ request = [t \in Threads |-> NoRequest]
  /\ result = [t \in Threads |-> "none"]
  /\ count = [t \in Threads |-> 0]
  /\ began = [t \in Threads |-> 0]
  /\ saved = [t \in Threads |-> 0]

\* None is RLIM_INFINITY for rustix, and so is the number u64::MAX.
AsCount(limit) == IF limit <= USIZE_MAX THEN limit ELSE USIZE_MAX
AsRlim_Some(n) == n
AsRlim(n) == IF n = USIZE_MAX THEN Infinity ELSE n

\* A call returns; what it had in hand is gone.
Return(t, outcome, n) ==
  /\ call' = [call EXCEPT ![t] = "none"]
  /\ arg' = [arg EXCEPT ![t] = 0]
  /\ request' = [request EXCEPT ![t] = NoRequest]
  /\ began' = [began EXCEPT ![t] = 0]
  /\ result' = [result EXCEPT ![t] = outcome]
  /\ count' = [count EXCEPT ![t] = n]

\* t is in `name', called with n, and will write the pair [cur, max].
Ask(t, name, n, cur, max) ==
  /\ call' = [call EXCEPT ![t] = name]
  /\ arg' = [arg EXCEPT ![t] = n]
  /\ request' = [request EXCEPT ![t] = [cur |-> cur, max |-> max]]
  /\ began' = [began EXCEPT ![t] = hard]
  /\ result' = [result EXCEPT ![t] = "none"]
  /\ count' = [count EXCEPT ![t] = 0]

Idle(t) == call[t] = "none"
AtMostHard(limit) == IF limit <= hard THEN limit ELSE hard

GetFdLimit(t) ==
  /\ Idle(t)
  /\ Return(t, "Ok", AsCount(soft))
  /\ saved' = [saved EXCEPT ![t] = soft]
  /\ UNCHANGED limits

\* set_fd_limit: the hard limit is read to be written back
SetFdLimit_Clamps(t, n) ==
  /\ Idle(t)
  /\ Ask(t, "set", n, AtMostHard(AsRlim(n)), hard)
  /\ UNCHANGED <<limits, saved>>
SetFdLimit_Both(t, n) ==
  /\ Idle(t)
  /\ Ask(t, "set", n, AsRlim(n), AsRlim(n))
  /\ UNCHANGED <<limits, saved>>
SetFdLimit(t, n) ==
  /\ Idle(t)
  /\ Ask(t, "set", n, AsRlim(n), hard)
  /\ UNCHANGED <<limits, saved>>

\* maximize_fd_limit: already at the ceiling, or a pair to write
MaximizeFdLimit(t) ==
  /\ Idle(t)
  /\ \/ soft = hard /\ Return(t, "Ok", AsCount(hard))
     \/ soft # hard /\ Ask(t, "maximize", 0, hard, hard)
  /\ UNCHANGED <<limits, saved>>

\* set_nofile_limit of bench.rs takes a u64, clamps it and looks at no result
SetNofileLimit(t, limit) ==
  /\ Idle(t)
  /\ Ask(t, "clamp", 0, AtMostHard(limit), hard)
  /\ UNCHANGED <<limits, saved>>

\* setrlimit: the kernel looks at the pair, then at fs.nr_open, then at the
\* privilege; it writes both limits or neither.
Refusal(r) ==
  CASE r.cur > r.max -> "EINVAL"
    [] r.cur <= r.max /\ r.max > nrOpen -> "EPERM"
    [] r.cur <= r.max /\ r.max <= nrOpen /\ r.max > hard /\ ~Privileged -> "EPERM"
    [] OTHER -> "Ok"

Setrlimit(t) ==
  LET r == request[t] IN
  /\ ~Idle(t)
  /\ \/ /\ Refusal(r) = "Ok"
        /\ soft' = r.cur /\ hard' = r.max
        /\ Return(t, "Ok", AsCount(r.cur))
     \/ /\ Refusal(r) # "Ok"
        /\ Return(t, Refusal(r), 0)
        /\ UNCHANGED <<soft, hard>>
  /\ UNCHANGED <<nrOpen, saved>>

\* Somebody else writes the pair or fs.nr_open.
Elsewhere ==
  /\ \/ /\ "lower" \in Others
        /\ \E h \in 0 .. hard : hard' = h /\ soft' \in 0 .. h
        /\ UNCHANGED nrOpen
     \/ /\ "raise" \in Others
        /\ hard' \in hard .. nrOpen
        /\ UNCHANGED <<soft, nrOpen>>
     \/ /\ "nropen" \in Others
        /\ nrOpen' \in Limits
        /\ UNCHANGED <<soft, hard>>
  /\ UNCHANGED <<call, arg, request, result, count, began, saved>>

Next ==
  \/ \E t \in Threads : \/ GetFdLimit(t) \/ MaximizeFdLimit(t) \/ Setrlimit(t)
                        \/ \E n \in Counts : SetFdLimit(t, n)
                        \/ \E limit \in Limits : SetNofileLimit(t, limit)
  \/ Elsewhere

Spec == Init /\ [][Next]_vars

-----------------------------------------------------------------------------
(***************************************************************************)
(* Properties.                                                             *)
(***************************************************************************)
\* Limits and counts are in range, and the kernel keeps soft below hard.
TypeOK ==
  /\ hard \in Limits /\ soft \in 0 .. hard /\ nrOpen \in Limits
  /\ call \in [Threads -> Calls]
  /\ arg \in [Threads -> Counts]
  /\ request \in [Threads -> [cur : Limits, max : Limits]]
  /\ result \in [Threads -> Results]
  /\ count \in [Threads -> Counts]
  /\ began \in [Threads -> Limits]
  /\ saved \in [Threads -> Limits]

\* t returns from the function `name' after its second system call
Returns(t, name, outcome) ==
  call[t] = name /\ call'[t] = "none" /\ result'[t] = outcome

\* What is left of "only the soft limit moves" (set_fd_limit) and of "the hard
\* limit is left alone" (maximize_fd_limit) when others come in between the
\* two system calls.  Neither holds as it is written there: the hard limit
\* that was read is written back, which takes back a raise that came in
\* between, for good.  But a call never raises the ceiling, and never lowers
\* it below where it stood when the call began.
CeilingIsAsRead ==
  [][\A t \in Threads :
       call[t] # "none" /\ call'[t] = "none"
         => hard' = hard \/ (hard' = began[t] /\ hard' < hard)]_vars

\* "set exactly `limit'", "rather than being clamped", "returns the new soft
\* limit, which on success is `limit'": Ok means that the limit asked for is
\* the one in force at that moment, and for maximize_fd_limit that there is
\* nothing left to raise.
ReportIsTrue ==
  [][\A t \in Threads :
       /\ Returns(t, "set", "Ok") => count'[t] = arg[t] /\ count'[t] = AsCount(soft')
       /\ Returns(t, "maximize", "Ok") => soft' = hard' /\ count'[t] = AsCount(soft')]_vars

\* A limit that was read with fd_limit and is set again later, with anything
\* in between, is not a lower one: the conversions lose nothing downwards
\* (as_count, as_rlim, usize::MAX for no limit).
SavedIsRestored ==
  [][\A t \in Threads :
       Returns(t, "set", "Ok") /\ arg[t] = AsCount(saved[t]) => soft' >= saved[t]]_vars
=============================================================================
