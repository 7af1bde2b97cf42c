--------------------------- MODULE NodeLifeProofs ---------------------------
(***************************************************************************)
(* What a node promises about its end holds for any number of holders,     *)
(* waiters and messages.  The inductive invariant adds to the promises     *)
(* that what was read so far was handled, unless the last read ended the   *)
(* loop, that the task owns everything until it ends, that what it owns    *)
(* goes in the order of its locals, and that only the drop of the handle   *)
(* aborts.                                                                 *)
(***************************************************************************)
EXTENDS NodeLife, TLAPS

Ended == task \in {"ending", "notify", "over"}

\* Every message read before the last had a payload and was handled, and the
\* last one was too unless it ended the loop.
Accounted ==
  /\ \A i \in 1 .. handled : sent[i] = "data"
  /\ cause # "Ok" => handled = read

\* The task keeps all it owns until it ends, and ends for a reason.
OwnsUntilEnd ==
  /\ ~Ended => left = Owned /\ cause = "none"
  /\ task = "notify" => "tombstone" \notin left
  /\ task = "over" => left = {}

\* The flag is up exactly when the tombstone is gone, and of a task that ran
\* the tombstone goes last.
GoesInOrder ==
  /\ dead <=> "tombstone" \notin left
  /\ polled /\ "entry" \notin left => "socket" \notin left
  /\ polled /\ "tombstone" \notin left => "entry" \notin left

\* Only a dropped handle aborts, and only a death notifies.
ForAReason ==
  /\ aborted => handle = "dropped"
  /\ notified # {} => dead

IInv ==
  /\ TypeOK
  /\ Accounted
  /\ OwnsUntilEnd
  /\ GoesInOrder
  /\ ForAReason
  /\ HangupIsComplete
  /\ NoFalseDeath

-----------------------------------------------------------------------------
\* A new node is held, has one ref, and its task has everything.
LEMMA InitHolds == Init => IInv
<1> SUFFICES ASSUME Init PROVE IInv
  OBVIOUS
<1>1. TypeOK
  <2>1. holders \subseteq Holders /\ notified \subseteq Waiters /\ left \subseteq Owned
    BY DEF Init
  <2>2. /\ sent \in Seq(Messages) /\ Len(sent) <= MaxSends /\ shut \subseteq Fragile
        /\ read \in 0 .. Len(sent) /\ handled \in 0 .. read
    BY NodeLifeAssumption DEF Init, Messages
  <2>3. polled \in BOOLEAN /\ aborted \in BOOLEAN /\ dead \in BOOLEAN
    BY DEF Init
  <2>4. waiter \in [Waiters -> WaiterPoints] /\ watcher \in [Holders -> WatcherPoints]
    BY DEF Init, WaiterPoints, WatcherPoints
  <2>5. /\ handle \in {"held", "service", "dropped"}
        /\ task \in TaskPoints /\ cause \in Causes
    BY DEF Init, Causes, TaskPoints
  <2> QED BY <2>1, <2>2, <2>3, <2>4, <2>5 DEF TypeOK
<1>2. Accounted /\ OwnsUntilEnd /\ GoesInOrder /\ ForAReason
  BY DEF Init, Accounted, OwnsUntilEnd, GoesInOrder, ForAReason, Ended, Open, Owned
<1>3. HangupIsComplete /\ NoFalseDeath
  BY DEF Init, HangupIsComplete, NoFalseDeath
<1> QED BY <1>1, <1>2, <1>3 DEF IInv

\* The owner drops the handle or gives it up.
LEMMA HandleKeeps ==
  ASSUME IInv, DropHandle \/ ToService
  PROVE  IInv'
<1>1. /\ UNCHANGED <<refVars, taskVars, deathVars, waiter, watchVars>>
      /\ handle = "held" /\ handle' \in {"service", "dropped"}
  BY DEF DropHandle, ToService
<1>2. aborted' \in BOOLEAN /\ (aborted' => aborted \/ handle' = "dropped")
  <2>1. CASE DropHandle
    BY <2>1 DEF DropHandle
  <2>2. CASE ToService
    <3>1. aborted' = aborted
      BY <2>2 DEF ToService
    <3> QED BY <3>1 DEF IInv, TypeOK
  <2> QED BY <2>1, <2>2
<1>3. TypeOK' /\ Accounted' /\ OwnsUntilEnd' /\ GoesInOrder'
  BY <1>1, <1>2
     DEF IInv, TypeOK, Accounted, OwnsUntilEnd, GoesInOrder, Ended, Open, refVars,
         taskVars, deathVars, watchVars
<1>4. ForAReason' /\ HangupIsComplete' /\ NoFalseDeath'
  BY <1>1, <1>2
     DEF IInv, ForAReason, HangupIsComplete, NoFalseDeath, Open,
         refVars, taskVars, deathVars, watchVars
<1> QED BY <1>3, <1>4 DEF IInv

\* Refs are handed on and dropped; without one there is none to hand on.
LEMMA RefKeeps ==
  ASSUME IInv, NEW h \in Holders,
         DropRef(h) \/ \E g \in Holders : HandOn(h, g)
  PROVE  IInv'
BY DEF DropRef, HandOn, IInv, TypeOK, Accounted, OwnsUntilEnd, GoesInOrder,
       ForAReason, HangupIsComplete, NoFalseDeath, Ended, Open,
       taskVars, deathVars, watchVars

\* A send needs a ref and an open socket, and leaves what was sent before.
LEMMA SendKeeps ==
  ASSUME IInv, NEW h \in Holders, NEW m \in Messages, Send(h, m)
  PROVE  IInv'
<1>0. /\ sent \in Seq(Messages) /\ Len(sent) \in Nat /\ Len(sent) < MaxSends
      /\ handled \in 0 .. Len(sent) /\ read \in 0 .. Len(sent)
  BY DEF Send, IInv, TypeOK
<1>1. /\ sent' \in Seq(Messages) /\ Len(sent') = Len(sent) + 1
      /\ \A i \in 1 .. Len(sent) : sent'[i] = sent[i]
  BY <1>0 DEF Send
<1>2. UNCHANGED <<handle, aborted, holders, read, handled, taskVars, deathVars,
                  waiter, watchVars>> /\ h \in holders
  BY DEF Send
<1>3. TypeOK'
  BY NodeLifeAssumption, <1>0, <1>1, <1>2
     DEF IInv, TypeOK, taskVars, deathVars, watchVars
<1>4. Accounted'
  BY <1>0, <1>1, <1>2 DEF IInv, Accounted, taskVars
<1>5. OwnsUntilEnd' /\ GoesInOrder' /\ ForAReason'
  BY <1>2 DEF IInv, OwnsUntilEnd, GoesInOrder, ForAReason, Ended, taskVars, deathVars
<1>6. HangupIsComplete' /\ NoFalseDeath'
  BY <1>0, <1>1, <1>2
     DEF IInv, HangupIsComplete, NoFalseDeath, Open, taskVars, deathVars, watchVars
<1> QED BY <1>3, <1>4, <1>5, <1>6 DEF IInv

-----------------------------------------------------------------------------
\* The task is polled, or resumes: it has not ended.
LEMMA PollKeeps ==
  ASSUME IInv, Poll \/ Resume
  PROVE  IInv'
<1>1. /\ UNCHANGED <<handle, aborted, refVars, left, cause, deathVars, waiter, watchVars>>
      /\ ~Ended /\ task' = "polling"
  BY DEF Poll, Resume, Ended
<1>2. polled' \in BOOLEAN
  BY DEF Poll, Resume, IInv, TypeOK
<1>3. TypeOK' /\ Accounted'
  BY <1>1, <1>2 DEF IInv, TypeOK, TaskPoints, Accounted, Open, refVars, deathVars, watchVars
<1>4. OwnsUntilEnd' /\ GoesInOrder' /\ ForAReason'
  BY <1>1 DEF IInv, OwnsUntilEnd, GoesInOrder, ForAReason, Ended, Owned, deathVars, watchVars
<1>5. HangupIsComplete' /\ NoFalseDeath'
  BY <1>1
     DEF IInv, HangupIsComplete, NoFalseDeath, Open, refVars,
         deathVars, watchVars
<1> QED BY <1>3, <1>4, <1>5 DEF IInv

\* A turn of the loop takes the next message, and ends the loop only at an
\* empty one or at the end of the socket.
LEMMA RecvKeeps ==
  ASSUME IInv, Recv
  PROVE  IInv'
<1>0. /\ task = "polling" /\ ~Ended /\ left = Owned /\ cause = "none"
      /\ handled = read /\ sent \in Seq(Messages) /\ Len(sent) \in Nat
      /\ read \in 0 .. Len(sent)
      /\ \A i \in 1 .. read : sent[i] = "data"
  BY DEF Recv, IInv, TypeOK, OwnsUntilEnd, Accounted, Ended
<1>1. UNCHANGED <<handle, aborted, holders, sent, polled, left, deathVars, waiter, watchVars>>
  BY DEF Recv
<1>2. task' \in {"calling", "recv", "ending"} /\ cause' \in {"none", "Ok", "io"}
      /\ (cause' # "none" => task' = "ending") /\ (task' = "ending" => cause' # "none")
  BY <1>0 DEF Recv, Receives, HungUp, WouldBlock, End
<1>3. /\ read' \in 0 .. Len(sent) /\ handled' \in 0 .. read'
      /\ \A i \in 1 .. handled' : sent[i] = "data"
      /\ cause' # "Ok" => handled' = read'
      /\ cause' = "Ok" => \/ holders = {} /\ handled' = Len(sent)
                          \/ handled' < Len(sent) /\ sent[handled' + 1] = "empty"
  <2>1. CASE Receives
    BY <1>0, <2>1 DEF Receives, Unread, End
  <2>2. CASE ~Unread /\ HungUp
    BY <1>0, <2>2 DEF HungUp, Unread, End
  <2>3. CASE WouldBlock
    BY <1>0, <2>3 DEF WouldBlock
  <2>4. CASE End("io") /\ UNCHANGED <<read, handled>>
    BY <1>0, <2>4 DEF End
  <2> QED BY <2>1, <2>2, <2>3, <2>4 DEF Recv
<1>4. TypeOK'
  BY <1>0, <1>1, <1>2, <1>3 DEF IInv, TypeOK, TaskPoints, Causes, deathVars, watchVars
<1>5. Accounted' /\ HangupIsComplete'
  BY <1>1, <1>3 DEF Accounted, HangupIsComplete
<1>6. OwnsUntilEnd' /\ GoesInOrder' /\ ForAReason'
  BY <1>0, <1>1, <1>2
     DEF IInv, OwnsUntilEnd, GoesInOrder, ForAReason, Ended, deathVars, watchVars
<1>7. NoFalseDeath'
  BY <1>1 DEF IInv, NoFalseDeath, Open, deathVars, watchVars
<1> QED BY <1>4, <1>5, <1>6, <1>7 DEF IInv

\* A handler returns, waits or panics; an abort cancels what is suspended.
LEMMA HandlerKeeps ==
  ASSUME IInv, Handle \/ Cancel
  PROVE  IInv'
BY DEF Handle, Cancel, End, Suspended, IInv, TypeOK, TaskPoints, Causes, Accounted,
       OwnsUntilEnd, GoesInOrder, ForAReason, HangupIsComplete,
       NoFalseDeath, Ended, Open, Owned, refVars, deathVars, watchVars

\* The socket closes: what was queued on it is lost.
LEMMA CloseSocketKeeps ==
  ASSUME IInv, CloseSocket
  PROVE  IInv'
<1>1. /\ UNCHANGED <<handle, aborted, refVars, task, polled, cause, deathVars, waiter,
                     watchVars>>
      /\ task = "ending" /\ left' = left \ {"socket"}
  BY DEF CloseSocket
<1>2. TypeOK' /\ Accounted' /\ HangupIsComplete'
  BY <1>1
     DEF IInv, TypeOK, Accounted, HangupIsComplete, refVars, deathVars, watchVars
<1>3. OwnsUntilEnd' /\ GoesInOrder' /\ ForAReason'
  BY <1>1 DEF IInv, OwnsUntilEnd, GoesInOrder, ForAReason, Ended, deathVars
<1>4. NoFalseDeath'
  BY <1>1 DEF IInv, NoFalseDeath, Open, deathVars, watchVars
<1> QED BY <1>2, <1>3, <1>4 DEF IInv

\* The entry goes after the socket, and the tombstone after the entry.
LEMMA DropRestKeeps ==
  ASSUME IInv, Unfile \/ Declare
  PROVE  IInv'
<1>1. TypeOK' /\ Accounted'
  BY DEF Unfile, Declare, IInv, TypeOK, TaskPoints, Accounted, refVars, deathVars,
         watchVars
<1>2. OwnsUntilEnd' /\ GoesInOrder'
  BY DEF Unfile, Declare, MayDrop, IInv, TypeOK, OwnsUntilEnd, GoesInOrder, Ended, Owned,
         deathVars, watchVars
<1>3. ForAReason' /\ HangupIsComplete' /\ NoFalseDeath'
  BY DEF Unfile, Declare, IInv, ForAReason, HangupIsComplete,
         NoFalseDeath, Open, refVars, deathVars, watchVars
<1> QED BY <1>1, <1>2, <1>3 DEF IInv

\* The waiters are notified after the flag is up, and the task is over when it
\* has nothing left.
LEMMA NotifyKeeps ==
  ASSUME IInv, NotifyWaiters \/ Finish
  PROVE  IInv'
<1>1. /\ UNCHANGED <<handle, aborted, refVars, polled, left, cause, dead, waiter, watchVars>>
      /\ Ended /\ task' \in {"ending", "over"} /\ (task' = "over" => left = {})
      /\ notified' \subseteq Waiters
  BY DEF NotifyWaiters, Finish, Ended, deathVars, watchVars, IInv, TypeOK
<1>2. notified' # {} => dead
  <2>1. CASE NotifyWaiters
    BY <2>1 DEF NotifyWaiters, IInv, OwnsUntilEnd, GoesInOrder
  <2>2. CASE Finish
    BY <2>2 DEF Finish, deathVars, watchVars, IInv, ForAReason
  <2> QED BY <2>1, <2>2
<1>3. TypeOK' /\ Accounted'
  BY <1>1 DEF IInv, TypeOK, TaskPoints, Accounted, Open, refVars, watchVars
<1>4. OwnsUntilEnd' /\ GoesInOrder' /\ ForAReason'
  BY <1>1, <1>2 DEF IInv, OwnsUntilEnd, GoesInOrder, ForAReason, Ended
<1>5. HangupIsComplete' /\ NoFalseDeath'
  BY <1>1 DEF IInv, HangupIsComplete, NoFalseDeath, Open, refVars, watchVars
<1> QED BY <1>3, <1>4, <1>5 DEF IInv

-----------------------------------------------------------------------------
\* A wait returns on the flag or on a notification, which comes after it.
LEMMA WaiterKeeps ==
  ASSUME IInv, NEW w \in Waiters, Enable(w) \/ CheckDead(w) \/ Woken(w)
  PROVE  IInv'
BY DEF Enable, CheckDead, Woken, IInv, TypeOK, WaiterPoints, Accounted, OwnsUntilEnd,
       GoesInOrder, ForAReason, HangupIsComplete, NoFalseDeath,
       Ended, Open, refVars, taskVars, deathVars, watchVars

\* A death watch returns only on a socket that is closed, or when its runtime
\* has gone.
LEMMA WatcherKeeps ==
  ASSUME IInv, NEW h \in Holders,
         \/ AskKernel(h) \/ Register(h) \/ Hangup(h) \/ GiveUp(h)
         \/ RuntimeGoes(h)
  PROVE  IInv'
BY DEF AskKernel, Register, Hangup, GiveUp, RuntimeGoes, IInv, TypeOK, WatcherPoints,
       Accounted, OwnsUntilEnd, GoesInOrder, ForAReason, HangupIsComplete,
       NoFalseDeath, Ended, Open, refVars, taskVars, deathVars, watchVars

\* Every step keeps the invariant.
LEMMA StepKeeps == ASSUME IInv, [Next]_vars PROVE IInv'
<1>1. CASE UNCHANGED vars
  BY <1>1
     DEF vars, refVars, taskVars, deathVars, watchVars, IInv, TypeOK, Accounted, OwnsUntilEnd,
         GoesInOrder, ForAReason, HangupIsComplete, NoFalseDeath,
         Ended, Open
<1>2. ASSUME NEW h \in Holders,
             \/ \E g \in Holders : HandOn(h, g)
             \/ \E m \in Messages : Send(h, m)
             \/ DropRef(h)
             \/ AskKernel(h) \/ Register(h) \/ Hangup(h) \/ GiveUp(h)
             \/ RuntimeGoes(h)
      PROVE  IInv'
  BY <1>2, RefKeeps, SendKeeps, WatcherKeeps
<1>3. CASE TaskStep
  BY <1>3, PollKeeps, RecvKeeps, HandlerKeeps, CloseSocketKeeps, DropRestKeeps,
     NotifyKeeps DEF TaskStep
<1>4. ASSUME NEW w \in Waiters, Enable(w) \/ CheckDead(w) \/ Woken(w)
      PROVE  IInv'
  BY <1>4, WaiterKeeps
<1> QED BY <1>1, <1>2, <1>3, <1>4, HandleKeeps DEF Next, Idle

-----------------------------------------------------------------------------
\* The invariant holds in every reachable state (Node::new_raw, recv_loop).
THEOREM NodeInvariant == Spec => []IInv
<1>1. IInv /\ [Next]_vars => IInv'
  BY StepKeeps
<1> QED BY <1>1, InitHolds, PTL DEF Spec

\* The state keeps its types, and no more is handled than was sent.
THEOREM NodeTypeCorrect == Spec => []TypeOK
<1>1. IInv => TypeOK
  BY DEF IInv
<1> QED BY <1>1, NodeInvariant, PTL

\* A loop that returned Ok has handled all that was sent, or all that came
\* before an empty message (recv_loop).
THEOREM HangupHandlesAll == Spec => []HangupIsComplete
<1>1. IInv => HangupIsComplete
  BY DEF IInv
<1> QED BY <1>1, NodeInvariant, PTL

\* A node that ran and is dead has hung up and is not found any more (the
\* order of the task's locals in Node::new_raw).
THEOREM DeadHasHungUp == Spec => []DeadMeansHungUp
<1>1. IInv => DeadMeansHungUp
  BY DEF IInv, GoesInOrder, DeadMeansHungUp
<1> QED BY <1>1, NodeInvariant, PTL

\* A wait for the node's death returns only after it, or when the runtime of
\* the one who waits has gone (Death::wait, Ref::death_notification).
THEOREM DeathIsTrue == Spec => []NoFalseDeath
<1>1. IInv => NoFalseDeath
  BY DEF IInv
<1> QED BY <1>1, NodeInvariant, PTL

\* Nothing is handled once the node is dead, and it stays dead (Node::is_dead).
THEOREM DeadHandlesNothing == Spec => DeadIsQuiet
<1>1. ASSUME IInv, Next, dead PROVE dead' /\ UNCHANGED handled
  <2>1. task # "polling"
    BY <1>1 DEF IInv, OwnsUntilEnd, GoesInOrder, Ended, Owned
  <2> QED
    BY <1>1, <2>1
       DEF Next, DropHandle, ToService, HandOn, DropRef, Send, AskKernel, Register,
           Hangup, GiveUp, RuntimeGoes, TaskStep, Poll, Recv, Handle, Resume, Cancel,
           CloseSocket, Unfile, Declare, NotifyWaiters, Finish, Enable, CheckDead, Woken, Idle,
           refVars, deathVars, watchVars, vars
<1>2. IInv /\ [Next]_vars => [dead => dead' /\ UNCHANGED handled]_vars
  BY <1>1
<1> QED BY <1>2, NodeInvariant, PTL DEF Spec, DeadIsQuiet
=============================================================================
