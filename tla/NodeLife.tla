------------------------------ MODULE NodeLife ------------------------------
(***************************************************************************)
(* The life of one node: the Node handle, the task that runs its receive   *)
(* loop, the refs that reach it, the Death latch its owner waits on and    *)
(* the hangup that the holders of its refs wait on.                        *)
(*                                                                         *)
(* The task runs when the runtime polls it and can be cancelled only where *)
(* it is suspended.  What it owns (the socket, the entry under             *)
(* local-handlers, the tombstone) goes one by one when it ends, and other  *)
(* threads can look in between.                                            *)
(***************************************************************************)
EXTENDS Naturals, FiniteSets, Sequences

CONSTANTS
  Holders,    \* tasks of any process that can hold a Ref to the node
  Waiters,    \* tasks that may await Node::death_notification
  Fragile,    \* those whose runtime may shut down while they wait
  MaxSends,   \* bound: messages sent in all
  Faults      \* external events admitted, see ExternalFaults

\* panic:    a handler panics        io: recvmsg fails on the node's socket
\* register: the reactor refuses the socket of a death watch
\* poll:     ppoll fails
ExternalFaults == {"panic", "io", "register", "poll"}

ASSUME NodeLifeAssumption ==
  /\ Fragile \subseteq Holders
  /\ MaxSends \in Nat
  /\ Faults \subseteq ExternalFaults

VARIABLES
  handle,    \* the Node: "held", "service" after to_service, or "dropped"
  holders,   \* who holds a Ref
  sent,      \* the messages that got into the socket buffer, in order
  read,      \* how many of them the loop has taken off it
  handled,   \* history: how many it has given to the handler
  task,      \* where the task of the receive loop is
  polled,    \* it ran at least once
  aborted,   \* the abort handle was used
  left,      \* what the task still owns
  cause,     \* history: why the loop ended
  dead,      \* Death::dead
  notified,  \* waiters that notify_waiters has reached
  waiter,    \* where each waiter is in Death::wait
  watcher,   \* where each holder is in Ref::death_notification
  shut       \* the holders whose runtime has gone, and the reactor with it

refVars   == <<holders, sent, read, handled>>
taskVars  == <<task, polled, left, cause>>
deathVars == <<dead, notified>>
watchVars == <<watcher, shut>>
vars == <<handle, aborted, refVars, taskVars, deathVars, waiter, watchVars>>

\* A message has a payload, or it is empty: a read of length zero, as at the
\* end of the socket.
Messages == {"data", "empty"}

\* Suspended: unpolled, recv, handler.  Running: polling (at recv), calling
\* (in the handler).  Then ending, notify (the flag is set) and over.
TaskPoints    == {"unpolled", "recv", "handler", "polling", "calling",
                  "ending", "notify", "over"}
Suspended     == {"unpolled", "recv", "handler"}
Owned         == {"socket", "entry", "tombstone"}
Causes        == {"none", "Ok", "abort", "panic", "io"}
WaiterPoints  == {"idle", "enabled", "parked", "returned"}
WatcherPoints == {"idle", "asked", "watching", "never", "returned"}

\* Node::new: a socketpair, the ref, the entry, and the task is spawned.
Init ==
  /\ handle = "held"
  /\ \E h \in Holders : holders = {h}
  /\ sent = <<>>
  /\ read = 0
  /\ handled = 0
  /\ task = "unpolled"
  /\ polled = FALSE
  /\ aborted = FALSE
  /\ left = Owned
  /\ cause = "none"
  /\ dead = FALSE
  /\ notified = {}
  /\ waiter = [w \in Waiters |-> "idle"]
  /\ watcher = [h \in Holders |-> "idle"]
  /\ shut = {}

\* the node's end of the socket is open
Open == "socket" \in left

\* there are messages in the socket buffer
Unread == read < Len(sent)

-----------------------------------------------------------------------------
(***************************************************************************)
(* The handle.                                                             *)
(***************************************************************************)
Awaited == \E w \in Waiters : waiter[w] \in {"enabled", "parked"}

\* AbortOnDrop
DropHandle_Declares ==
  /\ handle = "held"
  /\ ~Awaited
  /\ handle' = "dropped"
  /\ aborted' = TRUE
  /\ dead' = TRUE
  /\ UNCHANGED <<refVars, taskVars, notified, waiter, watchVars>>
DropHandle_Detaches ==
  /\ handle = "held"
  /\ ~Awaited
  /\ handle' = "dropped"
  /\ UNCHANGED <<aborted, refVars, taskVars, deathVars, waiter, watchVars>>
DropHandle ==
  /\ handle = "held"
  /\ ~Awaited
  /\ handle' = "dropped"
  /\ aborted' = TRUE
  /\ UNCHANGED <<refVars, taskVars, deathVars, waiter, watchVars>>

\* Node::to_service detaches the abort handle.
ToService_StaysArmed ==
  /\ handle = "held"
  /\ ~Awaited
  /\ handle' = "service"
  /\ aborted' = TRUE
  /\ UNCHANGED <<refVars, taskVars, deathVars, waiter, watchVars>>
ToService ==
  /\ handle = "held"
  /\ ~Awaited
  /\ handle' = "service"
  /\ UNCHANGED <<aborted, refVars, taskVars, deathVars, waiter, watchVars>>

-----------------------------------------------------------------------------
(***************************************************************************)
(* The refs.                                                               *)
(***************************************************************************)
\* A ref is cloned, or goes to another process on a message.
HandOn(h, g) ==
  /\ h \in holders
  /\ g \notin holders
  /\ holders' = holders \cup {g}
  /\ UNCHANGED <<handle, aborted, sent, read, handled, taskVars, deathVars,
                 waiter, watchVars>>

\* A watcher borrows its ref for as long as it waits.
DropRef(h) ==
  /\ h \in holders
  /\ watcher[h] \in {"idle", "returned"}
  /\ holders' = holders \ {h}
  /\ UNCHANGED <<handle, aborted, sent, read, handled, taskVars, deathVars,
                 waiter, watchVars>>

Send(h, m) ==
  /\ h \in holders
  /\ Open
  /\ Len(sent) < MaxSends
  /\ sent' = Append(sent, m)
  /\ UNCHANGED <<handle, aborted, holders, read, handled, taskVars, deathVars,
                 waiter, watchVars>>

-----------------------------------------------------------------------------
(***************************************************************************)
(* The task: recv_loop under tokio.                                        *)
(***************************************************************************)
End(why) ==
  /\ task' = "ending"
  /\ cause' = why

\* The runtime polls the task when something it waits for has happened.
Poll ==
  /\ ~aborted
  /\ \/ task = "unpolled"
     \/ task = "recv" /\ (Unread \/ holders = {} \/ "io" \in Faults)
  /\ task' = "polling"
  /\ polled' = TRUE
  /\ UNCHANGED <<handle, aborted, refVars, left, cause, deathVars, waiter, watchVars>>

\* recvmsg takes the next message, or returns zero at the end of the socket.
\* An empty message returns zero too: what is queued behind it is not read.
Receives ==
  /\ Unread
  /\ read' = read + 1
  /\ \/ /\ sent[read + 1] = "data"
        /\ handled' = handled + 1
        /\ task' = "calling"
        /\ UNCHANGED cause
     \/ /\ sent[read + 1] = "empty"
        /\ End("Ok")
        /\ UNCHANGED handled
HungUp ==
  /\ holders = {}
  /\ End("Ok")
  /\ UNCHANGED <<read, handled>>
WouldBlock ==
  /\ ~Unread
  /\ holders # {}
  /\ task' = "recv"
  /\ UNCHANGED <<read, handled, cause>>

\* One turn of the loop: a message, a zero-length read, an error, or nothing.
Recv_HangupFirst ==
  /\ task = "polling"
  /\ (Receives /\ holders # {}) \/ HungUp \/ WouldBlock
  /\ UNCHANGED <<handle, aborted, holders, sent, polled, left, deathVars,
                 waiter, watchVars>>
Recv_PinnedOpen ==
  /\ task = "polling"
  /\ \/ Receives
     \/ ~Unread /\ task' = "recv" /\ UNCHANGED <<read, handled, cause>>
  /\ UNCHANGED <<handle, aborted, holders, sent, polled, left, deathVars,
                 waiter, watchVars>>
Recv ==
  /\ task = "polling"
  /\ \/ Receives
     \/ ~Unread /\ HungUp
     \/ WouldBlock
     \/ "io" \in Faults /\ End("io") /\ UNCHANGED <<read, handled>>
  /\ UNCHANGED <<handle, aborted, holders, sent, polled, left, deathVars,
                 waiter, watchVars>>

\* The handler is done, waits for something, or panics.
Handle ==
  /\ task = "calling"
  /\ \/ task' = "polling" /\ UNCHANGED cause
     \/ task' = "handler" /\ UNCHANGED cause
     \/ "panic" \in Faults /\ End("panic")
  /\ UNCHANGED <<handle, aborted, refVars, polled, left, deathVars, waiter, watchVars>>

\* What the handler waited for has happened, and it returns.
Resume ==
  /\ ~aborted
  /\ task = "handler"
  /\ task' = "polling"
  /\ UNCHANGED <<handle, aborted, refVars, polled, left, cause, deathVars,
                 waiter, watchVars>>

\* An abort takes effect where the task is suspended.
Cancel ==
  /\ aborted
  /\ task \in Suspended
  /\ End("abort")
  /\ UNCHANGED <<handle, aborted, refVars, polled, left, deathVars, waiter, watchVars>>

\* What the task may drop next.  The locals of a task that ran go in reverse
\* order: recv_loop's socket, _local, _tombstone.  One that never ran still
\* has them as captures, and no order among those is relied upon.
MayDrop_TombstoneFirst(x) ==
  /\ x \in left
  /\ polled => CASE x = "tombstone" -> TRUE
                 [] x = "socket"    -> "tombstone" \notin left
                 [] x = "entry"     -> "socket" \notin left
MayDrop(x) ==
  /\ x \in left
  /\ polled => CASE x = "socket"    -> TRUE
                 [] x = "entry"     -> "socket" \notin left
                 [] x = "tombstone" -> "entry" \notin left

\* The node's end closes; what was not received is lost.
CloseSocket ==
  /\ task = "ending"
  /\ MayDrop("socket")
  /\ left' = left \ {"socket"}
  /\ UNCHANGED <<handle, aborted, refVars, task, polled, cause, deathVars,
                 waiter, watchVars>>

\* LocalEntry::drop
Unfile ==
  /\ task = "ending"
  /\ MayDrop("entry")
  /\ left' = left \ {"entry"}
  /\ UNCHANGED <<handle, aborted, refVars, task, polled, cause, deathVars,
                 waiter, watchVars>>

\* Tombstone::drop calls Death::declare: store, then notify_waiters.
Declare ==
  /\ task = "ending"
  /\ MayDrop("tombstone")
  /\ left' = left \ {"tombstone"}
  /\ dead' = TRUE
  /\ task' = "notify"
  /\ UNCHANGED <<handle, aborted, refVars, polled, cause, notified, waiter, watchVars>>

NotifyWaiters_JustOne ==
  /\ task = "notify"
  /\ \/ \E w \in Waiters : /\ waiter[w] \in {"enabled", "parked"}
                           /\ notified' = {w}
     \/ ~Awaited /\ UNCHANGED notified
  /\ task' = "ending"
  /\ UNCHANGED <<handle, aborted, refVars, polled, left, cause, dead, waiter, watchVars>>
NotifyWaiters ==
  /\ task = "notify"
  /\ notified' = {w \in Waiters : waiter[w] \in {"enabled", "parked"}}
  /\ task' = "ending"
  /\ UNCHANGED <<handle, aborted, refVars, polled, left, cause, dead, waiter, watchVars>>

Finish ==
  /\ task = "ending"
  /\ left = {}
  /\ task' = "over"
  /\ UNCHANGED <<handle, aborted, refVars, polled, left, cause, deathVars,
                 waiter, watchVars>>

-----------------------------------------------------------------------------
(***************************************************************************)
(* Death::wait, called on a Node that its owner still holds.               *)
(***************************************************************************)
\* notified() and enable() put the waiter in place before the flag is read.
Enable(w) ==
  /\ handle = "held"
  /\ waiter[w] = "idle"
  /\ waiter' = [waiter EXCEPT ![w] = "enabled"]
  /\ UNCHANGED <<handle, aborted, refVars, taskVars, deathVars, watchVars>>

CheckDead(w) ==
  /\ waiter[w] = "enabled"
  /\ waiter' = [waiter EXCEPT ![w] = IF dead THEN "returned" ELSE "parked"]
  /\ UNCHANGED <<handle, aborted, refVars, taskVars, deathVars, watchVars>>

Woken(w) ==
  /\ waiter[w] = "parked"
  /\ w \in notified
  /\ waiter' = [waiter EXCEPT ![w] = "returned"]
  /\ UNCHANGED <<handle, aborted, refVars, taskVars, deathVars, watchVars>>

-----------------------------------------------------------------------------
(***************************************************************************)
(* Ref::death_notification.                                                *)
(***************************************************************************)
\* wire::is_hung_up; a socket that cannot be polled counts as alive.
AskKernel(h) ==
  /\ h \in holders
  /\ watcher[h] = "idle"
  /\ \/ ~Open /\ watcher' = [watcher EXCEPT ![h] = "returned"]
     \/ (Open \/ "poll" \in Faults) /\ watcher' = [watcher EXCEPT ![h] = "asked"]
  /\ UNCHANGED <<handle, aborted, refVars, taskVars, deathVars, waiter, shut>>

\* RefInner::death_watch; if it cannot be made the future never resolves.
Register_EdgeOnly(h) ==
  /\ watcher[h] = "asked"
  /\ Open
  /\ watcher' = [watcher EXCEPT ![h] = "watching"]
  /\ UNCHANGED <<handle, aborted, refVars, taskVars, deathVars, waiter, shut>>
Register(h) ==
  /\ watcher[h] = "asked"
  /\ \/ h \notin shut /\ watcher' = [watcher EXCEPT ![h] = "watching"]
     \/ /\ "register" \in Faults \/ h \in shut
        /\ watcher' = [watcher EXCEPT ![h] = "never"]
  /\ UNCHANGED <<handle, aborted, refVars, taskVars, deathVars, waiter, shut>>

\* Reactive::hangup.  Registering reports a hangup that is already there, and
\* an error of the reactor counts as one.
Hangup_ReadableIsEnough(h) ==
  /\ watcher[h] = "watching"
  /\ ~Open \/ h \in shut \/ Unread
  /\ watcher' = [watcher EXCEPT ![h] = "returned"]
  /\ UNCHANGED <<handle, aborted, refVars, taskVars, deathVars, waiter, shut>>
Hangup(h) ==
  /\ watcher[h] = "watching"
  /\ ~Open \/ h \in shut
  /\ watcher' = [watcher EXCEPT ![h] = "returned"]
  /\ UNCHANGED <<handle, aborted, refVars, taskVars, deathVars, waiter, shut>>

\* Another branch of the caller's select! won.
GiveUp(h) ==
  /\ watcher[h] \in {"asked", "watching", "never"}
  /\ watcher' = [watcher EXCEPT ![h] = "idle"]
  /\ UNCHANGED <<handle, aborted, refVars, taskVars, deathVars, waiter, shut>>

\* The runtime that h waits on shuts down; to one that does not wait it is
\* nothing.
RuntimeGoes(h) ==
  /\ h \in Fragile
  /\ watcher[h] \in {"asked", "watching"} /\ h \notin shut
  /\ shut' = shut \cup {h}
  /\ UNCHANGED <<handle, aborted, refVars, taskVars, deathVars, waiter, watcher>>

-----------------------------------------------------------------------------
TaskStep ==
  \/ Poll \/ Recv \/ Handle \/ Resume \/ Cancel
  \/ CloseSocket \/ Unfile \/ Declare \/ NotifyWaiters \/ Finish

\* The task is over; whoever still holds the handle or a ref may do so forever.
Idle == task = "over" /\ UNCHANGED vars

Next ==
  \/ DropHandle \/ ToService
  \/ \E h \in Holders : \/ \E g \in Holders : HandOn(h, g)
                        \/ \E m \in Messages : Send(h, m)
                        \/ DropRef(h)
                        \/ AskKernel(h) \/ Register(h) \/ Hangup(h) \/ GiveUp(h)
                        \/ RuntimeGoes(h)
  \/ TaskStep
  \/ \E w \in Waiters : Enable(w) \/ CheckDead(w) \/ Woken(w)
  \/ Idle

Spec == Init /\ [][Next]_vars

\* The runtime polls what is ready, and handlers return.  Owners and holders
\* need not do anything.
Fairness ==
  /\ WF_vars(TaskStep)
  /\ \A w \in Waiters : WF_vars(CheckDead(w) \/ Woken(w))
  /\ \A h \in Holders : WF_vars(Register(h) \/ Hangup(h))

FairSpec == Spec /\ Fairness

-----------------------------------------------------------------------------
(***************************************************************************)
(* Properties.                                                             *)
(***************************************************************************)
\* Every variable keeps to its values; nothing is handled that was not sent.
TypeOK ==
  /\ handle \in {"held", "service", "dropped"}
  /\ holders \subseteq Holders
  /\ sent \in Seq(Messages) /\ Len(sent) <= MaxSends
  /\ read \in 0 .. Len(sent)
  /\ handled \in 0 .. read
  /\ task \in TaskPoints
  /\ polled \in BOOLEAN
  /\ aborted \in BOOLEAN
  /\ left \subseteq Owned
  /\ cause \in Causes
  /\ dead \in BOOLEAN
  /\ notified \subseteq Waiters
  /\ waiter \in [Waiters -> WaiterPoints]
  /\ watcher \in [Holders -> WatcherPoints]
  /\ shut \subseteq Fragile

\* A loop that returned Ok has given every message before its last read to the
\* handler, in order, and that read was the end of the socket, with no ref left
\* to send another, or an empty message ("just a zero-length read, same as an
\* empty message", recv_loop).
HangupIsComplete ==
  cause = "Ok" =>
    /\ \A i \in 1 .. handled : sent[i] = "data"
    /\ \/ holders = {} /\ handled = Len(sent)
       \/ handled < Len(sent) /\ sent[handled + 1] = "empty"

\* Once is_dead() is true nothing is handled any more ("nothing sent here will
\* be handled again", Node::is_dead), and it stays true.
DeadIsQuiet == [][dead => dead' /\ UNCHANGED handled]_vars

\* Once is_dead() is true of a node that ever ran, its socket has hung up and
\* its handler is not found any more, so no message is sent to it in vain
\* (order of _tombstone, _local and recv_loop in Node::new_raw).
DeadMeansHungUp == dead /\ polled => left \cap {"socket", "entry"} = {}

\* A wait that returned tells the truth, on either side of the socket
\* (Node::death_notification, Ref::death_notification).  The one exception is
\* the one the comment on Reactive::hangup makes: a watcher whose runtime has
\* gone is told of a death that may not have happened.
NoFalseDeath ==
  /\ \A w \in Waiters : waiter[w] = "returned" => dead
  /\ \A h \in Holders \ shut : watcher[h] = "returned" => ~Open

\* No waiter is left behind, whenever it came (the comment on Death::wait).
DeathReachesWaiters ==
  \A w \in Waiters :
    dead /\ waiter[w] \in {"enabled", "parked"} ~> waiter[w] = "returned"

\* A holder that waits is told that the node went, also if it went between the
\* question to the kernel and the registration (Ref::death_notification).  It
\* may give up, and it waits for ever if the reactor refuses the registration
\* or its runtime has gone.
HangupReachesWatchers ==
  \A h \in Holders :
    ~Open /\ watcher[h] \in {"asked", "watching"} ~>
      watcher[h] \in {"returned", "idle", "never"} \/ h \in shut

\* A message that got into the socket is handled, also when its sender drops
\* its ref, when no ref is left, and when the node is given up as a service
\* ("the loop keeps running", Node::to_service).  What may come between is the
\* drop of the handle, a panic, an error of the socket, or an empty message.
SentIsHandled ==
  \A n \in 1 .. MaxSends :
    Len(sent) >= n ~>
      \/ handled >= n \/ handle = "dropped" \/ cause \in {"panic", "io"}
      \/ \E i \in 1 .. n : i \in DOMAIN sent /\ sent[i] = "empty"

\* When the last ref goes, so does the node, service or not.
LastRefEndsNode == holders = {} ~> dead

\* When the handle is dropped the node goes, whoever still has refs.
DropEndsNode == handle = "dropped" ~> dead
=============================================================================
