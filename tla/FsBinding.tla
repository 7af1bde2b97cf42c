----------------------------- MODULE FsBinding -----------------------------
(***************************************************************************)
(* A capability published at one path of the file system: RefFsBinding,    *)
(* the task that accepts connections for it, and Ref::connect.             *)
(*                                                                         *)
(* A binder is a RefFsBinding, or the call of RefFsBinding::new that makes *)
(* one; several can be alive, in one process or in many, for the lock is   *)
(* one of an open file.  Two directory entries matter: the lock file and   *)
(* the socket.  A lock file is an inode, which stays while it is open; the *)
(* socket at the path belongs to the binder that bound it, and leads       *)
(* nowhere once that binder's listener is closed.                          *)
(***************************************************************************)
EXTENDS Naturals, FiniteSets, Sequences, SequencesExt

CONSTANTS
  Binders,
  Clients,     \* calls of Ref::connect
  LockFiles,   \* inodes for lock files: one more than there are binders
  BACKLOG,     \* the backlog of the listener, 128 in wire::bind
  None,        \* no binder, no inode
  Events       \* what befalls the binders, out of AllEvents

AllEvents == {
  "crash",    \* a process ends without running drops
  "drop",     \* a RefFsBinding is dropped
  "accept",   \* accept, or the registration of what it gave, fails (EMFILE)
  "build",    \* socket, or the registration of the listener, fails
  "leave" }   \* the future of connect is dropped while it waits

ASSUME FsBindingAssumption ==
  /\ BACKLOG \in Nat \ {0}
  /\ None \notin Binders \cup LockFiles \cup Clients
  /\ Events \subseteq AllEvents

VARIABLES
  lockAt,      \* the inode the lock file's name leads to
  sockAt,      \* the binder of the socket at the path
  opened,      \* of each binder: the lock file it has open
  locked,      \* the binders that hold the lock of the file they have open
  pc,          \* where each binder is in new and in drop
  listening,   \* the binders whose listener is open and takes connections
  backlog,     \* connections each listener has yet to accept
  serving,     \* the connection its task has accepted
  aborting,    \* the binders whose task has been told to stop
  client,      \* of each client: "idle", "waiting", what connect returned, or
               \* "left": gone, while its connection is still queued
  dropped      \* history: a RefFsBinding has been dropped

lockVars == <<lockAt, opened, locked>>
taskVars == <<listening, backlog, serving, aborting>>
vars == <<lockAt, sockAt, opened, locked, pc, taskVars, client, dropped>>

BinderPoints ==
  {"gone", "lock", "remove", "bind", "listen", "held", "unlink", "unlock", "abort"}
Answers == {"ref", "eof", "refused", "full"}
Connected == {"waiting", "left"}

Init ==
  /\ lockAt = None
  /\ sockAt = None
  /\ opened = [b \in Binders |-> None]
  /\ locked = {}
  /\ pc = [b \in Binders |-> "gone"]
  /\ listening = {}
  /\ backlog = [b \in Binders |-> <<>>]
  /\ serving = [b \in Binders |-> None]
  /\ aborting = {}
  /\ client = [c \in Clients |-> "idle"]
  /\ dropped = FALSE

-----------------------------------------------------------------------------
Goto(b, point) == pc' = [pc EXCEPT ![b] = point]

\* What a client makes of the answer to its connection: nothing, if it left.
Hears(c, answer) == IF client[c] = "left" THEN "idle" ELSE answer

\* The clients whose connection is with b hear that it is closed.
HungUp(b) ==
  [c \in Clients |->
    IF c = serving[b] \/ c \in ToSet(backlog[b]) THEN Hears(c, "eof") ELSE client[c]]

\* The task of b is over: its listener closes, with all that was queued on it.
CloseTask_Strands(b) ==
  /\ listening' = listening \ {b}
  /\ backlog' = [backlog EXCEPT ![b] = <<>>]
  /\ serving' = [serving EXCEPT ![b] = None]
  /\ aborting' = aborting \ {b}
  /\ UNCHANGED client
CloseTask(b) ==
  /\ listening' = listening \ {b}
  /\ backlog' = [backlog EXCEPT ![b] = <<>>]
  /\ serving' = [serving EXCEPT ![b] = None]
  /\ aborting' = aborting \ {b}
  /\ client' = HungUp(b)

\* The lock file closes, and the lock on it goes.
CloseLock(b) ==
  /\ opened' = [opened EXCEPT ![b] = None]
  /\ locked' = locked \ {b}

-----------------------------------------------------------------------------
(***************************************************************************)
(* RefFsBinding::new.                                                      *)
(***************************************************************************)
\* File::create: the lock file that is there, or a new one.
CreateLock_RemovesFirst(b) ==
  /\ pc[b] = "gone"
  /\ b \notin listening
  /\ \E f \in LockFiles :
       /\ IF lockAt # None THEN f = lockAt ELSE f \notin Range(opened)
       /\ lockAt' = f
       /\ opened' = [opened EXCEPT ![b] = f]
  /\ sockAt' = None
  /\ Goto(b, "lock")
  /\ UNCHANGED <<locked, taskVars, client, dropped>>
CreateLock(b) ==
  /\ pc[b] = "gone"
  /\ b \notin listening
  /\ \E f \in LockFiles :
       /\ IF lockAt # None THEN f = lockAt ELSE f \notin Range(opened)
       /\ lockAt' = f
       /\ opened' = [opened EXCEPT ![b] = f]
  /\ Goto(b, "lock")
  /\ UNCHANGED <<sockAt, locked, taskVars, client, dropped>>

LockFree(f) == \A b \in locked : opened[b] # f

\* try_lock; AddrInUse if another holds the lock.
TryLock_Anyway(b) ==
  /\ pc[b] = "lock"
  /\ locked' = locked \cup {b}
  /\ Goto(b, "remove")
  /\ UNCHANGED <<lockAt, opened, sockAt, taskVars, client, dropped>>
TryLock(b) ==
  /\ pc[b] = "lock"
  /\ \/ /\ LockFree(opened[b])
        /\ locked' = locked \cup {b}
        /\ Goto(b, "remove")
        /\ UNCHANGED opened
     \/ /\ ~LockFree(opened[b])
        /\ CloseLock(b)
        /\ Goto(b, "gone")
  /\ UNCHANGED <<lockAt, sockAt, taskVars, client, dropped>>

\* remove_file(path), whatever is there.
RemoveStale_Skips(b) ==
  /\ pc[b] = "remove"
  /\ Goto(b, "bind")
  /\ UNCHANGED <<sockAt, lockVars, taskVars, client, dropped>>
RemoveStale(b) ==
  /\ pc[b] = "remove"
  /\ sockAt' = None
  /\ Goto(b, "bind")
  /\ UNCHANGED <<lockVars, taskVars, client, dropped>>

\* new returns an error: it has no Drop to run, only the lock file to close.
Fails(b) ==
  /\ CloseLock(b)
  /\ Goto(b, "gone")
  /\ UNCHANGED <<lockAt, taskVars, client>>

\* wire::bind, up to the bind that claims the path.
Bind(b) ==
  /\ pc[b] = "bind"
  /\ \/ /\ sockAt = None
        /\ sockAt' = b
        /\ Goto(b, "listen")
        /\ UNCHANGED <<lockVars, taskVars, client>>
     \/ /\ sockAt # None \/ "build" \in Events
        /\ Fails(b)
        /\ UNCHANGED sockAt
  /\ UNCHANGED dropped

\* listen, Reactive::new and the spawn of the accept loop.
Listen(b) ==
  /\ pc[b] = "listen"
  /\ \/ /\ listening' = listening \cup {b}
        /\ Goto(b, "held")
        /\ UNCHANGED <<lockVars, backlog, serving, aborting, client>>
     \/ /\ "build" \in Events
        /\ Fails(b)
  /\ UNCHANGED <<sockAt, dropped>>

-----------------------------------------------------------------------------
(***************************************************************************)
(* Drop for RefFsBinding, and of its fields after it.                      *)
(***************************************************************************)
DropStart(b) ==
  /\ "drop" \in Events
  /\ pc[b] = "held"
  /\ lockAt' = None
  /\ Goto(b, "unlink")
  /\ dropped' = TRUE
  /\ UNCHANGED <<sockAt, opened, locked, taskVars, client>>

\* remove_file(path), whatever is there.
DropSocket(b) ==
  /\ pc[b] = "unlink"
  /\ sockAt' = None
  /\ Goto(b, "unlock")
  /\ UNCHANGED <<lockVars, taskVars, client, dropped>>

DropLock(b) ==
  /\ pc[b] = "unlock"
  /\ CloseLock(b)
  /\ Goto(b, "abort")
  /\ UNCHANGED <<lockAt, sockAt, taskVars, client, dropped>>

\* AbortOnDrop: the task is told to stop, if it still runs.
DropTask(b) ==
  /\ pc[b] = "abort"
  /\ aborting' = aborting \cup ({b} \cap listening)
  /\ Goto(b, "gone")
  /\ UNCHANGED <<lockVars, sockAt, listening, backlog, serving, client, dropped>>

TaskEnds(b) ==
  /\ b \in aborting
  /\ CloseTask(b)
  /\ UNCHANGED <<lockVars, sockAt, pc, dropped>>

\* The process ends: the kernel closes what it had open and keeps both names.
Crash(b) ==
  /\ "crash" \in Events
  /\ pc[b] # "gone" \/ b \in listening
  /\ CloseLock(b)
  /\ CloseTask(b)
  /\ Goto(b, "gone")
  /\ UNCHANGED <<lockAt, sockAt, dropped>>

-----------------------------------------------------------------------------
(***************************************************************************)
(* The accept loop.                                                        *)
(***************************************************************************)
Accept(b) ==
  /\ b \in listening
  /\ serving[b] = None
  /\ backlog[b] # <<>>
  /\ serving' = [serving EXCEPT ![b] = Head(backlog[b])]
  /\ backlog' = [backlog EXCEPT ![b] = Tail(@)]
  /\ UNCHANGED <<lockVars, sockAt, pc, listening, aborting, client, dropped>>

\* An error ends the loop, and leaves the binding without one.
AcceptFails(b) ==
  /\ "accept" \in Events
  /\ b \in listening
  /\ serving[b] = None
  /\ backlog[b] # <<>>
  /\ CloseTask(b)
  /\ UNCHANGED <<lockVars, sockAt, pc, dropped>>

\* The message that holds the capability and nothing else; then the connection
\* is closed.  That the client left is an error of send, which is ignored.
SendRef(b) ==
  /\ serving[b] # None
  /\ client' = [client EXCEPT ![serving[b]] = Hears(serving[b], "ref")]
  /\ serving' = [serving EXCEPT ![b] = None]
  /\ UNCHANGED <<lockVars, sockAt, pc, listening, backlog, aborting, dropped>>

-----------------------------------------------------------------------------
(***************************************************************************)
(* Ref::connect, which does not retry.                                     *)
(***************************************************************************)
Connect_WaitsWhenFull(c) ==
  /\ client[c] \notin Connected
  /\ client' = [client EXCEPT ![c] = IF sockAt \in listening THEN "waiting"
                                                           ELSE "refused"]
  /\ backlog' = [b \in Binders |->
                  IF b = sockAt /\ b \in listening /\ Len(backlog[b]) < BACKLOG
                    THEN Append(backlog[b], c) ELSE backlog[b]]
  /\ UNCHANGED <<lockVars, sockAt, pc, listening, serving, aborting, dropped>>
Connect(c) ==
  /\ client[c] \notin Connected
  /\ \/ /\ sockAt \notin listening
        /\ client' = [client EXCEPT ![c] = "refused"]
        /\ UNCHANGED backlog
     \/ /\ sockAt \in listening
        /\ Len(backlog[sockAt]) < BACKLOG
        /\ client' = [client EXCEPT ![c] = "waiting"]
        /\ backlog' = [backlog EXCEPT ![sockAt] = Append(@, c)]
     \/ /\ sockAt \in listening
        /\ Len(backlog[sockAt]) = BACKLOG
        /\ client' = [client EXCEPT ![c] = "full"]
        /\ UNCHANGED backlog
  /\ UNCHANGED <<lockVars, sockAt, pc, listening, serving, aborting, dropped>>

\* The caller drops the future while it waits in recv.  Its end of the socket
\* closes; what is queued for accept stays there.
Leave(c) ==
  /\ "leave" \in Events
  /\ client[c] = "waiting"
  /\ client' = [client EXCEPT ![c] = "left"]
  /\ UNCHANGED <<lockVars, sockAt, pc, listening, backlog, serving, aborting, dropped>>

-----------------------------------------------------------------------------
Serve(b) == Accept(b) \/ AcceptFails(b) \/ SendRef(b) \/ TaskEnds(b)

Next ==
  \/ \E b \in Binders :
       \/ CreateLock(b) \/ TryLock(b) \/ RemoveStale(b) \/ Bind(b) \/ Listen(b)
       \/ DropStart(b) \/ DropSocket(b) \/ DropLock(b) \/ DropTask(b)
       \/ Crash(b) \/ Serve(b)
  \/ \E c \in Clients : Connect(c) \/ Leave(c)

Spec == Init /\ [][Next]_vars

\* The runtime polls a task that has something to do.
FairSpec == Spec /\ \A b \in Binders : WF_vars(Serve(b))

-----------------------------------------------------------------------------
(***************************************************************************)
(* Properties.                                                             *)
(***************************************************************************)
\* Every variable keeps to its values; a lock is held on an open file, and a
\* task serves only while it has a listener.
TypeOK ==
  /\ lockAt \in LockFiles \cup {None}
  /\ sockAt \in Binders \cup {None}
  /\ opened \in [Binders -> LockFiles \cup {None}]
  /\ pc \in [Binders -> BinderPoints]
  /\ client \in [Clients -> {"idle"} \cup Connected \cup Answers]
  /\ dropped \in BOOLEAN
  /\ \A b \in Binders :
       /\ pc[b] # "gone" /\ pc[b] # "abort" <=> opened[b] # None
       /\ b \in locked <=> pc[b] \notin {"gone", "lock", "abort"}
       /\ Len(backlog[b]) <= BACKLOG
       /\ serving[b] \in Clients \cup {None}
       /\ backlog[b] # <<>> \/ serving[b] # None \/ b \in aborting => b \in listening

\* A binding that new has returned, and whose task has not failed.
Bound(b) == pc[b] = "held" /\ b \in listening

\* One binder at a time holds the lock of the path (acquire_lock): as long as
\* none has been dropped, whoever crashed.
OneOwner == ~dropped => \A a, b \in locked : a = b

\* A binding is what the path leads to, whatever others do short of a drop
\* (RefFsBinding::new takes the lock before it removes anything).
BoundIsReachable == ~dropped => \A b \in Binders : Bound(b) => sockAt = b

\* Names left by a crash are in nobody's way: who has the lock finds the path
\* free to bind.
BindFindsPathFree == ~dropped => \A b \in Binders : pc[b] = "bind" => sockAt = None

\* The same with drops: nobody will "yank the path out from under something
\* still alive" (wire::bind).
DropSparesOthers == \A b \in Binders : Bound(b) => sockAt = b

\* A client that waits is in the hands of a task, once: no abort, crash or error
\* of the task strands it.
WaitingIsHeld ==
  \A c \in Clients : client[c] = "waiting" =>
    Cardinality({b \in Binders : serving[b] = c})
      + Cardinality({bi \in Binders \X (1..BACKLOG) :
                       bi[2] \in DOMAIN backlog[bi[1]] /\ backlog[bi[1]][bi[2]] = c})
    = 1

\* connect returns, with a capability or an error, whatever befalls the binding.
ConnectReturns ==
  \A c \in Clients : client[c] = "waiting" ~> client[c] # "waiting"
=============================================================================
