--------------------------- MODULE FsBindingProofs --------------------------
(***************************************************************************)
(* What RefFsBinding keeps, for any number of binders, clients and lock    *)
(* files and any backlog: as long as no binding is dropped the path has    *)
(* one owner, and leads to its listener; and no client is stranded, ever.  *)
(*                                                                         *)
(* The inductive invariant says why.  A lock on one file excludes the      *)
(* others, always.  As long as nobody unlinks the lock file everybody has  *)
(* the same one open, so the lock of the file is the lock of the path; and *)
(* only its holder touches what is at the path.                            *)
(*                                                                         *)
(* A second invariant, InHand, follows the clients: each that is connected *)
(* is in one hand, and nobody else is in any.                              *)
(***************************************************************************)
EXTENDS FsBinding, FiniteSetTheorems, TLAPS

\* The types that TypeOK leaves to its last conjuncts.
Shape ==
  /\ locked \subseteq Binders
  /\ listening \subseteq Binders
  /\ aborting \subseteq listening
  /\ serving \in [Binders -> Clients \cup {None}]
  /\ backlog \in [Binders -> Seq(Clients)]
  /\ \A b \in Binders : b \notin listening => backlog[b] = <<>>

\* A lock excludes those who have the same file open (flock).
LockExcludes == \A a, b \in locked : opened[a] = opened[b] => a = b

\* The lock file that somebody has open is the one the name leads to.
LockIsTheNames == ~dropped => \A b \in Binders : opened[b] # None => opened[b] = lockAt

\* Between its bind and its drop a binder is the one at the path, and before
\* its bind nobody is.
PathIsOwners ==
  ~dropped => \A b \in Binders :
    /\ pc[b] = "bind" => sockAt = None
    /\ pc[b] \in {"listen", "held"} => sockAt = b
    /\ pc[b] \notin {"unlink", "unlock", "abort"}

IInv ==
  /\ TypeOK
  /\ Shape
  /\ LockExcludes
  /\ LockIsTheNames
  /\ PathIsOwners

-----------------------------------------------------------------------------
\* None is no binder, no lock file and no client.
LEMMA NoneApart ==
  /\ None \notin Binders /\ None \notin LockFiles /\ None \notin Clients
  /\ BACKLOG \in Nat \ {0}
BY FsBindingAssumption

\* Without a drop the one who has the lock is alone with it.
LEMMA LockIsAlone ==
  ASSUME IInv, ~dropped, NEW a \in locked, NEW b \in locked
  PROVE  a = b
<1>1. a \in Binders /\ b \in Binders
  BY DEF IInv, Shape
<1>2. opened[a] # None /\ opened[b] # None
  BY <1>1 DEF IInv, TypeOK
<1> QED BY <1>1, <1>2 DEF IInv, LockIsTheNames, LockExcludes

\* At first nobody binds, and nothing is at the path.
LEMMA InitHolds == Init => IInv
<1> SUFFICES ASSUME Init PROVE IInv
  OBVIOUS
<1>1. TypeOK
  <2>1. /\ lockAt \in LockFiles \cup {None} /\ sockAt \in Binders \cup {None}
        /\ opened \in [Binders -> LockFiles \cup {None}]
        /\ pc \in [Binders -> BinderPoints]
        /\ client \in [Clients -> {"idle"} \cup Connected \cup Answers]
    BY DEF Init, BinderPoints
  <2>2. dropped \in BOOLEAN
    BY DEF Init
  <2>3. ASSUME NEW b \in Binders
        PROVE  /\ pc[b] # "gone" /\ pc[b] # "abort" <=> opened[b] # None
               /\ b \in locked <=> pc[b] \notin {"gone", "lock", "abort"}
               /\ Len(backlog[b]) <= BACKLOG
               /\ serving[b] \in Clients \cup {None}
               /\ backlog[b] = <<>> /\ serving[b] = None /\ b \notin aborting
    BY NoneApart DEF Init
  <2> QED BY <2>1, <2>2, <2>3 DEF TypeOK
<1>2. Shape
  BY DEF Init, Shape
<1>3. LockExcludes /\ LockIsTheNames /\ PathIsOwners
  BY DEF Init, LockExcludes, LockIsTheNames, PathIsOwners
<1> QED BY <1>1, <1>2, <1>3 DEF IInv

\* A step that moves no binder and touches neither name nor lock keeps the
\* part of the invariant that is about them.
LEMMA NamesKept ==
  ASSUME IInv, UNCHANGED <<lockVars, sockAt, pc, dropped>>
  PROVE  LockExcludes' /\ LockIsTheNames' /\ PathIsOwners'
BY DEF lockVars, IInv, LockExcludes, LockIsTheNames, PathIsOwners

-----------------------------------------------------------------------------
(***************************************************************************)
(* RefFsBinding::new.                                                      *)
(***************************************************************************)
\* File::create opens the lock file that is there.
LEMMA CreateLockKeeps ==
  ASSUME IInv, NEW b \in Binders, CreateLock(b)
  PROVE  IInv'
<1> USE NoneApart DEF lockVars, taskVars
<1>1. PICK f \in LockFiles :
        /\ IF lockAt # None THEN f = lockAt ELSE f \notin Range(opened)
        /\ lockAt' = f /\ opened' = [opened EXCEPT ![b] = f]
  BY DEF CreateLock
<1>2. b \notin locked /\ opened[b] = None
  BY DEF CreateLock, IInv, TypeOK
<1>3. TypeOK'
  BY <1>1, <1>2 DEF CreateLock, Goto, IInv, TypeOK, BinderPoints
<1>4. Shape'
  BY DEF CreateLock, IInv, Shape
<1>5. LockExcludes'
  BY <1>1, <1>2 DEF CreateLock, IInv, TypeOK, Shape, LockExcludes
<1>6. LockIsTheNames'
  BY <1>1, <1>2 DEF CreateLock, IInv, TypeOK, LockIsTheNames
<1>7. PathIsOwners'
  BY DEF CreateLock, Goto, IInv, TypeOK, PathIsOwners
<1> QED BY <1>3, <1>4, <1>5, <1>6, <1>7 DEF IInv

\* try_lock: the lock is there to take, or new fails and closes the file.
LEMMA TryLockKeeps ==
  ASSUME IInv, NEW b \in Binders, TryLock(b)
  PROVE  IInv'
<1> USE NoneApart DEF lockVars, taskVars
<1>1. CASE /\ LockFree(opened[b]) /\ locked' = locked \cup {b}
           /\ Goto(b, "remove") /\ UNCHANGED opened
  <2>1. UNCHANGED <<lockAt, opened, sockAt, taskVars, client, dropped>> /\ pc[b] = "lock"
    BY <1>1 DEF TryLock
  <2>2. TypeOK'
    BY <1>1, <2>1 DEF Goto, IInv, TypeOK, BinderPoints
  <2>3. Shape' /\ LockExcludes' /\ LockIsTheNames'
    BY <1>1, <2>1 DEF LockFree, IInv, Shape, LockExcludes, LockIsTheNames
  <2>4. PathIsOwners'
    BY <1>1, <2>1 DEF Goto, IInv, TypeOK, PathIsOwners
  <2> QED BY <2>2, <2>3, <2>4 DEF IInv
<1>2. CASE CloseLock(b) /\ Goto(b, "gone")
  <2>1. UNCHANGED <<lockAt, sockAt, taskVars, client, dropped>> /\ pc[b] = "lock"
    BY DEF TryLock
  <2>2. TypeOK'
    BY <1>2, <2>1 DEF CloseLock, Goto, IInv, TypeOK, BinderPoints
  <2>3. Shape' /\ LockExcludes' /\ LockIsTheNames'
    BY <1>2, <2>1 DEF CloseLock, IInv, TypeOK, Shape, LockExcludes, LockIsTheNames
  <2>4. PathIsOwners'
    BY <1>2, <2>1 DEF Goto, IInv, TypeOK, PathIsOwners
  <2> QED BY <2>2, <2>3, <2>4 DEF IInv
<1> QED BY <1>1, <1>2 DEF TryLock

\* remove_file by the one who has the lock: nobody else is at the path.
LEMMA RemoveStaleKeeps ==
  ASSUME IInv, NEW b \in Binders, RemoveStale(b)
  PROVE  IInv'
<1> USE NoneApart DEF lockVars, taskVars
<1>1. TypeOK' /\ Shape' /\ LockExcludes' /\ LockIsTheNames'
  BY DEF RemoveStale, Goto, IInv, TypeOK, BinderPoints, Shape, LockExcludes,
         LockIsTheNames
<1>2. ASSUME ~dropped, NEW a \in Binders, pc[a] \in {"listen", "held"}
      PROVE  FALSE
  <2>1. a \in locked /\ b \in locked /\ a # b
    BY <1>2 DEF RemoveStale, IInv, TypeOK
  <2> QED BY <1>2, <2>1, LockIsAlone
<1>3. PathIsOwners'
  BY <1>2 DEF RemoveStale, Goto, IInv, TypeOK, PathIsOwners
<1> QED BY <1>1, <1>3 DEF IInv

\* bind: the path was free, so no other has it; or new fails.
LEMMA BindKeeps ==
  ASSUME IInv, NEW b \in Binders, Bind(b)
  PROVE  IInv'
<1> USE NoneApart DEF lockVars, taskVars
<1>1. CASE /\ sockAt = None /\ sockAt' = b
           /\ Goto(b, "listen") /\ UNCHANGED <<lockVars, taskVars, client>>
  <2>1. dropped' = dropped /\ pc[b] = "bind"
    BY DEF Bind
  <2>2. TypeOK' /\ Shape' /\ LockExcludes' /\ LockIsTheNames'
    BY <1>1, <2>1
       DEF Goto, IInv, TypeOK, BinderPoints, Shape, LockExcludes, LockIsTheNames
  <2>3. ASSUME ~dropped, NEW a \in Binders, a # b, pc[a] \in {"bind", "listen", "held"}
        PROVE  FALSE
    <3>1. a \in locked /\ b \in locked
      BY <2>1, <2>3 DEF IInv, TypeOK
    <3> QED BY <2>3, <3>1, LockIsAlone
  <2>4. PathIsOwners'
    BY <1>1, <2>1, <2>3 DEF Goto, IInv, TypeOK, PathIsOwners
  <2> QED BY <2>2, <2>4 DEF IInv
<1>2. CASE Fails(b) /\ UNCHANGED sockAt
  <2>1. dropped' = dropped /\ pc[b] = "bind"
    BY DEF Bind
  <2>2. TypeOK'
    BY <1>2, <2>1 DEF Fails, CloseLock, Goto, IInv, TypeOK, BinderPoints
  <2>3. Shape' /\ LockExcludes' /\ LockIsTheNames'
    BY <1>2, <2>1 DEF Fails, CloseLock, IInv, TypeOK, Shape, LockExcludes, LockIsTheNames
  <2>4. PathIsOwners'
    BY <1>2, <2>1 DEF Fails, Goto, IInv, TypeOK, PathIsOwners
  <2> QED BY <2>2, <2>3, <2>4 DEF IInv
<1> QED BY <1>1, <1>2 DEF Bind

\* listen: the binder is at the path; or new fails, and leaves the name behind.
LEMMA ListenKeeps ==
  ASSUME IInv, NEW b \in Binders, Listen(b)
  PROVE  IInv'
<1> USE NoneApart DEF lockVars, taskVars
<1>1. CASE /\ listening' = listening \cup {b} /\ Goto(b, "held")
           /\ UNCHANGED <<lockVars, backlog, serving, aborting, client>>
  <2>1. UNCHANGED <<sockAt, dropped>> /\ pc[b] = "listen"
    BY DEF Listen
  <2>2. TypeOK'
    BY <1>1, <2>1 DEF Goto, IInv, TypeOK, BinderPoints
  <2>3. Shape' /\ LockExcludes' /\ LockIsTheNames'
    BY <1>1, <2>1 DEF IInv, Shape, LockExcludes, LockIsTheNames
  <2>4. PathIsOwners'
    BY <1>1, <2>1 DEF Goto, IInv, TypeOK, PathIsOwners
  <2> QED BY <2>2, <2>3, <2>4 DEF IInv
<1>2. CASE Fails(b)
  <2>1. UNCHANGED <<sockAt, dropped>> /\ pc[b] = "listen"
    BY DEF Listen
  <2>2. TypeOK'
    BY <1>2, <2>1 DEF Fails, CloseLock, Goto, IInv, TypeOK, BinderPoints
  <2>3. Shape' /\ LockExcludes' /\ LockIsTheNames'
    BY <1>2, <2>1 DEF Fails, CloseLock, IInv, TypeOK, Shape, LockExcludes, LockIsTheNames
  <2>4. PathIsOwners'
    BY <1>2, <2>1 DEF Fails, Goto, IInv, TypeOK, PathIsOwners
  <2> QED BY <2>2, <2>3, <2>4 DEF IInv
<1> QED BY <1>1, <1>2 DEF Listen

-----------------------------------------------------------------------------
(***************************************************************************)
(* The drop of a binding, and the end of its task.                         *)
(***************************************************************************)
\* From the first step of a drop on nothing is promised but the types.
LEMMA DropKeeps ==
  ASSUME IInv, NEW b \in Binders, DropStart(b) \/ DropSocket(b) \/ DropTask(b)
  PROVE  IInv'
<1> USE NoneApart DEF lockVars, taskVars
<1>1. dropped' /\ UNCHANGED <<opened, locked, listening, backlog, serving, client>>
  BY DEF DropStart, DropSocket, DropTask, IInv, PathIsOwners
<1>2. TypeOK'
  <2>1. CASE DropStart(b) \/ DropSocket(b)
    BY <2>1 DEF DropStart, DropSocket, Goto, IInv, TypeOK, BinderPoints
  <2>2. CASE DropTask(b)
    BY <2>2 DEF DropTask, Goto, IInv, TypeOK, BinderPoints
  <2> QED BY <2>1, <2>2
<1>3. Shape' /\ LockExcludes' /\ LockIsTheNames' /\ PathIsOwners'
  BY <1>1
     DEF DropStart, DropSocket, DropTask, IInv, Shape, LockExcludes, LockIsTheNames,
         PathIsOwners
<1> QED BY <1>2, <1>3 DEF IInv

\* The lock goes with the file that closes.
LEMMA DropLockKeeps ==
  ASSUME IInv, NEW b \in Binders, DropLock(b)
  PROVE  IInv'
<1> USE NoneApart DEF lockVars, taskVars
<1>1. dropped /\ dropped' = dropped
  BY DEF DropLock, IInv, PathIsOwners
<1>2. TypeOK'
  BY DEF DropLock, CloseLock, Goto, IInv, TypeOK, BinderPoints
<1>3. Shape' /\ LockExcludes' /\ LockIsTheNames' /\ PathIsOwners'
  BY <1>1
     DEF DropLock, CloseLock, IInv, TypeOK, Shape, LockExcludes, LockIsTheNames,
         PathIsOwners
<1> QED BY <1>2, <1>3 DEF IInv

\* What the end of a task leaves is well formed.
LEMMA CloseTaskShape ==
  ASSUME IInv, NEW b \in Binders, CloseTask(b)
  PROVE  /\ client' \in [Clients -> {"idle"} \cup Connected \cup Answers]
         /\ \A a \in Binders :
              /\ Len(backlog'[a]) <= BACKLOG
              /\ serving'[a] \in Clients \cup {None}
              /\ backlog'[a] # <<>> \/ serving'[a] # None \/ a \in aborting'
                   => a \in listening'
         /\ listening' \subseteq Binders
         /\ aborting' \subseteq listening'
         /\ serving' \in [Binders -> Clients \cup {None}]
         /\ backlog' \in [Binders -> Seq(Clients)]
         /\ \A a \in Binders : a \notin listening' => backlog'[a] = <<>>
<1> USE NoneApart
<1>1. client' \in [Clients -> {"idle"} \cup Connected \cup Answers]
  BY DEF CloseTask, HungUp, Hears, IInv, TypeOK, Answers
<1>2. /\ listening' \subseteq Binders /\ aborting' \subseteq listening'
      /\ serving' \in [Binders -> Clients \cup {None}]
      /\ backlog' \in [Binders -> Seq(Clients)]
  BY DEF CloseTask, IInv, Shape
<1>3. ASSUME NEW a \in Binders
      PROVE  /\ Len(backlog'[a]) <= BACKLOG
             /\ serving'[a] \in Clients \cup {None}
             /\ backlog'[a] # <<>> \/ serving'[a] # None \/ a \in aborting'
                  => a \in listening'
             /\ a \notin listening' => backlog'[a] = <<>>
  BY DEF CloseTask, IInv, TypeOK, Shape
<1> QED BY <1>1, <1>2, <1>3

\* A task ends on its abort or on an error: no binder moves.
LEMMA TaskEndKeeps ==
  ASSUME IInv, NEW b \in Binders, TaskEnds(b) \/ AcceptFails(b)
  PROVE  IInv'
<1>1. CloseTask(b) /\ UNCHANGED <<lockVars, sockAt, pc, dropped>>
  BY DEF TaskEnds, AcceptFails
<1>2. TypeOK' /\ Shape'
  BY <1>1, CloseTaskShape DEF lockVars, IInv, TypeOK, Shape
<1> QED BY <1>1, <1>2, NamesKept DEF IInv

\* A process that ends takes its lock along and leaves both names.
LEMMA CrashKeeps ==
  ASSUME IInv, NEW b \in Binders, Crash(b)
  PROVE  IInv'
<1> USE NoneApart
<1>1. /\ CloseLock(b) /\ CloseTask(b) /\ Goto(b, "gone")
      /\ UNCHANGED <<lockAt, sockAt, dropped>>
  BY DEF Crash
<1>2. TypeOK'
  <2>1. /\ lockAt' \in LockFiles \cup {None}
        /\ sockAt' \in Binders \cup {None}
        /\ opened' \in [Binders -> LockFiles \cup {None}]
        /\ pc' \in [Binders -> BinderPoints]
        /\ dropped' \in BOOLEAN
    BY <1>1 DEF CloseLock, Goto, IInv, TypeOK, BinderPoints
  <2>2. \A a \in Binders :
          /\ pc'[a] # "gone" /\ pc'[a] # "abort" <=> opened'[a] # None
          /\ a \in locked' <=> pc'[a] \notin {"gone", "lock", "abort"}
    BY <1>1 DEF CloseLock, Goto, IInv, TypeOK
  <2> QED BY <1>1, <2>1, <2>2, CloseTaskShape DEF TypeOK
<1>3. Shape'
  BY <1>1, CloseTaskShape DEF CloseLock, IInv, Shape
<1>4. LockExcludes' /\ LockIsTheNames'
  BY <1>1 DEF CloseLock, IInv, TypeOK, Shape, LockExcludes, LockIsTheNames
<1>5. PathIsOwners'
  BY <1>1 DEF Goto, IInv, TypeOK, PathIsOwners
<1> QED BY <1>2, <1>3, <1>4, <1>5 DEF IInv

-----------------------------------------------------------------------------
(***************************************************************************)
(* Connections.                                                            *)
(***************************************************************************)
\* Accepting one, and answering it.
LEMMA ServeKeeps ==
  ASSUME IInv, NEW b \in Binders, Accept(b) \/ SendRef(b)
  PROVE  IInv'
<1> USE NoneApart
<1>1. UNCHANGED <<lockVars, sockAt, pc, dropped>>
  BY DEF Accept, SendRef
<1>2. CASE Accept(b)
  <2>1. /\ Head(backlog[b]) \in Clients
        /\ Tail(backlog[b]) \in Seq(Clients)
        /\ Len(Tail(backlog[b])) <= BACKLOG
    BY <1>2 DEF Accept, IInv, TypeOK, Shape
  <2>2. Shape'
    BY <1>1, <1>2, <2>1 DEF Accept, lockVars, IInv, Shape
  <2>3. TypeOK'
    BY <1>1, <1>2, <2>1 DEF Accept, lockVars, IInv, TypeOK, Shape
  <2> QED BY <1>1, <2>2, <2>3, NamesKept DEF IInv
<1>3. CASE SendRef(b)
  <2>1. Shape'
    BY <1>1, <1>3 DEF SendRef, lockVars, IInv, Shape
  <2>2. client' \in [Clients -> {"idle"} \cup Connected \cup Answers]
    BY <1>3 DEF SendRef, Hears, IInv, TypeOK, Answers
  <2>3. TypeOK'
    BY <1>1, <1>3, <2>2 DEF SendRef, lockVars, IInv, TypeOK, Shape
  <2> QED BY <1>1, <2>1, <2>3, NamesKept DEF IInv
<1> QED BY <1>2, <1>3

\* Only the client changes when it leaves.
LEMMA LeaveKeeps ==
  ASSUME IInv, NEW c \in Clients, Leave(c)
  PROVE  IInv'
<1>1. UNCHANGED <<lockVars, sockAt, pc, listening, backlog, serving, aborting, dropped>>
  BY DEF Leave
<1>2. client' \in [Clients -> {"idle"} \cup Connected \cup Answers]
  BY DEF Leave, IInv, TypeOK, Connected
<1>3. TypeOK' /\ Shape'
  BY <1>1, <1>2 DEF lockVars, IInv, TypeOK, Shape
<1> QED BY <1>1, <1>3, NamesKept DEF IInv

\* Ref::connect joins the backlog of the one at the path if that has room.
LEMMA ConnectKeeps ==
  ASSUME IInv, NEW c \in Clients, Connect(c)
  PROVE  IInv'
<1> USE NoneApart
<1>1. UNCHANGED <<lockVars, sockAt, pc, listening, serving, aborting, dropped>>
  BY DEF Connect
<1>2. client' \in [Clients -> {"idle"} \cup Connected \cup Answers]
  BY DEF Connect, IInv, TypeOK, Connected, Answers
<1>3. /\ backlog' \in [Binders -> Seq(Clients)]
      /\ \A b \in Binders : Len(backlog'[b]) <= BACKLOG
      /\ \A b \in Binders : b \notin listening => backlog'[b] = <<>>
  <2>1. CASE UNCHANGED backlog
    BY <2>1 DEF IInv, TypeOK, Shape
  <2>2. CASE /\ sockAt \in listening /\ Len(backlog[sockAt]) < BACKLOG
             /\ backlog' = [backlog EXCEPT ![sockAt] = Append(@, c)]
    <3>1. sockAt \in Binders /\ backlog[sockAt] \in Seq(Clients)
      BY <2>2 DEF IInv, Shape
    <3>2. /\ Append(backlog[sockAt], c) \in Seq(Clients)
          /\ Len(Append(backlog[sockAt], c)) = Len(backlog[sockAt]) + 1
          /\ Len(backlog[sockAt]) \in Nat
      BY <3>1
    <3> QED BY <2>2, <3>1, <3>2 DEF IInv, TypeOK, Shape
  <2> QED BY <2>1, <2>2 DEF Connect
<1>4. /\ listening' = listening /\ serving' = serving /\ aborting' = aborting
      /\ locked' = locked /\ lockAt' = lockAt /\ opened' = opened
      /\ sockAt' = sockAt /\ pc' = pc /\ dropped' = dropped
  BY <1>1 DEF lockVars
<1>5. Shape'
  BY <1>3, <1>4 DEF IInv, Shape
<1>6. ASSUME NEW b \in Binders
      PROVE  backlog[b] # <<>> \/ serving[b] # None \/ b \in aborting => b \in listening
  BY DEF IInv, TypeOK
<1>7. ASSUME NEW b \in Binders
      PROVE  backlog'[b] # <<>> \/ serving'[b] # None \/ b \in aborting'
               => b \in listening'
  BY <1>3, <1>4, <1>6
<1>8. TypeOK'
  BY <1>2, <1>3, <1>4, <1>7 DEF IInv, TypeOK
<1> QED BY <1>1, <1>5, <1>8, NamesKept DEF IInv

\* Every step keeps the invariant.
LEMMA StepKeeps == ASSUME IInv, [Next]_vars PROVE IInv'
<1>1. CASE UNCHANGED vars
  BY <1>1, NamesKept DEF vars, lockVars, taskVars, IInv, TypeOK, Shape
<1>2. ASSUME NEW b \in Binders,
             CreateLock(b) \/ TryLock(b) \/ RemoveStale(b) \/ Bind(b) \/ Listen(b)
      PROVE  IInv'
  BY <1>2, CreateLockKeeps, TryLockKeeps, RemoveStaleKeeps, BindKeeps, ListenKeeps
<1>3. ASSUME NEW b \in Binders,
             DropStart(b) \/ DropSocket(b) \/ DropLock(b) \/ DropTask(b)
      PROVE  IInv'
  BY <1>3, DropKeeps, DropLockKeeps
<1>4. ASSUME NEW b \in Binders, Crash(b) \/ Serve(b)
      PROVE  IInv'
  BY <1>4, CrashKeeps, ServeKeeps, TaskEndKeeps DEF Serve
<1> QED BY <1>1, <1>2, <1>3, <1>4, ConnectKeeps, LeaveKeeps DEF Next

-----------------------------------------------------------------------------
\* The invariant holds in every reachable state (RefFsBinding).
THEOREM BindingInvariant == Spec => []IInv
<1>1. IInv /\ [Next]_vars => IInv'
  BY StepKeeps
<1> QED BY <1>1, InitHolds, PTL DEF Spec

\* The state keeps its types; a backlog keeps to its bound (wire::bind).
THEOREM BindingTypeCorrect == Spec => []TypeOK
<1>1. IInv => TypeOK
  BY DEF IInv
<1> QED BY <1>1, BindingInvariant, PTL

\* As long as none is dropped one binder at a time has the lock of the path
\* (acquire_lock).
THEOREM LockHasOneOwner == Spec => []OneOwner
<1>1. IInv => OneOwner
  BY LockIsAlone DEF OneOwner
<1> QED BY <1>1, BindingInvariant, PTL

\* As long as none is dropped a binding is what its path leads to, whoever
\* crashed or tried to bind meanwhile (RefFsBinding::new).
THEOREM BindingIsReachable == Spec => []BoundIsReachable
<1>1. IInv => BoundIsReachable
  BY DEF IInv, PathIsOwners, BoundIsReachable, Bound
<1> QED BY <1>1, BindingInvariant, PTL

\* As long as none is dropped whoever is about to bind finds the path free
\* (RefFsBinding::new removes what a crash has left).
THEOREM BindSucceeds == Spec => []BindFindsPathFree
<1>1. IInv => BindFindsPathFree
  BY DEF IInv, PathIsOwners, BindFindsPathFree
<1> QED BY <1>1, BindingInvariant, PTL

-----------------------------------------------------------------------------
(***************************************************************************)
(* The clients that wait.                                                  *)
(***************************************************************************)
Queued(b, i, c) == i \in DOMAIN backlog[b] /\ backlog[b][i] = c

\* A client that a task has in hand is connected, and is in one hand once; one
\* that is connected is in some hand.
InHand ==
  /\ \A b \in Binders, c \in Clients : serving[b] = c => client[c] \in Connected
  /\ \A b \in Binders, c \in Clients, i \in Nat : Queued(b, i, c) => client[c] \in Connected
  /\ \A a, b \in Binders, c \in Clients : serving[a] = c /\ serving[b] = c => a = b
  /\ \A a, b \in Binders, c \in Clients, i, j \in Nat :
       Queued(a, i, c) /\ Queued(b, j, c) => a = b /\ i = j
  /\ \A a, b \in Binders, c \in Clients, i \in Nat : ~(serving[a] = c /\ Queued(b, i, c))
  /\ \A c \in Clients : client[c] \in Connected =>
       \E b \in Binders : serving[b] = c \/ \E i \in Nat : Queued(b, i, c)

\* A task that ends tells all it has in hand, and nobody else.
LEMMA CloseKeepsHands ==
  ASSUME IInv, InHand, NEW b \in Binders, CloseTask(b)
  PROVE  InHand'
<1>1. /\ TypeOK /\ Shape
      /\ \A a \in Binders : /\ serving'[a] = IF a = b THEN None ELSE serving[a]
                            /\ backlog'[a] = IF a = b THEN <<>> ELSE backlog[a]
      /\ client' = HungUp(b)
  BY DEF IInv, Shape, CloseTask
<1>2. ASSUME NEW a \in Binders, NEW c \in Clients
      PROVE  serving'[a] = c <=> a # b /\ serving[a] = c
  BY <1>1, NoneApart
<1>3. ASSUME NEW a \in Binders, NEW c \in Clients, NEW i \in Nat
      PROVE  Queued(a, i, c)' <=> a # b /\ Queued(a, i, c)
  BY <1>1 DEF Queued
<1>4. ASSUME NEW c \in Clients
      PROVE  client'[c] = IF serving[b] = c \/ \E i \in Nat : Queued(b, i, c)
                          THEN Hears(c, "eof") ELSE client[c]
  <2>1. c \in ToSet(backlog[b]) <=> \E i \in Nat : Queued(b, i, c)
    <3>1. backlog[b] \in Seq(Clients)
      BY <1>1 DEF Shape
    <3>2. DOMAIN backlog[b] \subseteq Nat
      BY <3>1
    <3> QED BY <3>2 DEF ToSet, Queued
  <2> QED BY <1>1, <2>1 DEF HungUp
<1> QED BY <1>2, <1>3, <1>4 DEF InHand, Hears, Connected

\* The client at the head of the backlog comes into the hands of the task.
LEMMA AcceptKeepsHands ==
  ASSUME IInv, InHand, NEW b \in Binders, Accept(b)
  PROVE  InHand'
<1>1. /\ backlog[b] \in Seq(Clients) /\ backlog[b] # <<>> /\ serving[b] = None
      /\ \A a \in Binders : /\ serving'[a] = IF a = b THEN Head(backlog[b]) ELSE serving[a]
                            /\ backlog'[a] = IF a = b THEN Tail(backlog[b]) ELSE backlog[a]
      /\ client' = client
  BY DEF IInv, Shape, Accept
<1>2. /\ Head(backlog[b]) = backlog[b][1] /\ Head(backlog[b]) \in Clients
      /\ Len(backlog[b]) \in Nat /\ Len(backlog[b]) > 0
      /\ DOMAIN backlog[b] = 1 .. Len(backlog[b])
      /\ DOMAIN Tail(backlog[b]) = 1 .. Len(backlog[b]) - 1
      /\ \A j \in 1 .. Len(backlog[b]) - 1 : Tail(backlog[b])[j] = backlog[b][j + 1]
  BY <1>1
<1>3. ASSUME NEW a \in Binders, NEW c \in Clients
      PROVE  serving'[a] = c <=> IF a = b THEN Queued(b, 1, c) ELSE serving[a] = c
  BY <1>1, <1>2 DEF Queued
<1>4. ASSUME NEW a \in Binders, NEW c \in Clients, NEW i \in Nat
      PROVE  Queued(a, i, c)' <=> IF a = b THEN i # 0 /\ Queued(b, i + 1, c)
                                           ELSE Queued(a, i, c)
  <2>1. CASE a = b
    <3>1. i \in 1 .. Len(backlog[b]) - 1 <=> i # 0 /\ i + 1 \in 1 .. Len(backlog[b])
      BY <1>2
    <3> QED BY <1>1, <1>2, <2>1, <3>1 DEF Queued
  <2>2. CASE a # b
    BY <1>1, <2>2 DEF Queued
  <2> QED BY <2>1, <2>2
<1>5. ASSUME NEW c \in Clients, NEW i \in Nat, Queued(b, i, c)
      PROVE  i # 0 /\ (i = 1 \/ \E k \in Nat : k # 0 /\ i = k + 1)
  <2>1. i \in 1 .. Len(backlog[b])
    BY <1>2, <1>5 DEF Queued
  <2>2. i = 1 \/ (i - 1 \in Nat /\ i - 1 # 0 /\ i = (i - 1) + 1)
    BY <1>2, <2>1
  <2> QED BY <1>2, <2>1, <2>2
<1>6. \A i, j \in Nat : /\ i + 1 \in Nat /\ (i + 1 = j + 1 => i = j)
                        /\ (i # 0 => i + 1 # 1) /\ 1 \in Nat
  OBVIOUS
<1>7. \A c \in Clients : serving[b] # c
  BY <1>1, NoneApart
<1>8. /\ \A a \in Binders, c \in Clients : serving'[a] = c => client'[c] \in Connected
      /\ \A a \in Binders, c \in Clients, i \in Nat : Queued(a, i, c)' => client'[c] \in Connected
  <2>1. client' = client
    BY <1>1
  <2>2. ASSUME NEW a \in Binders, NEW c \in Clients, serving'[a] = c
        PROVE  client[c] \in Connected
    BY <1>3, <1>6, <2>2 DEF InHand
  <2>3. ASSUME NEW a \in Binders, NEW c \in Clients, NEW i \in Nat, Queued(a, i, c)'
        PROVE  client[c] \in Connected
    BY <1>4, <1>6, <2>3 DEF InHand
  <2> QED BY <2>1, <2>2, <2>3
<1>9. \A a, e \in Binders, c \in Clients : serving'[a] = c /\ serving'[e] = c => a = e
  BY <1>3, <1>6 DEF InHand
<1>10. \A a, e \in Binders, c \in Clients, i, j \in Nat :
         Queued(a, i, c)' /\ Queued(e, j, c)' => a = e /\ i = j
  BY <1>4, <1>6 DEF InHand
<1>11. \A a, e \in Binders, c \in Clients, i \in Nat : ~(serving'[a] = c /\ Queued(e, i, c)')
  BY <1>3, <1>4, <1>6 DEF InHand
<1>12. ASSUME NEW c \in Clients, client'[c] \in Connected
       PROVE  \E e \in Binders : serving'[e] = c \/ \E i \in Nat : Queued(e, i, c)'
  <2>1. PICK e \in Binders : serving[e] = c \/ \E i \in Nat : Queued(e, i, c)
    BY <1>1, <1>12 DEF InHand
  <2>2. CASE e # b
    BY <1>3, <1>4, <2>1, <2>2
  <2>3. CASE e = b
    <3>1. PICK i \in Nat : Queued(b, i, c)
      BY <1>7, <2>1, <2>3
    <3> QED BY <1>3, <1>4, <1>5, <3>1
  <2> QED BY <2>2, <2>3
<1> QED BY <1>8, <1>9, <1>10, <1>11, <1>12 DEF InHand

\* One that was given the capability does not wait any more.
LEMMA SendKeepsHands ==
  ASSUME IInv, InHand, NEW b \in Binders, SendRef(b)
  PROVE  InHand'
<1>1. /\ serving[b] \in Clients /\ backlog' = backlog
      /\ \A a \in Binders : serving'[a] = IF a = b THEN None ELSE serving[a]
      /\ \A c \in Clients : client'[c] = IF c = serving[b] THEN Hears(c, "ref") ELSE client[c]
  BY DEF IInv, TypeOK, Shape, SendRef
<1>2. ASSUME NEW a \in Binders, NEW c \in Clients
      PROVE  serving'[a] = c <=> a # b /\ serving[a] = c
  BY <1>1, NoneApart
<1>3. \A a \in Binders, c \in Clients, i \in Nat : Queued(a, i, c)' <=> Queued(a, i, c)
  BY <1>1 DEF Queued
<1> QED BY <1>1, <1>2, <1>3 DEF InHand, Hears, Connected

\* A client that leaves is still in the hand it was in.
LEMMA LeaveKeepsHands ==
  ASSUME IInv, InHand, NEW c \in Clients, Leave(c)
  PROVE  InHand'
<1>1. \A d \in Clients : client'[d] \in Connected <=> client[d] \in Connected
  BY DEF Leave, Connected, IInv, TypeOK
<1>2. serving' = serving /\ backlog' = backlog
  BY DEF Leave
<1>3. \A a \in Binders, d \in Clients, i \in Nat : Queued(a, i, d)' <=> Queued(a, i, d)
  BY <1>2 DEF Queued
<1> QED BY <1>1, <1>2, <1>3 DEF InHand

\* A client that connects was in no hand, and is then at the end of a backlog.
LEMMA ConnectKeepsHands ==
  ASSUME IInv, InHand, NEW c \in Clients, Connect(c)
  PROVE  InHand'
<1>1. /\ client[c] \notin Connected /\ serving' = serving
      /\ client \in [Clients -> {"idle"} \cup Connected \cup Answers]
  BY DEF IInv, TypeOK, Connect
<1>2. CASE backlog' = backlog /\ \E s \in {"refused", "full"} : client' = [client EXCEPT ![c] = s]
  <2>1. \A d \in Clients : client'[d] \in Connected <=> client[d] \in Connected
    BY <1>1, <1>2 DEF Connected
  <2>2. \A a \in Binders, d \in Clients, i \in Nat : Queued(a, i, d)' <=> Queued(a, i, d)
    BY <1>2 DEF Queued
  <2> QED BY <1>1, <2>1, <2>2 DEF InHand
<1>3. CASE /\ sockAt \in listening
           /\ client' = [client EXCEPT ![c] = "waiting"]
           /\ backlog' = [backlog EXCEPT ![sockAt] = Append(@, c)]
  <2>1. PICK b \in Binders : b = sockAt
    BY <1>3 DEF IInv, Shape
  <2>2. /\ backlog[b] \in Seq(Clients)
        /\ \A a \in Binders : backlog'[a] = IF a = b THEN Append(backlog[b], c) ELSE backlog[a]
    BY <1>3, <2>1 DEF IInv, Shape
  <2> DEFINE n == Len(backlog[b])
  <2>3. /\ n \in Nat /\ n + 1 \in Nat /\ n + 1 \notin 1 .. n
        /\ DOMAIN backlog[b] = 1 .. n /\ DOMAIN Append(backlog[b], c) = 1 .. n + 1
        /\ 1 .. n + 1 = (1 .. n) \cup {n + 1}
        /\ \A i \in 1 .. n : Append(backlog[b], c)[i] = backlog[b][i]
        /\ Append(backlog[b], c)[n + 1] = c
    BY <2>2
  <2> HIDE DEF n
  <2>4. ASSUME NEW a \in Binders, NEW d \in Clients, NEW i \in Nat
        PROVE  Queued(a, i, d)' <=> Queued(a, i, d) \/ (a = b /\ d = c /\ i = n + 1)
    BY <2>2, <2>3 DEF Queued
  <2>5. \A d \in Clients : client'[d] = IF d = c THEN "waiting" ELSE client[d]
    BY <1>1, <1>3
  <2>6. /\ \A a \in Binders : serving[a] # c
        /\ \A a \in Binders, i \in Nat : ~Queued(a, i, c)
    BY <1>1 DEF InHand
  <2> QED BY <1>1, <2>3, <2>4, <2>5, <2>6 DEF InHand, Connected
<1> QED BY <1>2, <1>3 DEF Connect

\* Every step keeps the clients in hand.
LEMMA HandsKept ==
  ASSUME IInv, InHand, [Next]_vars
  PROVE  InHand'
<1>1. ASSUME UNCHANGED <<backlog, serving, client>>
      PROVE  InHand'
  BY <1>1 DEF InHand, Queued
<1>2. ASSUME NEW b \in Binders,
             \/ CreateLock(b) \/ TryLock(b) \/ RemoveStale(b) \/ Bind(b) \/ Listen(b)
             \/ DropStart(b) \/ DropSocket(b) \/ DropLock(b) \/ DropTask(b)
      PROVE  InHand'
  BY <1>1, <1>2
     DEF CreateLock, TryLock, RemoveStale, Bind, Listen, Fails, DropStart, DropSocket,
         DropLock, DropTask, taskVars
<1>3. ASSUME NEW b \in Binders, Crash(b) \/ Serve(b)
      PROVE  InHand'
  BY <1>3, CloseKeepsHands, AcceptKeepsHands, SendKeepsHands
     DEF Crash, Serve, TaskEnds, AcceptFails
<1>4. CASE UNCHANGED vars
  BY <1>1, <1>4 DEF vars, taskVars
<1> QED BY <1>2, <1>3, <1>4, ConnectKeepsHands, LeaveKeepsHands DEF Next

\* A client that is in hand is counted once.
LEMMA HandsCount ==
  ASSUME IInv, InHand
  PROVE  WaitingIsHeld
<1> SUFFICES ASSUME NEW c \in Clients, client[c] = "waiting"
    PROVE  Cardinality({b \in Binders : serving[b] = c})
             + Cardinality({bi \in Binders \X (1..BACKLOG) :
                              bi[2] \in DOMAIN backlog[bi[1]] /\ backlog[bi[1]][bi[2]] = c})
           = 1
  BY DEF WaitingIsHeld
<1> DEFINE S == {b \in Binders : serving[b] = c}
           Q == {bi \in Binders \X (1..BACKLOG) :
                   bi[2] \in DOMAIN backlog[bi[1]] /\ backlog[bi[1]][bi[2]] = c}
<1>1. Q = {bi \in Binders \X (1..BACKLOG) : Queued(bi[1], bi[2], c)}
  BY DEF Queued
<1>2. PICK b \in Binders : serving[b] = c \/ \E i \in Nat : Queued(b, i, c)
  BY DEF InHand, Connected
<1>3. \A i \in 1..BACKLOG : i \in Nat
  OBVIOUS
<1>4. CASE serving[b] = c
  <2>1. S = {b}
    BY <1>4 DEF InHand
  <2>2. Q = {}
    BY <1>1, <1>3, <1>4 DEF InHand
  <2> HIDE DEF S, Q
  <2>3. Cardinality(S) = 1 /\ Cardinality(Q) = 0
    BY <2>1, <2>2, FS_Singleton, FS_EmptySet
  <2> QED BY <2>3 DEF S, Q
<1>5. CASE \E i \in Nat : Queued(b, i, c)
  <2>1. PICK i \in Nat : Queued(b, i, c)
    BY <1>5
  <2>2. S = {}
    BY <2>1 DEF InHand
  <2>3. i \in 1..BACKLOG
    <3>1. backlog[b] \in Seq(Clients) /\ Len(backlog[b]) <= BACKLOG
      BY DEF IInv, TypeOK, Shape
    <3>2. i \in 1 .. Len(backlog[b]) /\ Len(backlog[b]) \in Nat
      BY <2>1, <3>1 DEF Queued
    <3> QED BY <3>1, <3>2, NoneApart
  <2>4. Q = {<<b, i>>}
    <3>1. \A bi \in Binders \X (1..BACKLOG) : Queued(bi[1], bi[2], c) => bi = <<b, i>>
      BY <1>3, <2>1 DEF InHand
    <3>2. <<b, i>> \in Binders \X (1..BACKLOG) /\ <<b, i>>[1] = b /\ <<b, i>>[2] = i
      BY <2>3
    <3> QED BY <1>1, <2>1, <3>1, <3>2
  <2> HIDE DEF S, Q
  <2>5. Cardinality(S) = 0 /\ Cardinality(Q) = 1
    BY <2>2, <2>4, FS_Singleton, FS_EmptySet
  <2> QED BY <2>5 DEF S, Q
<1> QED BY <1>2, <1>4, <1>5

\* A client that waits is in the hands of a task, once, whatever befalls the
\* binding, drops included (the accept loop, AbortOnDrop).
THEOREM NobodyIsStranded == Spec => []WaitingIsHeld
<1>1. Init => InHand
  BY NoneApart DEF Init, InHand, Queued, Connected
<1>2. InHand /\ IInv /\ [Next]_vars => InHand'
  BY HandsKept
<1> QED BY <1>1, <1>2, BindingInvariant, HandsCount, PTL DEF Spec
=============================================================================
