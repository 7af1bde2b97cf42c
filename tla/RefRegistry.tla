---------------------------- MODULE RefRegistry ----------------------------
(***************************************************************************)
(* REFS, the registry that makes a capability that arrives twice be one    *)
(* Ref: Ref::from_fd, Ref::clone, and the drop of the last clone, on the   *)
(* threads of one process.                                                 *)
(*                                                                         *)
(* A socket is one open file description.  The registry knows it by its    *)
(* inode number, which the kernel gives to another socket as soon as no    *)
(* descriptor names this one any more.  A cell is one RefInner; its memory *)
(* is not given to another while a Weak to it is in the map.               *)
(*                                                                         *)
(* Each operation on the map is one step: it holds the lock of the shard.  *)
(* The strong count is the set of threads that hold clones, so the clones  *)
(* of one thread come and go together.                                     *)
(***************************************************************************)
EXTENDS Naturals, FiniteSets

CONSTANTS
  Threads,   \* threads of the process
  Sockets,   \* sockets that can exist
  Inodes,    \* numbers the kernel can give them
  Cells,     \* RefInners that can exist
  None,      \* no cell, no inode
  Faults     \* "fstat": fstat may fail on an open descriptor

ASSUME RefRegistryAssumption ==
  /\ None \notin Cells \cup Inodes
  /\ Faults \subseteq {"fstat"}

VARIABLES
  ino,      \* the inode number of each socket, meaningless once it is closed
  abroad,   \* sockets named by descriptors of others, or in flight
  tail,     \* sockets a drain task still names after its Ref went
  state,    \* of each cell: "free", "live", "dying" or "unfiled"
  sock,     \* the socket its descriptor names
  id,       \* RefInner::id
  held,     \* the threads that hold a clone of it
  refs,     \* REFS: for each inode number the cell of the Weak filed there
  pc,       \* where each thread is
  fd,       \* the socket named by the descriptor it wraps
  key,      \* what fstat said of it
  victim    \* the cell it drops

kernelVars == <<ino, abroad, tail>>
cellVars   == <<state, sock, id, held>>
threadVars == <<pc, fd, key, victim>>
vars == <<kernelVars, cellVars, refs, threadVars>>

CellStates   == {"free", "live", "dying", "unfiled"}
ThreadPoints == {"idle", "fstat", "entry", "drop", "close"}

Init ==
  /\ ino \in [Sockets -> Inodes]
  /\ abroad = {}
  /\ tail = {}
  /\ state = [c \in Cells |-> "free"]
  /\ sock \in [Cells -> Sockets]
  /\ \A c, d \in Cells : sock[c] = sock[d]
  /\ id = [c \in Cells |-> None]
  /\ held = [c \in Cells |-> {}]
  /\ refs = [i \in Inodes |-> None]
  /\ pc = [t \in Threads |-> "idle"]
  /\ fd \in [Threads -> Sockets]
  /\ \A t, u \in Threads : fd[t] = fd[u]
  /\ key = [t \in Threads |-> None]
  /\ victim = [t \in Threads |-> None]

-----------------------------------------------------------------------------
\* Some descriptor names s: it is open and its inode number is taken.
Named_NotWhileInterning(s) ==
  \/ s \in abroad \cup tail
  \/ \E t \in Threads : pc[t] = "fstat" /\ fd[t] = s
  \/ \E c \in Cells : state[c] # "free" /\ sock[c] = s
Named(s) ==
  \/ s \in abroad \cup tail
  \/ \E t \in Threads : pc[t] \in {"fstat", "entry"} /\ fd[t] = s
  \/ \E c \in Cells : state[c] # "free" /\ sock[c] = s

Taken(i) == \E s \in Sockets : Named(s) /\ ino[s] = i

\* memory the allocator can give out
Allocatable(c) == state[c] = "free" /\ \A i \in Inodes : refs[i] # c

\* a Ref to a new cell for the descriptor t wraps
NewCell(t, c, i) ==
  /\ Allocatable(c)
  /\ state' = [state EXCEPT ![c] = "live"]
  /\ sock' = [sock EXCEPT ![c] = fd[t]]
  /\ id' = [id EXCEPT ![c] = i]
  /\ held' = [held EXCEPT ![c] = {t}]

Goto(t, point) == pc' = [pc EXCEPT ![t] = point]

-----------------------------------------------------------------------------
(***************************************************************************)
(* Where descriptors come from and go to.                                  *)
(***************************************************************************)
\* wire::socketpair or wire::connect: a new socket under any free number.
Open(t, s) ==
  /\ pc[t] = "idle"
  /\ ~Named(s)
  /\ \E i \in Inodes : ~Taken(i) /\ ino' = [ino EXCEPT ![s] = i]
  /\ fd' = [fd EXCEPT ![t] = s]
  /\ Goto(t, "fstat")
  /\ UNCHANGED <<abroad, tail, cellVars, refs, key, victim>>

\* A capability arrives on a message.
Arrive(t, s) ==
  /\ pc[t] = "idle"
  /\ s \in abroad
  /\ fd' = [fd EXCEPT ![t] = s]
  /\ Goto(t, "fstat")
  /\ UNCHANGED <<kernelVars, cellVars, refs, key, victim>>

\* Message::add_ref: a copy of the descriptor leaves with a message.
HandOut(t, c) ==
  /\ pc[t] = "idle"
  /\ t \in held[c]
  /\ abroad' = abroad \cup {sock[c]}
  /\ UNCHANGED <<ino, tail, cellVars, refs, threadVars>>

\* The others close theirs.
Forget(s) ==
  /\ s \in abroad
  /\ abroad' = abroad \ {s}
  /\ UNCHANGED <<ino, tail, cellVars, refs, threadVars>>

\* The drain task of a Ref that went has sent its backlog.
TailEnds(s) ==
  /\ s \in tail
  /\ tail' = tail \ {s}
  /\ UNCHANGED <<ino, abroad, cellVars, refs, threadVars>>

-----------------------------------------------------------------------------
(***************************************************************************)
(* Ref::from_fd.                                                           *)
(***************************************************************************)
\* bound: one Ref at a time lives outside the registry, so that the cells last
NoStray == \A c \in Cells : state[c] = "free" \/ id[c] # None

\* socket_id; without one the cell stays outside the registry.
Fstat(t) ==
  /\ pc[t] = "fstat"
  /\ \/ /\ key' = [key EXCEPT ![t] = ino[fd[t]]]
        /\ Goto(t, "entry")
        /\ UNCHANGED cellVars
     \/ /\ "fstat" \in Faults
        /\ NoStray
        /\ \E c \in Cells : NewCell(t, c, None)
        /\ Goto(t, "idle")
        /\ UNCHANGED key
  /\ UNCHANGED <<kernelVars, refs, fd, victim>>

\* a Weak that can be upgraded
Hit(i) == refs[i] # None /\ state[refs[i]] = "live"

\* REFS.entry(id): share the cell that is filed there if it can be upgraded,
\* and close the descriptor; else file a new one, over a dead Weak if need be.
Entry_KeepsDead(t) ==
  LET i == key[t] IN
  /\ pc[t] = "entry"
  /\ Goto(t, "idle")
  /\ \/ /\ Hit(i)
        /\ held' = [held EXCEPT ![refs[i]] = @ \cup {t}]
        /\ UNCHANGED <<state, sock, id, refs>>
     \/ /\ ~Hit(i)
        /\ \E c \in Cells :
             /\ NewCell(t, c, i)
             /\ refs' = [refs EXCEPT ![i] = IF @ = None THEN c ELSE @]
  /\ UNCHANGED <<kernelVars, fd, key, victim>>
Entry(t) ==
  LET i == key[t] IN
  /\ pc[t] = "entry"
  /\ Goto(t, "idle")
  /\ \/ /\ Hit(i)
        /\ held' = [held EXCEPT ![refs[i]] = @ \cup {t}]
        /\ UNCHANGED <<state, sock, id, refs>>
     \/ /\ ~Hit(i)
        /\ \E c \in Cells :
             /\ NewCell(t, c, i)
             /\ refs' = [refs EXCEPT ![i] = c]
  /\ UNCHANGED <<kernelVars, fd, key, victim>>

-----------------------------------------------------------------------------
(***************************************************************************)
(* Clone and drop.                                                         *)
(***************************************************************************)
Clone(t, u, c) ==
  /\ pc[t] = "idle"
  /\ t \in held[c]
  /\ held' = [held EXCEPT ![c] = @ \cup {u}]
  /\ UNCHANGED <<kernelVars, state, sock, id, refs, threadVars>>

\* A clone goes.  With the last one the strong count is zero, and this thread
\* is the one to run RefInner::drop.
DropRef(t, c) ==
  /\ pc[t] = "idle"
  /\ t \in held[c]
  /\ held' = [held EXCEPT ![c] = @ \ {t}]
  /\ \/ /\ held[c] # {t}
        /\ UNCHANGED <<state, pc, victim>>
     \/ /\ held[c] = {t}
        /\ state' = [state EXCEPT ![c] = "dying"]
        /\ victim' = [victim EXCEPT ![t] = c]
        /\ Goto(t, "drop")
  /\ UNCHANGED <<kernelVars, sock, id, refs, fd, key>>

\* RefInner::drop removes what is filed under its id only if it is dead.
DropBody_RemovesAny(t) ==
  LET c == victim[t] IN
  /\ pc[t] = "drop"
  /\ Goto(t, "close")
  /\ state' = [state EXCEPT ![c] = "unfiled"]
  /\ refs' = [i \in Inodes |-> IF i = id[c] THEN None ELSE refs[i]]
  /\ UNCHANGED <<kernelVars, sock, id, held, fd, key, victim>>
DropBody_Forgets(t) ==
  LET c == victim[t] IN
  /\ pc[t] = "drop"
  /\ Goto(t, "close")
  /\ state' = [state EXCEPT ![c] = "unfiled"]
  /\ UNCHANGED <<kernelVars, sock, id, held, refs, fd, key, victim>>
DropBody(t) ==
  LET c == victim[t] IN
  /\ pc[t] = "drop"
  /\ Goto(t, "close")
  /\ state' = [state EXCEPT ![c] = "unfiled"]
  /\ refs' = [i \in Inodes |->
               IF i = id[c] /\ ~Hit(i) THEN None ELSE refs[i]]
  /\ UNCHANGED <<kernelVars, sock, id, held, fd, key, victim>>

\* Its fields drop after it: the descriptor closes, and an outbox that still
\* has a backlog leaves it, and a dup of the descriptor, to its drain task.
CloseFields(t) ==
  LET c == victim[t] IN
  /\ pc[t] = "close"
  /\ state' = [state EXCEPT ![c] = "free"]
  /\ tail' \in {tail, tail \cup {sock[c]}}
  /\ victim' = [victim EXCEPT ![t] = None]
  /\ Goto(t, "idle")
  /\ UNCHANGED <<ino, abroad, sock, id, held, refs, fd, key>>

-----------------------------------------------------------------------------
Next ==
  \/ \E t \in Threads :
       \/ \E s \in Sockets : Open(t, s) \/ Arrive(t, s)
       \/ Fstat(t) \/ Entry(t) \/ DropBody(t) \/ CloseFields(t)
       \/ \E c \in Cells : \/ HandOut(t, c) \/ DropRef(t, c)
                           \/ \E u \in Threads : Clone(t, u, c)
  \/ \E s \in Sockets : Forget(s) \/ TailEnds(s)

Spec == Init /\ [][Next]_vars

-----------------------------------------------------------------------------
(***************************************************************************)
(* Properties.                                                             *)
(***************************************************************************)
\* Every variable keeps to its values, and a cell is held exactly while live.
TypeOK ==
  /\ ino \in [Sockets -> Inodes]
  /\ abroad \subseteq Sockets
  /\ tail \subseteq Sockets
  /\ state \in [Cells -> CellStates]
  /\ sock \in [Cells -> Sockets]
  /\ id \in [Cells -> Inodes \cup {None}]
  /\ held \in [Cells -> SUBSET Threads]
  /\ refs \in [Inodes -> Cells \cup {None}]
  /\ pc \in [Threads -> ThreadPoints]
  /\ fd \in [Threads -> Sockets]
  /\ key \in [Threads -> Inodes \cup {None}]
  /\ victim \in [Threads -> Cells \cup {None}]
  /\ \A c \in Cells : state[c] = "live" <=> held[c] # {}

\* A capability that arrives twice is one capability: no two live Refs of the
\* process send to one socket, except one that fstat kept out of the registry
\* (REFS, Ref::is_same).
OneRefPerSocket ==
  \A c, d \in Cells :
    /\ state[c] = "live" /\ state[d] = "live"
    /\ id[c] # None /\ id[d] # None
    /\ sock[c] = sock[d]
    => c = d

\* A live Ref is found under its number: no drop of another has taken its entry
\* out (RefInner::drop).
LiveIsFiled ==
  \A c \in Cells : state[c] = "live" /\ id[c] # None => refs[id[c]] = c

\* An entry never outlives its socket: the number it is filed under is still
\* that socket's, and the descriptor is open ("an entry that outlived its
\* socket ... would eventually name somebody else's", SocketId).
EntryNamesItsSocket ==
  \A i \in Inodes : refs[i] # None =>
    LET c == refs[i] IN
    /\ state[c] \in {"live", "dying"}
    /\ id[c] = i
    /\ ino[sock[c]] = i

\* What from_fd returns sends to the socket its descriptor named, whatever was
\* dropped or opened since fstat.
WrapsItsSocket ==
  [][\A t \in Threads :
       pc[t] \in {"fstat", "entry"} /\ pc'[t] = "idle" =>
         \E c \in Cells : t \in held'[c] /\ sock'[c] = fd[t]]_vars
=============================================================================
