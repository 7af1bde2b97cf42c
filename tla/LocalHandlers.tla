--------------------------- MODULE LocalHandlers ---------------------------
(***************************************************************************)
(* LOCALS, the map from a socket's inode number to the handler of the node *)
(* that receives on its other end (feature local-handlers): Node::new_raw  *)
(* files an entry, the receive loop of the node takes it out as it ends,   *)
(* and Ref::local_handler looks it up.                                     *)
(*                                                                         *)
(* A slot is a pair of sockets: a node of this process with the socket its *)
(* refs send to, or a connection to a node elsewhere.  The kernel gives    *)
(* the inode number of that socket to another as soon as the last ref is   *)
(* gone, which is before the loop hears of it.  A handler is the address   *)
(* of its Arc, given out again once nothing strong or weak refers to it.   *)
(*                                                                         *)
(* new_raw is one step: no ref to the node exists outside it until it      *)
(* returns, so nobody can look the node up before.                         *)
(***************************************************************************)
EXTENDS Naturals, FiniteSets

CONSTANTS
  Slots,       \* socket pairs that can exist at a time
  Handlers,    \* addresses of handlers
  Inodes,      \* numbers the kernel can give
  None,        \* no handler, no number
  Situations   \* what the process does, out of AllSituations

AllSituations == {
  "shared",    \* it gives one Arc<H> to several nodes
  "realloc",   \* an address that a LocalEntry remembers is given out again
  "foreign",   \* it gets refs to nodes of other processes
  "fstat" }    \* fstat fails on an open descriptor

ASSUME LocalHandlersAssumption ==
  /\ None \notin Handlers \cup Inodes
  /\ Situations \subseteq AllSituations

VARIABLES
  locals,    \* LOCALS: the address of the handler filed under each number
  open,      \* the slots whose socket some ref, here or elsewhere, names
  ino,       \* the number of that socket
  id,        \* RefInner::id, the same number unless fstat failed
  handler,   \* the handler of the node, None for a connection elsewhere
  loop,      \* its receive loop: "none", "up" or "over"
  handle,    \* the slots whose Node is held
  aborted    \* the slots whose receive loop has been told to stop

vars == <<locals, open, ino, id, handler, loop, handle, aborted>>

Init ==
  /\ locals = [i \in Inodes |-> None]
  /\ open = {}
  /\ ino \in [Slots -> Inodes]
  /\ \A m, n \in Slots : ino[m] = ino[n]
  /\ id = [n \in Slots |-> None]
  /\ handler = [n \in Slots |-> None]
  /\ loop = [n \in Slots |-> "none"]
  /\ handle = {}
  /\ aborted = {}

-----------------------------------------------------------------------------
\* The slot can stand for another pair.
Unused(n) == n \notin open \cup handle /\ loop[n] = "none"

\* The number i is free for a new socket.
Reissuable(i) == \A n \in open : ino[n] # i

\* The Arc has an owner: the Node, or the loop until its future is dropped.
Strong(h) == \E n \in Slots : handler[n] = h /\ (n \in handle \/ loop[n] = "up")

\* Its memory is in use, for a Weak keeps it too.
Allocated(h) == Strong(h) \/ \E i \in Inodes : locals[i] = h

Remembered(h) == \E n \in Slots : loop[n] = "over" /\ handler[n] = h

\* the handlers a new node can be given
Offered(h) ==
  IF Allocated(h) THEN "shared" \in Situations /\ Strong(h)
                  ELSE "realloc" \in Situations \/ ~Remembered(h)

-----------------------------------------------------------------------------
\* The socket of slot n is there, under a number of the kernel's choice, and
\* fstat has told it.
NewSocket(n) ==
  /\ Unused(n)
  /\ open' = open \cup {n}
  /\ \E i \in Inodes :
       /\ Reissuable(i)
       /\ ino' = [ino EXCEPT ![n] = i]
       /\ id' \in {[id EXCEPT ![n] = i]}
                  \cup IF "fstat" \in Situations
                         THEN {[id EXCEPT ![n] = None]} ELSE {}

\* Node::new_raw: a plain insert, over whatever is filed under the number.
New_KeepsEntry(n, h) ==
  /\ Offered(h)
  /\ NewSocket(n)
  /\ handler' = [handler EXCEPT ![n] = h]
  /\ loop' = [loop EXCEPT ![n] = "up"]
  /\ handle' = handle \cup {n}
  /\ locals' = [i \in Inodes |->
                 IF i = id'[n] /\ locals[i] = None THEN h ELSE locals[i]]
  /\ UNCHANGED aborted
New(n, h) ==
  /\ Offered(h)
  /\ NewSocket(n)
  /\ handler' = [handler EXCEPT ![n] = h]
  /\ loop' = [loop EXCEPT ![n] = "up"]
  /\ handle' = handle \cup {n}
  /\ locals' = [i \in Inodes |-> IF i = id'[n] THEN h ELSE locals[i]]
  /\ UNCHANGED aborted

\* A socket of another process: Ref::connect, or a capability that arrives.
Foreign(n) ==
  /\ "foreign" \in Situations
  /\ NewSocket(n)
  /\ handler' = [handler EXCEPT ![n] = None]
  /\ UNCHANGED <<locals, loop, handle, aborted>>

\* The last descriptor of the socket closes.
LastRefGoes(n) ==
  /\ n \in open
  /\ open' = open \ {n}
  /\ UNCHANGED <<locals, ino, id, handler, loop, handle, aborted>>

\* The Node is dropped, and its loop told to stop.
DropNode(n) ==
  /\ n \in handle
  /\ handle' = handle \ {n}
  /\ aborted' = IF loop[n] = "up" THEN aborted \cup {n} ELSE aborted
  /\ UNCHANGED <<locals, open, ino, id, handler, loop>>

ToService(n) ==
  /\ n \in handle
  /\ handle' = handle \ {n}
  /\ UNCHANGED <<locals, open, ino, id, handler, loop, aborted>>

\* The loop ends, hung up, aborted, or by an error or a panic at any time.  Its
\* future goes first, and the share of the handler with it.
LoopEnds(n) ==
  /\ loop[n] = "up"
  /\ loop' = [loop EXCEPT ![n] = "over"]
  /\ aborted' = aborted \ {n}
  /\ UNCHANGED <<locals, open, ino, id, handler, handle>>

\* LocalEntry::drop: takes out what is filed under the number, if the address
\* is still that of the handler this entry filed.
Unfile_Any(n) ==
  /\ loop[n] = "over"
  /\ loop' = [loop EXCEPT ![n] = "none"]
  /\ locals' = [i \in Inodes |-> IF i = id[n] THEN None ELSE locals[i]]
  /\ UNCHANGED <<open, ino, id, handler, handle, aborted>>
Unfile_Never(n) ==
  /\ loop[n] = "over"
  /\ loop' = [loop EXCEPT ![n] = "none"]
  /\ UNCHANGED <<locals, open, ino, id, handler, handle, aborted>>
Unfile(n) ==
  /\ loop[n] = "over"
  /\ loop' = [loop EXCEPT ![n] = "none"]
  /\ locals' = [i \in Inodes |->
                 IF i = id[n] /\ locals[i] = handler[n] THEN None ELSE locals[i]]
  /\ UNCHANGED <<open, ino, id, handler, handle, aborted>>

\* Ref::local_handler on a ref to the socket of slot n.  The Weak is copied out
\* and upgraded after; the ref keeps the number from being reissued meanwhile.
LocalHandler(n) ==
  IF id[n] = None THEN None
  ELSE LET h == locals[id[n]] IN IF Strong(h) THEN h ELSE None

-----------------------------------------------------------------------------
Next ==
  \E n \in Slots :
    \/ \E h \in Handlers : New(n, h)
    \/ Foreign(n) \/ LastRefGoes(n)
    \/ DropNode(n) \/ ToService(n)
    \/ LoopEnds(n) \/ Unfile(n)

Spec == Init /\ [][Next]_vars

-----------------------------------------------------------------------------
(***************************************************************************)
(* Properties.                                                             *)
(***************************************************************************)
\* Every variable keeps to its values; a loop told to stop is a loop that runs,
\* and the one who told it has given up the Node.
TypeOK ==
  /\ locals \in [Inodes -> Handlers \cup {None}]
  /\ ino \in [Slots -> Inodes]
  /\ id \in [Slots -> Inodes \cup {None}]
  /\ handler \in [Slots -> Handlers \cup {None}]
  /\ loop \in [Slots -> {"none", "up", "over"}]
  /\ \A n \in aborted : loop[n] = "up" /\ n \notin handle

\* A node that receives is found from each of its refs: no entry of an earlier
\* node under the same number hides it, and no late LocalEntry::drop takes its
\* entry out.
FoundWhileReceiving ==
  \A n \in open : loop[n] = "up" /\ id[n] # None => LocalHandler(n) = handler[n]

\* What a ref to a node of this process finds is the handler of that node or
\* nothing, also when its number was that of another node (local_handler).
NeverAnothers ==
  \A n \in open : handler[n] # None => LocalHandler(n) \in {handler[n], None}

\* The map is bounded by the live local nodes: each entry is that of a node whose
\* loop has still to take it out.
EntryHasLoop ==
  \A i \in Inodes : locals[i] # None =>
    \E n \in Slots : loop[n] # "none" /\ id[n] = i /\ handler[n] = locals[i]
=============================================================================
