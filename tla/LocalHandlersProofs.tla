------------------------- MODULE LocalHandlersProofs ------------------------
(***************************************************************************)
(* What a lookup in LOCALS finds, for any number of sockets, handlers and  *)
(* numbers.  That it never finds the handler of another node, and that no  *)
(* entry is left behind, holds whatever the process does.  That it finds   *)
(* the handler of a node that receives needs every Arc to be given to one  *)
(* node, and no address to come back while an entry remembers it.          *)
(***************************************************************************)
EXTENDS LocalHandlers, TLAPS

\* A node, or what is left of one.
Active(n) == n \in handle \/ loop[n] # "none"

\* The types that TypeOK leaves open; an active slot has a handler.
Shape ==
  /\ open \subseteq Slots
  /\ handle \subseteq Slots
  /\ aborted \subseteq Slots
  /\ \A n \in Slots : Active(n) => handler[n] # None

\* A ref knows the number of its socket or none, and open ones have their own.
NumbersAreOwn ==
  /\ \A n \in Slots : id[n] # None => id[n] = ino[n]
  /\ \A m, n \in open : ino[m] = ino[n] => m = n

\* What is filed under the number of an open socket of ours is its own.
EntryIsOwn ==
  \A n \in open : handler[n] # None /\ id[n] # None => locals[id[n]] \in {handler[n], None}

IInv == TypeOK /\ Shape /\ NumbersAreOwn /\ EntryIsOwn /\ EntryHasLoop

\* Two nodes have two handlers, up to the last of what is left of either.
HandlersDiffer ==
  \A m, n \in Slots : Active(m) /\ Active(n) /\ handler[m] = handler[n] => m = n

\* The entry of a node that receives is there.
EntryIsThere ==
  \A n \in open : loop[n] = "up" /\ id[n] # None => locals[id[n]] = handler[n]

OwnArcs == Situations \cap {"shared", "realloc"} = {}

-----------------------------------------------------------------------------
\* None is neither a handler nor a number.
LEMMA NoneApart == None \notin Handlers /\ None \notin Inodes
BY LocalHandlersAssumption

\* At first there is no node.
LEMMA InitHolds == Init => IInv /\ HandlersDiffer /\ EntryIsThere
BY NoneApart
   DEF Init, IInv, TypeOK, Shape, NumbersAreOwn, EntryIsOwn, EntryHasLoop,
       HandlersDiffer, EntryIsThere, Active

\* A new socket keeps the numbers apart.
LEMMA NewSocketFacts ==
  ASSUME IInv, NEW n \in Slots, NewSocket(n)
  PROVE  /\ open' = open \cup {n} /\ n \notin open /\ ~Active(n)
         /\ ino' \in [Slots -> Inodes]
         /\ id' \in [Slots -> Inodes \cup {None}]
         /\ \A m \in Slots : m # n => id'[m] = id[m] /\ ino'[m] = ino[m]
         /\ \A m \in open : ino[m] # ino'[n]
         /\ id'[n] \in {None, ino'[n]}
<1> USE NoneApart
<1>1. PICK i \in Inodes :
        /\ Reissuable(i)
        /\ ino' = [ino EXCEPT ![n] = i]
        /\ id' = [id EXCEPT ![n] = i] \/ id' = [id EXCEPT ![n] = None]
  BY DEF NewSocket
<1>2. open' = open \cup {n} /\ n \notin open /\ ~Active(n)
  BY DEF NewSocket, Unused, Active
<1> QED BY <1>1, <1>2 DEF Reissuable, IInv, TypeOK, Shape

\* Node::new_raw files the new handler, over what is left of an earlier node.
LEMMA NewKeeps ==
  ASSUME IInv, NEW n \in Slots, NEW h \in Handlers, New(n, h)
  PROVE  IInv'
<1> USE NoneApart
<1>1. /\ handler' = [handler EXCEPT ![n] = h] /\ loop' = [loop EXCEPT ![n] = "up"]
      /\ handle' = handle \cup {n} /\ aborted' = aborted
      /\ locals' = [i \in Inodes |-> IF i = id'[n] THEN h ELSE locals[i]]
      /\ NewSocket(n)
  BY DEF New
<1>2. TypeOK'
  BY <1>1, NewSocketFacts DEF IInv, TypeOK, Active
<1>3. Shape'
  BY <1>1, NewSocketFacts DEF IInv, TypeOK, Shape, Active
<1>4. NumbersAreOwn'
  BY <1>1, NewSocketFacts DEF IInv, TypeOK, Shape, NumbersAreOwn
<1>5. EntryIsOwn'
  BY <1>1, <1>4, NewSocketFacts DEF IInv, TypeOK, Shape, NumbersAreOwn, EntryIsOwn
<1>6. EntryHasLoop'
  <2> SUFFICES ASSUME NEW i \in Inodes, locals'[i] # None
               PROVE  \E m \in Slots : /\ loop'[m] # "none" /\ id'[m] = i
                                       /\ handler'[m] = locals'[i]
    BY DEF EntryHasLoop
  <2>1. CASE i = id'[n]
    BY <1>1, <2>1 DEF IInv, TypeOK
  <2>2. CASE i # id'[n]
    <3>1. locals'[i] = locals[i]
      BY <1>1, <2>2
    <3>2. PICK m \in Slots : loop[m] # "none" /\ id[m] = i /\ handler[m] = locals[i]
      BY <3>1 DEF IInv, EntryHasLoop
    <3>3. m # n
      BY <1>1, <3>2, NewSocketFacts DEF Active
    <3> QED BY <1>1, <3>1, <3>2, <3>3, NewSocketFacts DEF IInv, TypeOK
  <2> QED BY <2>1, <2>2
<1> QED BY <1>2, <1>3, <1>4, <1>5, <1>6 DEF IInv

\* A socket of another process has a number of its own and no entry.
LEMMA ForeignKeeps ==
  ASSUME IInv, NEW n \in Slots, Foreign(n)
  PROVE  IInv'
<1> USE NoneApart
<1>1. /\ handler' = [handler EXCEPT ![n] = None]
      /\ UNCHANGED <<locals, loop, handle, aborted>> /\ NewSocket(n)
  BY DEF Foreign
<1>2. TypeOK' /\ Shape'
  BY <1>1, NewSocketFacts DEF IInv, TypeOK, Shape, Active
<1>3. NumbersAreOwn'
  BY <1>1, NewSocketFacts DEF IInv, TypeOK, Shape, NumbersAreOwn
<1>4. EntryIsOwn'
  BY <1>1, NewSocketFacts DEF IInv, TypeOK, Shape, EntryIsOwn
<1>5. EntryHasLoop'
  BY <1>1, NewSocketFacts DEF IInv, TypeOK, EntryHasLoop, Active
<1> QED BY <1>2, <1>3, <1>4, <1>5 DEF IInv

\* Refs and handles go; the number of a socket that closed is free again.
LEMMA LetGoKeeps ==
  ASSUME IInv, NEW n \in Slots, LastRefGoes(n) \/ DropNode(n) \/ ToService(n)
  PROVE  IInv'
<1>1. /\ UNCHANGED <<locals, ino, id, handler, loop>>
      /\ open' \subseteq open /\ handle' \subseteq handle
      /\ \A m \in aborted' : m \in aborted \/ (m = n /\ loop[n] = "up" /\ n \notin handle')
  BY DEF LastRefGoes, DropNode, ToService
<1>2. TypeOK'
  BY <1>1 DEF IInv, TypeOK
<1>3. Shape' /\ NumbersAreOwn' /\ EntryIsOwn' /\ EntryHasLoop'
  BY <1>1 DEF IInv, Shape, Active, NumbersAreOwn, EntryIsOwn, EntryHasLoop
<1> QED BY <1>2, <1>3 DEF IInv

\* The loop ends and, a step later, takes its entry out.
LEMMA LoopKeeps ==
  ASSUME IInv, NEW n \in Slots, LoopEnds(n) \/ Unfile(n)
  PROVE  IInv'
<1> USE NoneApart
<1>1. CASE LoopEnds(n)
  BY <1>1
     DEF LoopEnds, IInv, TypeOK, Shape, Active, NumbersAreOwn, EntryIsOwn, EntryHasLoop
<1>2. CASE Unfile(n)
  <2>1. TypeOK' /\ Shape' /\ NumbersAreOwn'
    BY <1>2 DEF Unfile, IInv, TypeOK, Shape, Active, NumbersAreOwn
  <2>2. EntryIsOwn'
    BY <1>2 DEF Unfile, IInv, TypeOK, Shape, EntryIsOwn
  <2>3. EntryHasLoop'
    <3> SUFFICES ASSUME NEW i \in Inodes, locals'[i] # None
                 PROVE  \E m \in Slots : /\ loop'[m] # "none" /\ id'[m] = i
                                         /\ handler'[m] = locals'[i]
      BY DEF EntryHasLoop
    <3>1. locals'[i] = locals[i] /\ ~(i = id[n] /\ locals[i] = handler[n])
      BY <1>2 DEF Unfile
    <3>2. PICK m \in Slots : loop[m] # "none" /\ id[m] = i /\ handler[m] = locals[i]
      BY <3>1 DEF IInv, EntryHasLoop
    <3> QED BY <1>2, <3>1, <3>2 DEF Unfile, IInv, TypeOK
  <2> QED BY <2>1, <2>2, <2>3 DEF IInv
<1> QED BY <1>1, <1>2

\* Every step keeps the invariant.
LEMMA StepKeeps == ASSUME IInv, [Next]_vars PROVE IInv'
<1>1. CASE UNCHANGED vars
  BY <1>1
     DEF vars, IInv, TypeOK, Shape, Active, NumbersAreOwn, EntryIsOwn, EntryHasLoop
<1> QED BY <1>1, NewKeeps, ForeignKeeps, LetGoKeeps, LoopKeeps DEF Next

-----------------------------------------------------------------------------
\* With an Arc for each node a new one has a handler that nobody remembers.
LEMMA HandlersStayApart ==
  ASSUME OwnArcs, IInv, HandlersDiffer, [Next]_vars
  PROVE  HandlersDiffer'
<1> USE NoneApart
<1>1. CASE UNCHANGED vars
  BY <1>1 DEF vars, HandlersDiffer, Active
<1>2. ASSUME NEW n \in Slots, NEW h \in Handlers, New(n, h)
      PROVE  HandlersDiffer'
  <2>1. ~Allocated(h) /\ ~Remembered(h)
    BY <1>2 DEF New, Offered, OwnArcs
  <2>2. \A m \in Slots : Active(m) => handler[m] # h
    BY <2>1 DEF Allocated, Strong, Remembered, Active, IInv, TypeOK
  <2>3. /\ handler' = [handler EXCEPT ![n] = h] /\ loop' = [loop EXCEPT ![n] = "up"]
        /\ handle' = handle \cup {n}
    BY <1>2 DEF New
  <2> QED BY <2>2, <2>3 DEF HandlersDiffer, Active, IInv, TypeOK
<1>3. ASSUME NEW n \in Slots, Foreign(n)
      PROVE  HandlersDiffer'
  BY <1>3, NewSocketFacts DEF Foreign, HandlersDiffer, Active, IInv, TypeOK
<1>4. ASSUME NEW n \in Slots, LastRefGoes(n) \/ DropNode(n) \/ ToService(n)
      PROVE  HandlersDiffer'
  BY <1>4 DEF LastRefGoes, DropNode, ToService, HandlersDiffer, Active
<1>5. ASSUME NEW n \in Slots, LoopEnds(n) \/ Unfile(n)
      PROVE  HandlersDiffer'
  BY <1>5 DEF LoopEnds, Unfile, HandlersDiffer, Active, IInv, TypeOK
<1> QED BY <1>1, <1>2, <1>3, <1>4, <1>5 DEF Next

\* With an Arc for each node nobody but a node's own loop takes its entry out.
LEMMA EntryStays ==
  ASSUME IInv, HandlersDiffer, EntryIsThere, [Next]_vars
  PROVE  EntryIsThere'
<1> USE NoneApart
<1>1. CASE UNCHANGED vars
  BY <1>1 DEF vars, EntryIsThere
<1>2. ASSUME NEW n \in Slots, NEW h \in Handlers, New(n, h)
      PROVE  EntryIsThere'
  <2>1. /\ handler' = [handler EXCEPT ![n] = h] /\ loop' = [loop EXCEPT ![n] = "up"]
        /\ locals' = [i \in Inodes |-> IF i = id'[n] THEN h ELSE locals[i]]
        /\ NewSocket(n)
    BY <1>2 DEF New
  <2> QED
    BY <2>1, NewSocketFacts DEF EntryIsThere, IInv, TypeOK, Shape, NumbersAreOwn
<1>3. ASSUME NEW n \in Slots, Foreign(n)
      PROVE  EntryIsThere'
  BY <1>3, NewSocketFacts DEF Foreign, EntryIsThere, Active, IInv, TypeOK, Shape
<1>4. ASSUME NEW n \in Slots, LastRefGoes(n) \/ DropNode(n) \/ ToService(n)
      PROVE  EntryIsThere'
  BY <1>4 DEF LastRefGoes, DropNode, ToService, EntryIsThere
<1>5. ASSUME NEW n \in Slots, LoopEnds(n)
      PROVE  EntryIsThere'
  BY <1>5 DEF LoopEnds, EntryIsThere, IInv, TypeOK, Shape
<1>6. ASSUME NEW n \in Slots, Unfile(n)
      PROVE  EntryIsThere'
  BY <1>6
     DEF Unfile, EntryIsThere, HandlersDiffer, Active, IInv, TypeOK, Shape
<1> QED BY <1>1, <1>2, <1>3, <1>4, <1>5, <1>6 DEF Next

-----------------------------------------------------------------------------
\* The invariant holds in every reachable state (Node::new_raw, LocalEntry).
THEOREM LocalsInvariant == Spec => []IInv
<1>1. IInv /\ [Next]_vars => IInv'
  BY StepKeeps
<1> QED BY <1>1, InitHolds, PTL DEF Spec

\* The state keeps its types.
THEOREM LocalsTypeCorrect == Spec => []TypeOK
<1>1. IInv => TypeOK
  BY DEF IInv
<1> QED BY <1>1, LocalsInvariant, PTL

\* A ref never finds the handler of another node, whatever numbers and
\* addresses come back and whoever shares an Arc (Ref::local_handler).
THEOREM FindsNobodyElse == Spec => []NeverAnothers
<1>1. IInv => NeverAnothers
  BY DEF IInv, EntryIsOwn, NeverAnothers, LocalHandler
<1> QED BY <1>1, LocalsInvariant, PTL

\* No entry is left without a loop that will take it out (LocalEntry::drop).
THEOREM EntriesHaveLoops == Spec => []EntryHasLoop
<1>1. IInv => EntryHasLoop
  BY DEF IInv
<1> QED BY <1>1, LocalsInvariant, PTL

\* If every node has an Arc of its own, each node that receives is found from
\* its refs (Node::new_raw, LocalEntry::drop).
THEOREM ReceiversAreFound ==
  ASSUME OwnArcs PROVE Spec => []FoundWhileReceiving
<1> DEFINE Inv == IInv /\ HandlersDiffer /\ EntryIsThere
<1>1. Inv /\ [Next]_vars => Inv'
  BY StepKeeps, HandlersStayApart, EntryStays
<1>2. Inv => FoundWhileReceiving
  BY DEF IInv, Shape, EntryIsThere, FoundWhileReceiving, LocalHandler, Strong
<1>3. Init => Inv
  BY InitHolds
<1> QED BY <1>1, <1>2, <1>3, PTL DEF Spec
=============================================================================
