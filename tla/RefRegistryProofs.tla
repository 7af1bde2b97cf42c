-------------------------- MODULE RefRegistryProofs -------------------------
(***************************************************************************)
(* The registry keeps its promises for any number of threads, sockets,     *)
(* inode numbers and cells.  The inductive invariant adds to them that two *)
(* open sockets never share a number, that what a thread learned from      *)
(* fstat stays true while it holds the descriptor, that a filed cell knows *)
(* its socket's number, and that a dead cell belongs to the thread that    *)
(* drops it.                                                               *)
(***************************************************************************)
EXTENDS RefRegistry, TLAPS

\* Two sockets that are open have two numbers.
NumbersDiffer ==
  \A s, r \in Sockets : Named(s) /\ Named(r) /\ ino[s] = ino[r] => s = r

\* The number a thread is about to look up is that of its descriptor.
KeyIsFresh == \A t \in Threads : pc[t] = "entry" => key[t] = ino[fd[t]]

\* A cell in the registry has the number of the socket it holds open.
CellKnowsNumber ==
  \A c \in Cells : state[c] # "free" /\ id[c] # None => id[c] = ino[sock[c]]

\* A thread in RefInner::drop has a dead cell of its own.
VictimIsOwn ==
  /\ \A t \in Threads :
       /\ pc[t] = "drop"  => victim[t] \in Cells /\ state[victim[t]] = "dying"
       /\ pc[t] = "close" => victim[t] \in Cells /\ state[victim[t]] = "unfiled"
  /\ \A t, u \in Threads :
       /\ pc[t] \in {"drop", "close"} /\ pc[u] \in {"drop", "close"}
       /\ victim[t] = victim[u]
       => t = u

IInv ==
  /\ TypeOK
  /\ NumbersDiffer
  /\ KeyIsFresh
  /\ CellKnowsNumber
  /\ VictimIsOwn
  /\ LiveIsFiled
  /\ EntryNamesItsSocket

-----------------------------------------------------------------------------
\* None is neither a cell nor a number.
LEMMA NoneApart == None \notin Cells /\ None \notin Inodes
BY RefRegistryAssumption

\* Before anything is opened nothing is named and nothing is filed.
LEMMA InitHolds == Init => IInv
BY NoneApart
   DEF Init, IInv, TypeOK, NumbersDiffer, KeyIsFresh, CellKnowsNumber, VictimIsOwn,
       LiveIsFiled, EntryNamesItsSocket, Named, CellStates, ThreadPoints

\* A step that changes nothing keeps the invariant.
LEMMA StutterKeeps == ASSUME IInv, UNCHANGED vars PROVE IInv'
BY DEF IInv, TypeOK, NumbersDiffer, KeyIsFresh, CellKnowsNumber, VictimIsOwn, LiveIsFiled,
       EntryNamesItsSocket, Named, vars, kernelVars, cellVars, threadVars

\* A new socket takes a number that no open one has.
LEMMA OpenKeeps ==
  ASSUME IInv, NEW t \in Threads, NEW s \in Sockets, Open(t, s)
  PROVE  IInv'
<1> USE NoneApart DEF kernelVars, cellVars, threadVars
<1>1. PICK n \in Inodes : ~Taken(n) /\ ino' = [ino EXCEPT ![s] = n]
  BY DEF Open
<1>2. TypeOK'
  BY <1>1 DEF IInv, TypeOK, Open, Goto, ThreadPoints, CellStates
<1>3. \A r \in Sockets : r # s /\ Named(r)' => Named(r)
  BY DEF IInv, TypeOK, Open, Named, Goto
<1>4. \A r \in Sockets : r # s => ino'[r] = ino[r]
  BY <1>1 DEF IInv, TypeOK
<1>5. ino'[s] = n
  BY <1>1 DEF IInv, TypeOK
<1>6. NumbersDiffer'
  BY <1>1, <1>3, <1>4, <1>5 DEF IInv, NumbersDiffer, Taken
<1>7. KeyIsFresh'
  BY <1>4 DEF IInv, TypeOK, KeyIsFresh, Open, Goto, Named
<1>8. CellKnowsNumber'
  BY <1>4 DEF IInv, TypeOK, CellKnowsNumber, Open, Named
<1>9. VictimIsOwn'
  BY DEF IInv, TypeOK, VictimIsOwn, Open, Goto
<1>10. LiveIsFiled'
  BY DEF IInv, LiveIsFiled, Open
<1>11. EntryNamesItsSocket'
  BY <1>4 DEF IInv, TypeOK, EntryNamesItsSocket, Open, Named
<1> QED BY <1>2, <1>6, <1>7, <1>8, <1>9, <1>10, <1>11 DEF IInv

\* A descriptor that arrives names a socket that was named before.
LEMMA ArriveKeeps ==
  ASSUME IInv, NEW t \in Threads, NEW s \in Sockets, Arrive(t, s)
  PROVE  IInv'
<1> USE NoneApart DEF kernelVars, cellVars, threadVars
<1>1. TypeOK'
  BY DEF IInv, TypeOK, Arrive, Goto, ThreadPoints, CellStates
<1>2. \A r \in Sockets : Named(r)' => Named(r)
  BY DEF IInv, TypeOK, Arrive, Named, Goto
<1>3. NumbersDiffer'
  BY <1>2 DEF IInv, NumbersDiffer, Arrive
<1>4. KeyIsFresh'
  BY DEF IInv, TypeOK, KeyIsFresh, Arrive, Goto
<1>5. CellKnowsNumber'
  BY DEF IInv, CellKnowsNumber, Arrive
<1>6. VictimIsOwn'
  BY DEF IInv, TypeOK, VictimIsOwn, Arrive, Goto
<1>7. LiveIsFiled' /\ EntryNamesItsSocket'
  BY DEF IInv, LiveIsFiled, EntryNamesItsSocket, Arrive
<1> QED BY <1>1, <1>3, <1>4, <1>5, <1>6, <1>7 DEF IInv

\* What others do with their descriptors names no socket anew.
LEMMA AbroadKeeps ==
  ASSUME IInv,
         \/ \E t \in Threads, c \in Cells : HandOut(t, c)
         \/ \E s \in Sockets : Forget(s) \/ TailEnds(s)
  PROVE  IInv'
<1> USE NoneApart DEF kernelVars, cellVars, threadVars
<1>1. UNCHANGED <<ino, cellVars, refs, threadVars>>
  BY DEF HandOut, Forget, TailEnds
<1>2. /\ abroad' \subseteq Sockets /\ tail' \subseteq Sockets
      /\ \A r \in Sockets : Named(r)' => Named(r)
  BY DEF IInv, TypeOK, HandOut, Forget, TailEnds, Named
<1>3. TypeOK'
  BY <1>1, <1>2 DEF IInv, TypeOK
<1>4. NumbersDiffer'
  BY <1>1, <1>2 DEF IInv, NumbersDiffer
<1>5. KeyIsFresh' /\ CellKnowsNumber' /\ VictimIsOwn' /\ LiveIsFiled' /\ EntryNamesItsSocket'
  BY <1>1 DEF IInv, KeyIsFresh, CellKnowsNumber, VictimIsOwn, LiveIsFiled, EntryNamesItsSocket
<1> QED BY <1>3, <1>4, <1>5 DEF IInv

-----------------------------------------------------------------------------
\* fstat: the number of an open socket, or a cell outside the registry.
LEMMA FstatKeeps ==
  ASSUME IInv, NEW t \in Threads, Fstat(t)
  PROVE  IInv'
<1> USE NoneApart DEF kernelVars, cellVars, threadVars
<1>1. CASE /\ key' = [key EXCEPT ![t] = ino[fd[t]]]
           /\ Goto(t, "entry") /\ UNCHANGED cellVars
  <2>1. UNCHANGED <<kernelVars, cellVars, refs, fd, victim>> /\ pc[t] = "fstat"
    BY <1>1 DEF Fstat
  <2>2. TypeOK'
    BY <1>1, <2>1 DEF IInv, TypeOK, Goto, ThreadPoints
  <2>3. \A r \in Sockets : Named(r)' => Named(r)
    BY <1>1, <2>1 DEF IInv, TypeOK, Named, Goto
  <2>4. NumbersDiffer'
    BY <2>1, <2>3 DEF IInv, NumbersDiffer
  <2>5. KeyIsFresh' /\ VictimIsOwn'
    BY <1>1, <2>1 DEF IInv, TypeOK, KeyIsFresh, VictimIsOwn, Goto
  <2>6. CellKnowsNumber' /\ LiveIsFiled' /\ EntryNamesItsSocket'
    BY <2>1 DEF IInv, CellKnowsNumber, LiveIsFiled, EntryNamesItsSocket
  <2> QED BY <2>2, <2>4, <2>5, <2>6 DEF IInv
<1>2. CASE /\ \E c \in Cells : NewCell(t, c, None)
           /\ Goto(t, "idle") /\ UNCHANGED key
  <2>1. PICK c \in Cells : NewCell(t, c, None)
    BY <1>2
  <2>2. UNCHANGED <<kernelVars, refs, fd, victim, key>> /\ pc[t] = "fstat"
    BY <1>2 DEF Fstat
  <2>3. TypeOK'
    BY <1>2, <2>1, <2>2 DEF IInv, TypeOK, Goto, NewCell, Allocatable, ThreadPoints, CellStates
  <2>4. \A r \in Sockets : Named(r)' => Named(r)
    BY <1>2, <2>1, <2>2 DEF IInv, TypeOK, Named, Goto, NewCell
  <2>5. NumbersDiffer'
    BY <2>2, <2>4 DEF IInv, NumbersDiffer
  <2>6. KeyIsFresh'
    BY <1>2, <2>2 DEF IInv, TypeOK, KeyIsFresh, Goto
  <2>7. VictimIsOwn'
    BY <1>2, <2>1, <2>2 DEF IInv, TypeOK, VictimIsOwn, Goto, NewCell, Allocatable
  <2>8. CellKnowsNumber' /\ LiveIsFiled' /\ EntryNamesItsSocket'
    BY <2>1, <2>2 DEF IInv, TypeOK, CellKnowsNumber, LiveIsFiled, EntryNamesItsSocket,
       NewCell, Allocatable
  <2> QED BY <2>3, <2>5, <2>6, <2>7, <2>8 DEF IInv
<1> QED BY <1>1, <1>2 DEF Fstat

\* A capability that is filed and alive is shared ...
LEMMA HitKeeps ==
  ASSUME IInv, NEW t \in Threads, Entry(t), Hit(key[t])
  PROVE  /\ IInv'
         /\ t \in held'[refs[key[t]]] /\ sock'[refs[key[t]]] = fd[t]
         /\ refs[key[t]] \in Cells
<1> USE NoneApart DEF kernelVars, cellVars, threadVars
<1> DEFINE c == refs[key[t]]
<1>1. /\ held' = [held EXCEPT ![c] = @ \cup {t}]
      /\ UNCHANGED <<kernelVars, state, sock, id, refs, fd, key, victim>>
      /\ pc[t] = "entry" /\ Goto(t, "idle")
      /\ key[t] \in Inodes /\ c \in Cells /\ state[c] = "live"
  BY DEF Entry, Hit, IInv, TypeOK, KeyIsFresh
<1>2. TypeOK'
  BY <1>1 DEF IInv, TypeOK, Goto, ThreadPoints
<1>3. \A r \in Sockets : Named(r)' => Named(r)
  BY <1>1 DEF IInv, TypeOK, Named, Goto
<1>4. NumbersDiffer'
  BY <1>1, <1>3 DEF IInv, NumbersDiffer
<1>5. KeyIsFresh' /\ VictimIsOwn'
  BY <1>1 DEF IInv, TypeOK, KeyIsFresh, VictimIsOwn, Goto
<1>6. CellKnowsNumber' /\ LiveIsFiled' /\ EntryNamesItsSocket'
  BY <1>1 DEF IInv, CellKnowsNumber, LiveIsFiled, EntryNamesItsSocket
<1>7. Named(fd[t]) /\ Named(sock[c]) /\ ino[fd[t]] = ino[sock[c]]
  BY <1>1 DEF IInv, TypeOK, Named, KeyIsFresh, EntryNamesItsSocket
<1>8. sock[c] = fd[t]
  BY <1>1, <1>7 DEF IInv, TypeOK, NumbersDiffer
<1> QED BY <1>1, <1>2, <1>4, <1>5, <1>6, <1>8 DEF IInv, TypeOK

\* ... and otherwise a new cell is filed, over a dead one's Weak if need be.
LEMMA MissKeeps ==
  ASSUME IInv, NEW t \in Threads, Entry(t), ~Hit(key[t])
  PROVE  IInv' /\ \E c \in Cells : t \in held'[c] /\ sock'[c] = fd[t]
<1> USE NoneApart DEF kernelVars, cellVars, threadVars
<1> DEFINE i == key[t]
<1>1. PICK c \in Cells : NewCell(t, c, i) /\ refs' = [refs EXCEPT ![i] = c]
  BY DEF Entry
<1>2. /\ UNCHANGED <<kernelVars, fd, key, victim>>
      /\ pc[t] = "entry" /\ Goto(t, "idle")
      /\ i \in Inodes /\ i = ino[fd[t]]
  BY DEF Entry, IInv, TypeOK, KeyIsFresh
<1>3. /\ state' = [state EXCEPT ![c] = "live"] /\ state[c] = "free"
      /\ sock' = [sock EXCEPT ![c] = fd[t]]
      /\ id' = [id EXCEPT ![c] = i]
      /\ held' = [held EXCEPT ![c] = {t}]
      /\ \A j \in Inodes : refs[j] # c
  BY <1>1 DEF NewCell, Allocatable
<1>4. TypeOK'
  BY <1>1, <1>2, <1>3 DEF IInv, TypeOK, Goto, ThreadPoints, CellStates
<1>5. \A r \in Sockets : Named(r)' => Named(r)
  BY <1>2, <1>3 DEF IInv, TypeOK, Named, Goto
<1>6. NumbersDiffer'
  BY <1>2, <1>5 DEF IInv, NumbersDiffer
<1>7. KeyIsFresh'
  BY <1>2 DEF IInv, TypeOK, KeyIsFresh, Goto
<1>8. VictimIsOwn'
  BY <1>2, <1>3 DEF IInv, TypeOK, VictimIsOwn, Goto
<1>9. CellKnowsNumber'
  BY <1>2, <1>3 DEF IInv, TypeOK, CellKnowsNumber
<1>10. LiveIsFiled'
  <2> SUFFICES ASSUME NEW d \in Cells, state'[d] = "live", id'[d] # None
               PROVE  refs'[id'[d]] = d
    BY DEF LiveIsFiled
  <2>1. CASE d = c
    BY <1>1, <1>2, <1>3, <2>1 DEF IInv, TypeOK
  <2>2. CASE d # c
    <3>1. state[d] = "live" /\ id'[d] = id[d] /\ id[d] \in Inodes /\ refs[id[d]] = d
      BY <1>3, <2>2 DEF IInv, TypeOK, LiveIsFiled
    <3>2. id[d] # i
      BY <3>1 DEF Hit
    <3> QED BY <1>1, <1>2, <3>1, <3>2 DEF IInv, TypeOK
  <2> QED BY <2>1, <2>2
<1>11. EntryNamesItsSocket'
  BY <1>1, <1>2, <1>3 DEF IInv, TypeOK, EntryNamesItsSocket
<1>12. t \in held'[c] /\ sock'[c] = fd[t]
  BY <1>3 DEF IInv, TypeOK
<1> QED BY <1>4, <1>6, <1>7, <1>8, <1>9, <1>10, <1>11, <1>12 DEF IInv

-----------------------------------------------------------------------------
\* A clone changes only who holds a live cell.
LEMMA CloneKeeps ==
  ASSUME IInv, NEW t \in Threads, NEW u \in Threads, NEW c \in Cells, Clone(t, u, c)
  PROVE  IInv'
<1> USE NoneApart DEF kernelVars, cellVars, threadVars
<1>1. TypeOK'
  BY DEF IInv, TypeOK, Clone
<1>2. NumbersDiffer' /\ KeyIsFresh' /\ CellKnowsNumber'
  BY DEF IInv, NumbersDiffer, KeyIsFresh, CellKnowsNumber, Clone, Named
<1>3. VictimIsOwn' /\ LiveIsFiled' /\ EntryNamesItsSocket'
  BY DEF IInv, VictimIsOwn, LiveIsFiled, EntryNamesItsSocket, Clone
<1> QED BY <1>1, <1>2, <1>3 DEF IInv

\* A clone goes; the last one leaves a dead cell, whose entry stays for now.
LEMMA DropRefKeeps ==
  ASSUME IInv, NEW t \in Threads, NEW c \in Cells, DropRef(t, c)
  PROVE  IInv'
<1> USE NoneApart DEF kernelVars, cellVars, threadVars
<1>1. CASE held[c] # {t} /\ UNCHANGED <<state, pc, victim>>
  <2>1. TypeOK'
    BY <1>1 DEF IInv, TypeOK, DropRef
  <2>2. NumbersDiffer' /\ KeyIsFresh' /\ CellKnowsNumber'
    BY <1>1 DEF IInv, NumbersDiffer, KeyIsFresh, CellKnowsNumber, DropRef, Named
  <2>3. VictimIsOwn' /\ LiveIsFiled' /\ EntryNamesItsSocket'
    BY <1>1 DEF IInv, VictimIsOwn, LiveIsFiled, EntryNamesItsSocket, DropRef
  <2> QED BY <2>1, <2>2, <2>3 DEF IInv
<1>2. CASE /\ held[c] = {t}
           /\ state' = [state EXCEPT ![c] = "dying"]
           /\ victim' = [victim EXCEPT ![t] = c]
           /\ Goto(t, "drop")
  <2>1. /\ pc[t] = "idle" /\ state[c] = "live"
        /\ held' = [held EXCEPT ![c] = @ \ {t}]
        /\ UNCHANGED <<kernelVars, sock, id, refs, fd, key>>
    BY <1>2 DEF DropRef, IInv, TypeOK
  <2>2. TypeOK'
    BY <1>2, <2>1 DEF IInv, TypeOK, Goto, ThreadPoints, CellStates
  <2>3. \A r \in Sockets : Named(r)' => Named(r)
    BY <1>2, <2>1 DEF IInv, TypeOK, Named, Goto
  <2>4. NumbersDiffer'
    BY <2>1, <2>3 DEF IInv, NumbersDiffer
  <2>5. KeyIsFresh'
    BY <1>2, <2>1 DEF IInv, TypeOK, KeyIsFresh, Goto
  <2>6. CellKnowsNumber'
    BY <1>2, <2>1 DEF IInv, TypeOK, CellKnowsNumber
  <2>7. VictimIsOwn'
    BY <1>2, <2>1 DEF IInv, TypeOK, VictimIsOwn, Goto
  <2>8. LiveIsFiled' /\ EntryNamesItsSocket'
    BY <1>2, <2>1 DEF IInv, TypeOK, LiveIsFiled, EntryNamesItsSocket
  <2> QED BY <2>2, <2>4, <2>5, <2>6, <2>7, <2>8 DEF IInv
<1> QED BY <1>1, <1>2 DEF DropRef

\* RefInner::drop takes the entry of a dead cell out and leaves a live one's.
LEMMA DropBodyKeeps ==
  ASSUME IInv, NEW t \in Threads, DropBody(t)
  PROVE  IInv'
<1> USE NoneApart DEF kernelVars, cellVars, threadVars
<1> DEFINE c == victim[t]
<1>1. /\ pc[t] = "drop" /\ Goto(t, "close")
      /\ c \in Cells /\ state[c] = "dying"
      /\ state' = [state EXCEPT ![c] = "unfiled"]
      /\ refs' = [i \in Inodes |-> IF i = id[c] /\ ~Hit(i) THEN None ELSE refs[i]]
      /\ UNCHANGED <<kernelVars, sock, id, held, fd, key, victim>>
  BY DEF DropBody, IInv, VictimIsOwn
<1>2. TypeOK'
  BY <1>1 DEF IInv, TypeOK, Goto, ThreadPoints, CellStates
<1>3. \A r \in Sockets : Named(r)' => Named(r)
  BY <1>1 DEF IInv, TypeOK, Named, Goto
<1>4. NumbersDiffer'
  BY <1>1, <1>3 DEF IInv, NumbersDiffer
<1>5. KeyIsFresh'
  BY <1>1 DEF IInv, TypeOK, KeyIsFresh, Goto
<1>6. CellKnowsNumber'
  BY <1>1 DEF IInv, TypeOK, CellKnowsNumber
<1>7. VictimIsOwn'
  BY <1>1 DEF IInv, TypeOK, VictimIsOwn, Goto
<1>8. LiveIsFiled'
  BY <1>1 DEF IInv, TypeOK, LiveIsFiled, Hit
<1>9. EntryNamesItsSocket'
  BY <1>1 DEF IInv, TypeOK, EntryNamesItsSocket, Hit
<1> QED BY <1>2, <1>4, <1>5, <1>6, <1>7, <1>8, <1>9 DEF IInv

\* The descriptor closes when no entry names its cell any more.
LEMMA CloseFieldsKeeps ==
  ASSUME IInv, NEW t \in Threads, CloseFields(t)
  PROVE  IInv'
<1> USE NoneApart DEF kernelVars, cellVars, threadVars
<1> DEFINE c == victim[t]
<1>1. /\ pc[t] = "close" /\ Goto(t, "idle")
      /\ c \in Cells /\ state[c] = "unfiled"
      /\ state' = [state EXCEPT ![c] = "free"]
      /\ tail' \in {tail, tail \cup {sock[c]}}
      /\ victim' = [victim EXCEPT ![t] = None]
      /\ UNCHANGED <<ino, abroad, sock, id, held, refs, fd, key>>
  BY DEF CloseFields, IInv, VictimIsOwn
<1>2. TypeOK'
  BY <1>1 DEF IInv, TypeOK, Goto, ThreadPoints, CellStates
<1>3. \A r \in Sockets : Named(r)' => Named(r)
  BY <1>1 DEF IInv, TypeOK, Named, Goto
<1>4. NumbersDiffer'
  BY <1>1, <1>3 DEF IInv, NumbersDiffer
<1>5. KeyIsFresh'
  BY <1>1 DEF IInv, TypeOK, KeyIsFresh, Goto
<1>6. CellKnowsNumber'
  BY <1>1 DEF IInv, TypeOK, CellKnowsNumber
<1>7. VictimIsOwn'
  BY <1>1 DEF IInv, TypeOK, VictimIsOwn, Goto
<1>8. LiveIsFiled'
  BY <1>1 DEF IInv, TypeOK, LiveIsFiled
<1>9. EntryNamesItsSocket'
  BY <1>1 DEF IInv, TypeOK, EntryNamesItsSocket
<1> QED BY <1>2, <1>4, <1>5, <1>6, <1>7, <1>8, <1>9 DEF IInv

-----------------------------------------------------------------------------
\* Every step of the specification keeps the invariant.
LEMMA StepKeeps == ASSUME IInv, [Next]_vars PROVE IInv'
<1>1. CASE UNCHANGED vars
  BY <1>1, StutterKeeps
<1>2. ASSUME NEW t \in Threads, NEW s \in Sockets, Open(t, s) \/ Arrive(t, s) PROVE IInv'
  BY <1>2, OpenKeeps, ArriveKeeps
<1>3. ASSUME NEW t \in Threads, Fstat(t) PROVE IInv'
  BY <1>3, FstatKeeps
<1>4. ASSUME NEW t \in Threads, Entry(t) PROVE IInv'
  BY <1>4, HitKeeps, MissKeeps
<1>5. ASSUME NEW t \in Threads, DropBody(t) \/ CloseFields(t) PROVE IInv'
  BY <1>5, DropBodyKeeps, CloseFieldsKeeps
<1>6. ASSUME NEW t \in Threads, NEW c \in Cells, DropRef(t, c) PROVE IInv'
  BY <1>6, DropRefKeeps
<1>7. ASSUME NEW t \in Threads, NEW c \in Cells, NEW u \in Threads, Clone(t, u, c) PROVE IInv'
  BY <1>7, CloneKeeps
<1>8. ASSUME \/ \E t \in Threads, c \in Cells : HandOut(t, c)
             \/ \E s \in Sockets : Forget(s) \/ TailEnds(s)
      PROVE  IInv'
  BY <1>8, AbroadKeeps
<1> QED BY <1>1, <1>2, <1>3, <1>4, <1>5, <1>6, <1>7, <1>8 DEF Next

\* The invariant holds in every reachable state (Ref::from_fd, Ref::clone,
\* RefInner::drop).
THEOREM RegistryInvariant == Spec => []IInv
<1>1. IInv /\ [Next]_vars => IInv'
  BY StepKeeps
<1> QED BY <1>1, InitHolds, PTL DEF Spec

\* The state keeps its types, and the strong count is zero exactly when the
\* cell is dead.
THEOREM RegistryTypeCorrect == Spec => []TypeOK
<1>1. IInv => TypeOK
  BY DEF IInv
<1> QED BY <1>1, RegistryInvariant, PTL

\* Two capabilities for one socket are one Ref, whatever threads receive,
\* clone and drop meanwhile (REFS).
THEOREM OneRef == Spec => []OneRefPerSocket
<1>1. IInv => OneRefPerSocket
  BY DEF IInv, TypeOK, OneRefPerSocket, LiveIsFiled, CellKnowsNumber
<1> QED BY <1>1, RegistryInvariant, PTL

\* No drop takes out the entry of a live Ref (RefInner::drop).
THEOREM LiveStaysFiled == Spec => []LiveIsFiled
<1>1. IInv => LiveIsFiled
  BY DEF IInv
<1> QED BY <1>1, RegistryInvariant, PTL

\* No entry outlives its socket (RefInner::drop runs before the descriptor
\* closes).
THEOREM EntriesNameTheirSockets == Spec => []EntryNamesItsSocket
<1>1. IInv => EntryNamesItsSocket
  BY DEF IInv
<1> QED BY <1>1, RegistryInvariant, PTL

\* from_fd gives a Ref to the socket its descriptor names, although the
\* number it looks up was read before the lock was taken.
THEOREM FromFdWrapsItsSocket == Spec => WrapsItsSocket
<1> DEFINE Wraps(t) ==
      pc[t] \in {"fstat", "entry"} /\ pc'[t] = "idle" =>
        \E c \in Cells : t \in held'[c] /\ sock'[c] = fd[t]
<1>1. ASSUME IInv, [Next]_vars, NEW t \in Threads PROVE Wraps(t)
  <2> SUFFICES ASSUME pc[t] \in {"fstat", "entry"}, pc'[t] = "idle"
               PROVE  \E c \in Cells : t \in held'[c] /\ sock'[c] = fd[t]
    OBVIOUS
  <2> USE NoneApart DEF kernelVars, cellVars, threadVars
  <2>0. TypeOK
    BY <1>1 DEF IInv
  <2>1. Fstat(t) \/ Entry(t)
    <3>1. Next
      BY <1>1 DEF vars
    <3>2. pc' # pc
      OBVIOUS
    <3>3. PICK u \in Threads :
            \/ \E s \in Sockets : Open(u, s) \/ Arrive(u, s)
            \/ Fstat(u) \/ Entry(u) \/ DropBody(u) \/ CloseFields(u)
            \/ \E c \in Cells : DropRef(u, c)
      BY <3>1, <3>2 DEF Next, HandOut, Clone, Forget, TailEnds
    <3>4. \A v \in Threads : v # u => pc'[v] = pc[v]
      BY <2>0, <3>3 DEF TypeOK, Open, Arrive, Fstat, Entry, DropBody, CloseFields, DropRef,
         Goto
    <3>5. u = t
      BY <3>4
    <3> QED BY <3>3, <3>5 DEF Open, Arrive, DropBody, CloseFields, DropRef
  <2>2. CASE Entry(t) /\ Hit(key[t])
    <3>1. key[t] \in Inodes
      BY <1>1, <2>0, <2>2 DEF IInv, KeyIsFresh, Entry, TypeOK
    <3>2. refs[key[t]] \in Cells /\ state[refs[key[t]]] = "live"
      BY <2>0, <2>2, <3>1 DEF Hit, TypeOK
    <3>3. sock[refs[key[t]]] = fd[t]
      BY <1>1, <2>0, <2>2, <3>1, <3>2
         DEF IInv, KeyIsFresh, NumbersDiffer, EntryNamesItsSocket, Named, Entry, TypeOK
    <3>4. t \in held'[refs[key[t]]] /\ sock' = sock
      BY <2>0, <2>2, <3>2 DEF Entry, TypeOK
    <3> QED BY <3>2, <3>3, <3>4
  <2>3. CASE Entry(t) /\ ~Hit(key[t])
    <3>1. PICK c \in Cells : NewCell(t, c, key[t])
      BY <2>3 DEF Entry
    <3> QED BY <2>0, <3>1 DEF NewCell, TypeOK
  <2>4. CASE Fstat(t)
    <3>1. pc'[t] # "entry"
      OBVIOUS
    <3>2. PICK c \in Cells : NewCell(t, c, None)
      BY <2>0, <2>4, <3>1 DEF Fstat, Goto, TypeOK
    <3> QED BY <2>0, <3>2 DEF NewCell, TypeOK
  <2> QED BY <2>1, <2>2, <2>3, <2>4
<1>2. IInv /\ [Next]_vars => [\A t \in Threads : Wraps(t)]_vars
  BY <1>1
<1> QED BY <1>2, RegistryInvariant, PTL DEF Spec, WrapsItsSocket
=============================================================================
