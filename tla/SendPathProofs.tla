--------------------------- MODULE SendPathProofs ---------------------------
(***************************************************************************)
(* Proofs about SendPath, for any sets of senders and refs, any DEPTH and  *)
(* any socket: the types, the account that `pending' keeps, with the       *)
(* strengthening (Accounts) that the other proofs about SendPath build on, *)
(* and the account of an outbox's slots.                                   *)
(***************************************************************************)
EXTENDS SendPath, FiniteSetTheorems, SequenceTheorems, TLAPS

ClaimPoints == {"push", "unclaim", "permit"}

\* A sender that has dropped its ref is not inside a call.
BusyIsLive == \A s \in Senders : pc[s] # "idle" => s \in live

\* Who is in line waits for a slot of that channel, and is in line once; a
\* closed channel has no line.
WaitersOK ==
  \A r \in Refs :
    /\ \A i \in DOMAIN waiters[r] :
         pc[waiters[r][i]] = "waiting" /\ ref[waiters[r][i]] = r
    /\ \A i, j \in DOMAIN waiters[r] :
         waiters[r][i] = waiters[r][j] => i = j
    /\ drain[r] = "gone" => waiters[r] = <<>>

Accounts == TypeOK /\ PendingExact /\ BusyIsLive /\ WaitersOK

-----------------------------------------------------------------------------
(***************************************************************************)
(* Sequences.                                                              *)
(***************************************************************************)
\* Removing one element leaves a sequence of the others, in their order.
LEMMA RemoveAtFacts ==
  ASSUME NEW S, NEW q \in Seq(S), NEW i \in DOMAIN q
  PROVE  /\ RemoveAt(q, i) \in Seq(S)
         /\ Len(RemoveAt(q, i)) = Len(q) - 1
         /\ \A j \in 1 .. Len(q) - 1 :
              RemoveAt(q, i)[j] = IF j < i THEN q[j] ELSE q[j + 1]
<1> DEFINE a == SubSeq(q, 1, i - 1)
           b == SubSeq(q, i + 1, Len(q))
<1>1. i \in 1 .. Len(q) /\ Len(q) \in Nat
  OBVIOUS
<1>2. /\ a \in Seq(S)
      /\ Len(a) = i - 1
      /\ \A j \in 1 .. i - 1 : a[j] = q[j]
  <2>1. \A j \in 1 .. i - 1 : q[j] \in S
    BY <1>1
  <2> QED BY <1>1, <2>1, SubSeqProperties
<1>3. /\ b \in Seq(S)
      /\ Len(b) = Len(q) - i
      /\ \A j \in 1 .. Len(q) - i : b[j] = q[i + j]
  <2>1. \A j \in i + 1 .. Len(q) : q[j] \in S
    BY <1>1
  <2> QED BY <1>1, <2>1, SubSeqProperties
<1> HIDE DEF a, b
<1>4. RemoveAt(q, i) = a \o b
  BY DEF RemoveAt, a, b
<1>5. /\ a \o b \in Seq(S)
      /\ Len(a \o b) = Len(q) - 1
      /\ \A j \in 1 .. Len(q) - 1 :
           (a \o b)[j] = IF j <= i - 1 THEN a[j] ELSE b[j - (i - 1)]
  <2>1. /\ a \o b \in Seq(S)
        /\ Len(a \o b) = Len(a) + Len(b)
        /\ \A j \in 1 .. Len(a) + Len(b) :
             (a \o b)[j] = IF j <= Len(a) THEN a[j] ELSE b[j - Len(a)]
    BY <1>2, <1>3, ConcatProperties
  <2>2. Len(a) + Len(b) = Len(q) - 1
    BY <1>1, <1>2, <1>3
  <2> QED BY <1>2, <2>1, <2>2
<1>6. ASSUME NEW j \in 1 .. Len(q) - 1
      PROVE  (a \o b)[j] = IF j < i THEN q[j] ELSE q[j + 1]
  <2>1. CASE j < i
    BY <2>1, <1>1, <1>2, <1>5
  <2>2. CASE ~(j < i)
    <3>1. j - (i - 1) \in 1 .. Len(q) - i /\ i + (j - (i - 1)) = j + 1
      BY <2>2, <1>1
    <3> QED BY <3>1, <2>2, <1>1, <1>3, <1>5
  <2> QED BY <2>1, <2>2
<1> QED BY <1>4, <1>5, <1>6

\* What Head and Tail of a sequence are.
LEMMA HeadTail ==
  ASSUME NEW S, NEW q \in Seq(S), q # <<>>
  PROVE  /\ Head(q) \in S
         /\ Head(q) = q[1]
         /\ Tail(q) \in Seq(S)
         /\ Len(q) > 0
         /\ Len(Tail(q)) = Len(q) - 1
         /\ \A j \in 1 .. Len(q) - 1 : Tail(q)[j] = q[j + 1]
  OBVIOUS

-----------------------------------------------------------------------------
(***************************************************************************)
(* Claimers.                                                               *)
(***************************************************************************)
\* There are finitely many claims on a ref.
LEMMA ClaimersFinite ==
  ASSUME NEW r \in Refs
  PROVE  IsFiniteSet(Claimers(r)) /\ Cardinality(Claimers(r)) \in Nat
<1>1. Claimers(r) \subseteq Senders /\ IsFiniteSet(Senders)
  BY SendPathAssumption DEF Claimers
<1> QED BY <1>1, FS_Subset, FS_CardinalityType

\* A step that moves no sender to or from a claim leaves the claims alone.
LEMMA ClaimersSame ==
  ASSUME ref' = ref,
         \A s \in Senders : pc[s] \in ClaimPoints <=> pc'[s] \in ClaimPoints,
         NEW r \in Refs
  PROVE  Claimers(r)' = Claimers(r)
  BY DEF Claimers, ClaimPoints

\* A sender that makes a claim adds one to those on its ref.
LEMMA ClaimersMore ==
  ASSUME TypeOK, ref' = ref, NEW s \in Senders, NEW p \in ClaimPoints,
         pc[s] \notin ClaimPoints, pc' = [pc EXCEPT ![s] = p],
         NEW r \in Refs
  PROVE  Cardinality(Claimers(r)') =
           IF r = ref[s] THEN Cardinality(Claimers(r)) + 1
                         ELSE Cardinality(Claimers(r))
<1>1. CASE r = ref[s]
  <2>1. Claimers(r)' = Claimers(r) \cup {s}
    BY <1>1 DEF Claimers, ClaimPoints, TypeOK
  <2>2. s \notin Claimers(r)
    BY DEF Claimers, ClaimPoints
  <2> QED BY <1>1, <2>1, <2>2, ClaimersFinite, FS_AddElement
<1>2. CASE r # ref[s]
  <2>1. Claimers(r)' = Claimers(r)
    BY <1>2 DEF Claimers, TypeOK
  <2> QED BY <1>2, <2>1
<1> QED BY <1>1, <1>2

\* A sender that ends its claim takes one from those on its ref.
LEMMA ClaimersFewer ==
  ASSUME TypeOK, ref' = ref, NEW s \in Senders, NEW p,
         p \notin ClaimPoints,
         pc[s] \in ClaimPoints, pc' = [pc EXCEPT ![s] = p],
         NEW r \in Refs
  PROVE  /\ Cardinality(Claimers(r)') =
              IF r = ref[s] THEN Cardinality(Claimers(r)) - 1
                            ELSE Cardinality(Claimers(r))
         /\ r = ref[s] => Cardinality(Claimers(r)) > 0
<1>1. CASE r = ref[s]
  <2>1. Claimers(r)' = Claimers(r) \ {s}
    BY <1>1 DEF Claimers, ClaimPoints, TypeOK
  <2>2. s \in Claimers(r)
    BY <1>1 DEF Claimers, ClaimPoints
  <2>3. Cardinality(Claimers(r)') = Cardinality(Claimers(r)) - 1
    BY <2>1, <2>2, ClaimersFinite, FS_RemoveElement
  <2>4. Cardinality(Claimers(r)) > 0
    BY <2>2, ClaimersFinite, FS_EmptySet
  <2> QED BY <1>1, <2>3, <2>4
<1>2. CASE r # ref[s]
  <2>1. Claimers(r)' = Claimers(r)
    BY <1>2 DEF Claimers, TypeOK
  <2> QED BY <1>2, <2>1
<1> QED BY <1>1, <1>2

\* Nobody leaves the line, and no channel closes.
LEMMA WaitersKept ==
  ASSUME TypeOK, WaitersOK, waiters' = waiters, ref' = ref,
         \A t \in Senders : pc[t] = "waiting" => pc'[t] = "waiting",
         \A r \in Refs : drain'[r] = "gone" => drain[r] = "gone"
  PROVE  WaitersOK'
  BY DEF WaitersOK, TypeOK

-----------------------------------------------------------------------------
\* Initially nothing is counted, claimed or waited for.
LEMMA AccountsInit == Init => Accounts
<1> SUFFICES ASSUME Init PROVE Accounts
  OBVIOUS
<1>1. TypeOK
  BY SendPathAssumption
  DEF Init, TypeOK, SenderPoints, DrainPoints, Outcomes, Message, MessageKinds
<1>2. PendingExact
  <2>1. \A r \in Refs : Claimers(r) = {}
    BY DEF Init, Claimers
  <2>2. \A r \in Refs : Cardinality(Claimers(r)) = 0
    BY <2>1, FS_EmptySet
  <2>3. \A r \in Refs : /\ drain[r] = "unbuilt"
                       /\ pending[r] = 0
                       /\ Len(queue[r]) = 0
    BY DEF Init
  <2>4. \A r \in Refs : InFlightOf(r) = 0
    BY <2>3 DEF InFlightOf
  <2> QED BY <2>2, <2>3, <2>4 DEF PendingExact
<1>3. BusyIsLive /\ WaitersOK
  BY DEF Init, BusyIsLive, WaitersOK
<1> QED BY <1>1, <1>2, <1>3 DEF Accounts

-----------------------------------------------------------------------------
(***************************************************************************)
(* Every step keeps the account.  One lemma for each kind of step: those   *)
(* of a call before the outbox, those on the outbox, those of the drain    *)
(* task, and those that touch neither counts nor claims.                   *)
(***************************************************************************)
\* A step that moves no claim, no message in an outbox and no waiter.
LEMMA QuietStep ==
  ASSUME Accounts, TypeOK', BusyIsLive',
         UNCHANGED <<ref, pending, queue, waiters, drain>>,
         \A t \in Senders : pc[t] \in ClaimPoints <=> pc'[t] \in ClaimPoints,
         \A t \in Senders : pc[t] = "waiting" => pc'[t] = "waiting"
  PROVE  Accounts'
<1>1. \A r \in Refs : Claimers(r)' = Claimers(r)
  BY ClaimersSame
<1>2. PendingExact'
  BY <1>1 DEF Accounts, PendingExact, InFlightOf
<1>3. WaitersOK'
  BY WaitersKept DEF Accounts
<1> QED BY <1>2, <1>3 DEF Accounts

\* A sender's own move keeps the busy ones live.
LEMMA BusyMove ==
  ASSUME TypeOK, BusyIsLive, NEW s \in live, live' = live,
         NEW p, pc' = [pc EXCEPT ![s] = p]
  PROVE  BusyIsLive'
  BY DEF BusyIsLive, TypeOK

\* Calls, fast path, and building the outbox up to the point where it is set.
LEMMA CallKeepsAccounts ==
  ASSUME Accounts, NEW s \in Senders,
         Call(s) \/ Check(s) \/ SendInline(s) \/ GetOutbox(s) \/ BuildFails(s)
  PROVE  Accounts'
<1> USE DEF Accounts
<1>1. TypeOK'
  <2>1. CASE Call(s)
    <3>1. PICK k \in Kinds, c \in {"try_send", "send"} :
            /\ call' = [call EXCEPT ![s] = c]
            /\ msg' = [msg EXCEPT ![s] =
                         [from |-> s, seq |-> msg[s].seq + 1, kind |-> k]]
            /\ Return(s, "TooLarge") \/ Goto(s, "check")
      BY <2>1 DEF Call, TypeOK
    <3>2. [from |-> s, seq |-> msg[s].seq + 1, kind |-> k] \in Message
      <4>1. /\ msg[s].seq \in 0 .. MaxSends
            /\ msg[s].seq < MaxSends
        BY <2>1 DEF Call, TypeOK, Message
      <4>2. k \in MessageKinds /\ MaxSends \in Nat
        BY SendPathAssumption
      <4> QED BY <4>1, <4>2 DEF Message
    <3>3. msg' \in [Senders -> Message] /\ call' \in [Senders -> {"try_send", "send"}]
      BY <3>1, <3>2 DEF TypeOK
    <3>4. pc' \in [Senders -> SenderPoints] /\ result' \in [Senders -> Outcomes]
      BY <3>1 DEF TypeOK, Return, Goto, SenderPoints, Outcomes
    <3> QED BY <2>1, <3>3, <3>4 DEF Call, TypeOK, boxVars, peerVars
  <2>2. CASE Check(s)
    BY <2>2
    DEF Check, At, Goto, Return, Accepts, TypeOK, SenderPoints, Outcomes,
        boxVars, peerVars
  <2>3. CASE SendInline(s)
    <3>1. socket' \in Seq(Message) /\ accepted' \subseteq Message
      <4>1. msg[s] \in Message /\ socket \in Seq(Message) /\ accepted \subseteq Message
        BY DEF TypeOK
      <4>2. Append(socket, msg[s]) \in Seq(Message)
        BY <4>1, AppendProperties
      <4>3. \/ socket' = Append(socket, msg[s]) /\ accepted' = accepted \cup {msg[s]}
            \/ socket' = socket /\ accepted' = accepted
        BY <2>3 DEF SendInline, Accepts
      <4> QED BY <4>1, <4>2, <4>3
    <3>2. pc' \in [Senders -> SenderPoints] /\ result' \in [Senders -> Outcomes]
      BY <2>3 DEF SendInline, Goto, Return, TypeOK, SenderPoints, Outcomes
    <3> QED BY <2>3, <3>1, <3>2 DEF SendInline, TypeOK, boxVars
  <2>4. CASE GetOutbox(s)
    BY <2>4
    DEF GetOutbox, At, Goto, Return, Accepts, TypeOK, SenderPoints, Outcomes,
        boxVars, peerVars
  <2>5. CASE BuildFails(s)
    BY <2>5
    DEF BuildFails, At, Goto, Return, Accepts, TypeOK, SenderPoints, Outcomes,
        boxVars, peerVars
  <2> QED BY <2>1, <2>2, <2>3, <2>4, <2>5
<1>2. \E p \in SenderPoints \ (ClaimPoints \cup {"waiting"}) :
        /\ pc' = [pc EXCEPT ![s] = p]
        /\ pc[s] \notin ClaimPoints \cup {"waiting"}
        /\ s \in live
  BY DEF Call, Check, SendInline, GetOutbox, BuildFails, At, Goto, Return,
         ClaimPoints, SenderPoints
<1>3. UNCHANGED <<ref, live, pending, queue, waiters, drain>>
  BY DEF Call, Check, SendInline, GetOutbox, BuildFails, boxVars
<1>4. BusyIsLive'
  BY <1>2, <1>3, BusyMove
<1>5. /\ \A t \in Senders : pc[t] \in ClaimPoints <=> pc'[t] \in ClaimPoints
      /\ \A t \in Senders : pc[t] = "waiting" => pc'[t] = "waiting"
  BY <1>2 DEF TypeOK
<1> QED BY <1>1, <1>3, <1>4, <1>5, QuietStep

-----------------------------------------------------------------------------
\* A sender makes a claim: it raises `pending' and is counted from then on.
LEMMA ClaimKeepsAccounts ==
  ASSUME Accounts, NEW s \in Senders, Claim(s) \/ ClaimSlot(s)
  PROVE  Accounts'
<1> DEFINE r0 == ref[s]
<1>1. PICK p \in {"push", "permit"} : pc' = [pc EXCEPT ![s] = p]
  BY DEF Claim, ClaimSlot, Goto
<1>2. /\ pc[s] \notin ClaimPoints
      /\ pc[s] # "waiting"
      /\ s \in live
      /\ pending' = [pending EXCEPT ![r0] = @ + 1]
      /\ UNCHANGED <<ref, live, call, msg, result, queue, permits, waiters,
                     drain, hand, peerVars, accepted>>
  BY DEF Claim, ClaimSlot, Goto, At, ClaimPoints
<1>3. TypeOK /\ r0 \in Refs
  BY DEF Accounts, TypeOK
<1>4. TypeOK'
  BY <1>1, <1>2, <1>3 DEF TypeOK, SenderPoints, peerVars
<1>5. PendingExact'
  <2> SUFFICES ASSUME NEW r \in Refs
               PROVE  IF drain'[r] = "gone"
                      THEN pending'[r] >= Cardinality(Claimers(r)')
                      ELSE pending'[r] = Len(queue'[r]) + InFlightOf(r)'
                                         + Cardinality(Claimers(r)')
    BY DEF PendingExact
  <2>1. Cardinality(Claimers(r)') = IF r = r0 THEN Cardinality(Claimers(r)) + 1
                                    ELSE Cardinality(Claimers(r))
    BY <1>1, <1>2, <1>3, ClaimersMore DEF ClaimPoints
  <2>2. pending'[r] = IF r = r0 THEN pending[r] + 1 ELSE pending[r]
    BY <1>2, <1>3 DEF TypeOK
  <2>3. /\ InFlightOf(r)' = InFlightOf(r)
        /\ InFlightOf(r) \in Nat
        /\ Len(queue[r]) \in Nat
        /\ pending[r] \in Nat
        /\ Cardinality(Claimers(r)) \in Nat
    BY <1>2, <1>3, ClaimersFinite DEF InFlightOf, TypeOK
  <2>4. IF drain[r] = "gone"
        THEN pending[r] >= Cardinality(Claimers(r))
        ELSE pending[r] = Len(queue[r]) + InFlightOf(r) + Cardinality(Claimers(r))
    BY DEF Accounts, PendingExact
  <2> QED BY <1>2, <2>1, <2>2, <2>3, <2>4
<1>6. BusyIsLive'
  BY <1>1, <1>2, <1>3, BusyMove DEF Accounts
<1>7. WaitersOK'
  <2>1. \A t \in Senders : pc[t] = "waiting" => pc'[t] = "waiting"
    BY <1>1, <1>2, <1>3 DEF TypeOK
  <2> QED BY <1>2, <1>3, <2>1, WaitersKept DEF Accounts
<1> QED BY <1>4, <1>5, <1>6, <1>7 DEF Accounts

\* A sender takes its claim back, which it had: `pending' stays a natural.
LEMMA UnclaimKeepsAccounts ==
  ASSUME Accounts, NEW s \in Senders, Unclaim(s)
  PROVE  Accounts'
<1> DEFINE r0 == ref[s]
<1>1. PICK p \in {"reserve", "idle"} : pc' = [pc EXCEPT ![s] = p]
  BY DEF Unclaim, Goto
<1>2. /\ pc[s] = "unclaim"
      /\ s \in live
      /\ pending' = [pending EXCEPT ![r0] = @ - 1]
      /\ UNCHANGED <<ref, live, call, msg, result, queue, permits, waiters,
                     drain, hand, peerVars, accepted>>
  BY DEF Unclaim, Goto, At
<1>3. TypeOK /\ r0 \in Refs
  BY DEF Accounts, TypeOK
<1>4. ASSUME NEW r \in Refs
      PROVE  /\ pending'[r] \in Nat
             /\ IF drain'[r] = "gone"
                THEN pending'[r] >= Cardinality(Claimers(r)')
                ELSE pending'[r] = Len(queue'[r]) + InFlightOf(r)'
                                   + Cardinality(Claimers(r)')
  <2>1. /\ Cardinality(Claimers(r)') = IF r = r0 THEN Cardinality(Claimers(r)) - 1
                                       ELSE Cardinality(Claimers(r))
        /\ r = r0 => Cardinality(Claimers(r)) > 0
    BY <1>1, <1>2, <1>3, ClaimersFewer DEF ClaimPoints
  <2>2. pending'[r] = IF r = r0 THEN pending[r] - 1 ELSE pending[r]
    BY <1>2, <1>3 DEF TypeOK
  <2>3. /\ InFlightOf(r)' = InFlightOf(r)
        /\ InFlightOf(r) \in Nat
        /\ Len(queue[r]) \in Nat
        /\ pending[r] \in Nat
        /\ Cardinality(Claimers(r)) \in Nat
    BY <1>2, <1>3, ClaimersFinite DEF InFlightOf, TypeOK
  <2>4. IF drain[r] = "gone"
        THEN pending[r] >= Cardinality(Claimers(r))
        ELSE pending[r] = Len(queue[r]) + InFlightOf(r) + Cardinality(Claimers(r))
    BY DEF Accounts, PendingExact
  <2> QED BY <1>2, <2>1, <2>2, <2>3, <2>4
<1>5. pending' \in [Refs -> Nat]
  BY <1>2, <1>3, <1>4 DEF TypeOK
<1>6. TypeOK'
  BY <1>1, <1>2, <1>3, <1>5 DEF TypeOK, SenderPoints, peerVars
<1>7. PendingExact'
  BY <1>4 DEF PendingExact
<1>8. BusyIsLive'
  BY <1>1, <1>2, <1>3, BusyMove DEF Accounts
<1>9. WaitersOK'
  <2>1. \A t \in Senders : pc[t] = "waiting" => pc'[t] = "waiting"
    BY <1>1, <1>2, <1>3 DEF TypeOK
  <2> QED BY <1>2, <1>3, <2>1, WaitersKept DEF Accounts
<1> QED BY <1>6, <1>7, <1>8, <1>9 DEF Accounts

\* OnceLock::set starts the drain task at most once.
LEMMA SetOutboxKeepsAccounts ==
  ASSUME Accounts, NEW s \in Senders, SetOutbox(s)
  PROVE  Accounts'
<1>1. /\ pc' = [pc EXCEPT ![s] = "claim"]
      /\ pc[s] = "set"
      /\ s \in live
      /\ drain' = [drain EXCEPT ![ref[s]] = IF @ = "unbuilt" THEN "recv" ELSE @]
      /\ UNCHANGED <<ref, live, call, msg, result, queue, pending, permits,
                     waiters, hand, peerVars, accepted>>
  BY DEF SetOutbox, Goto, At
<1>2. TypeOK
  BY DEF Accounts
<1>3. ASSUME NEW r \in Refs
      PROVE  /\ drain'[r] \in DrainPoints
             /\ drain'[r] = "gone" <=> drain[r] = "gone"
             /\ drain'[r] = "send" <=> drain[r] = "send"
             /\ InFlightOf(r)' = InFlightOf(r)
  <2>1. \/ drain'[r] = drain[r]
        \/ drain[r] = "unbuilt" /\ drain'[r] = "recv"
    BY <1>1, <1>2 DEF TypeOK
  <2>2. drain[r] \in DrainPoints
    BY <1>2 DEF TypeOK
  <2> QED BY <2>1, <2>2 DEF DrainPoints, InFlightOf
<1>4. TypeOK'
  BY <1>1, <1>2, <1>3 DEF TypeOK, SenderPoints, peerVars
<1>5. \A t \in Senders : pc[t] = "waiting" => pc'[t] = "waiting"
  BY <1>1, <1>2 DEF TypeOK
<1>6. \A r \in Refs : Claimers(r)' = Claimers(r)
  <2>1. \A t \in Senders : pc[t] \in ClaimPoints <=> pc'[t] \in ClaimPoints
    BY <1>1, <1>2 DEF TypeOK, ClaimPoints
  <2> QED BY <1>1, <2>1, ClaimersSame
<1>7. PendingExact'
  BY <1>1, <1>3, <1>6 DEF Accounts, PendingExact
<1>8. BusyIsLive'
  BY <1>1, <1>2, BusyMove DEF Accounts
<1>9. WaitersOK'
  BY <1>1, <1>2, <1>3, <1>5, WaitersKept DEF Accounts
<1> QED BY <1>4, <1>7, <1>8, <1>9 DEF Accounts

-----------------------------------------------------------------------------
\* A freed slot goes to the head of the line, which leaves the line; nobody
\* else moves.
LEMMA ReleaseFacts ==
  ASSUME TypeOK, WaitersOK, NEW r \in Refs,
         NEW pcs \in [Senders -> SenderPoints],
         \A t \in Senders : pc[t] = "waiting" => pcs[t] = "waiting",
         ReleasePermit(r, pcs),
         ref' = ref,
         \A u \in Refs : drain'[u] = "gone" => drain[u] = "gone"
  PROVE  /\ pc' \in [Senders -> SenderPoints]
         /\ permits' \in [Refs -> Nat]
         /\ waiters' \in [Refs -> Seq(Senders)]
         /\ WaitersOK'
         /\ \A t \in Senders : \/ pc'[t] = pcs[t]
                               \/ pcs[t] = "waiting" /\ pc'[t] = "assigned"
<1>1. CASE waiters[r] = <<>>
  <2>1. /\ permits' = [permits EXCEPT ![r] = @ + 1]
        /\ pc' = pcs
        /\ waiters' = waiters
    BY <1>1 DEF ReleasePermit
  <2>2. WaitersOK'
    BY <2>1, WaitersKept
  <2> QED BY <2>1, <2>2 DEF TypeOK
<1>2. CASE waiters[r] # <<>>
  <2> DEFINE w == waiters[r]
             h == Head(w)
  <2>1. /\ pc' = [pcs EXCEPT ![h] = "assigned"]
        /\ waiters' = [waiters EXCEPT ![r] = Tail(w)]
        /\ permits' = permits
    BY <1>2 DEF ReleasePermit
  <2>2. w \in Seq(Senders) /\ waiters \in [Refs -> Seq(Senders)]
    BY DEF TypeOK
  <2>3. /\ h \in Senders
        /\ h = w[1]
        /\ Tail(w) \in Seq(Senders)
        /\ Len(w) \in Nat
        /\ 1 \in DOMAIN w
        /\ Len(Tail(w)) = Len(w) - 1
        /\ \A j \in 1 .. Len(w) - 1 : Tail(w)[j] = w[j + 1]
    BY <1>2, <2>2, HeadTail
  <2>4. pc[h] = "waiting" /\ ref[h] = r /\ pcs[h] = "waiting"
    BY <2>3 DEF WaitersOK
  <2>5. \A t \in Senders : pc'[t] = IF t = h THEN "assigned" ELSE pcs[t]
    BY <2>1
  <2>6. waiters' \in [Refs -> Seq(Senders)]
    BY <2>1, <2>2, <2>3
  <2>7. ASSUME NEW u \in Refs
        PROVE  /\ \A j \in DOMAIN waiters'[u] :
                    pc'[waiters'[u][j]] = "waiting" /\ ref'[waiters'[u][j]] = u
               /\ \A j, k \in DOMAIN waiters'[u] :
                    waiters'[u][j] = waiters'[u][k] => j = k
               /\ drain'[u] = "gone" => waiters'[u] = <<>>
    <3>1. CASE u = r
      <4>1. waiters'[u] = Tail(w) /\ DOMAIN Tail(w) = 1 .. Len(w) - 1
        BY <2>1, <2>2, <2>3, <3>1
      <4>2. \A j \in 1 .. Len(w) - 1 :
              /\ j + 1 \in DOMAIN w
              /\ j + 1 # 1
              /\ w[j + 1] \in Senders
        BY <2>2, <2>3
      <4>3. \A j \in 1 .. Len(w) - 1 :
              w[j + 1] # h /\ pc[w[j + 1]] = "waiting" /\ ref[w[j + 1]] = r
        BY <2>3, <4>2 DEF WaitersOK
      <4>4. \A j, k \in 1 .. Len(w) - 1 : w[j + 1] = w[k + 1] => j = k
        BY <2>3, <4>2 DEF WaitersOK
      <4>5. drain'[u] # "gone"
        BY <1>2, <3>1 DEF WaitersOK
      <4>6. \A j \in 1 .. Len(w) - 1 :
              /\ Tail(w)[j] = w[j + 1]
              /\ pc'[Tail(w)[j]] = "waiting"
              /\ ref'[Tail(w)[j]] = u
        BY <2>3, <2>5, <3>1, <4>2, <4>3
      <4>7. \A j, k \in 1 .. Len(w) - 1 : Tail(w)[j] = Tail(w)[k] => j = k
        BY <2>3, <4>4
      <4> DEFINE t == Tail(w)
                 n == Len(w) - 1
      <4>8. /\ waiters'[u] = t /\ DOMAIN t = 1 .. n
            /\ \A j \in 1 .. n : pc'[t[j]] = "waiting" /\ ref'[t[j]] = u
            /\ \A j, k \in 1 .. n : t[j] = t[k] => j = k
        BY <4>1, <4>6, <4>7
      <4> HIDE DEF w, h, t, n
      <4> QED BY <4>5, <4>8, Zenon
    <3>2. CASE u # r
      <4>1. waiters'[u] = waiters[u] /\ waiters[u] \in Seq(Senders)
        BY <2>1, <2>2, <3>2
      <4>2. \A j \in DOMAIN waiters[u] :
              /\ waiters[u][j] \in Senders
              /\ pc[waiters[u][j]] = "waiting"
              /\ ref[waiters[u][j]] = u
        BY <4>1 DEF WaitersOK
      <4>3. \A j \in DOMAIN waiters[u] : waiters[u][j] # h
        BY <2>4, <3>2, <4>2
      <4>4. \A j \in DOMAIN waiters[u] :
              pc'[waiters[u][j]] = "waiting" /\ ref'[waiters[u][j]] = u
        BY <2>5, <4>2, <4>3
      <4>5. /\ \A j, k \in DOMAIN waiters[u] :
                 waiters[u][j] = waiters[u][k] => j = k
            /\ drain[u] = "gone" => waiters[u] = <<>>
        BY DEF WaitersOK
      <4>6. drain'[u] = "gone" => drain[u] = "gone"
        OBVIOUS
      <4> HIDE DEF w, h
      <4> QED BY <4>1, <4>4, <4>5, <4>6, Zenon
    <3> QED BY <3>1, <3>2
  <2>8. WaitersOK'
    BY <2>7 DEF WaitersOK
  <2> QED BY <2>1, <2>3, <2>4, <2>5, <2>6, <2>8 DEF TypeOK, SenderPoints
<1> QED BY <1>1, <1>2

\* A claim that becomes a queued message, in either of the two ways.
LEMMA PushKeepsAccounts ==
  ASSUME Accounts, NEW s \in Senders, Push(s) \/ SendPermit(s)
  PROVE  Accounts'
<1> DEFINE r0 == ref[s]
<1>1. TypeOK /\ r0 \in Refs /\ msg[s] \in Message /\ queue[r0] \in Seq(Message)
  BY DEF Accounts, TypeOK
<1>2. /\ s \in live
      /\ pc[s] \in {"push", "permit"}
      /\ UNCHANGED <<ref, live, call, msg, pending, waiters, drain, hand, peerVars>>
  BY DEF Push, SendPermit, At
<1>3. PICK p \in {"idle", "unclaim"} : pc' = [pc EXCEPT ![s] = p]
  BY DEF Push, SendPermit, Return
<1>4. result' \in [Senders -> Outcomes]
  BY <1>1 DEF Push, SendPermit, Return, Refusal, TypeOK, Outcomes
<1>5. accepted' \subseteq Message
  BY <1>1 DEF Push, SendPermit, Accepts, TypeOK
<1>6. permits' \in [Refs -> Nat]
  <2>1. \/ permits' = permits
        \/ permits[r0] > 0 /\ permits' = [permits EXCEPT ![r0] = @ - 1]
    <3>1. CASE Push(s)
      BY <3>1 DEF Push
    <3>2. CASE SendPermit(s)
      BY <3>2 DEF SendPermit
    <3> QED BY <3>1, <3>2
  <2>2. permits \in [Refs -> Nat] /\ permits[r0] \in Nat
    BY <1>1 DEF TypeOK
  <2> QED BY <2>1, <2>2
<1>7. \/ /\ p = "idle"
         /\ drain[r0] # "gone"
         /\ queue' = [queue EXCEPT ![r0] = Append(@, msg[s])]
      \/ /\ p = "idle"
         /\ drain[r0] = "gone"
         /\ queue' = queue
      \/ /\ p = "unclaim"
         /\ pc[s] = "push"
         /\ queue' = queue
  <2>1. /\ pc'[s] = p
        /\ [queue EXCEPT ![r0] = queue[r0]] = queue
    BY <1>1, <1>3 DEF TypeOK
  <2> QED BY <1>2, <2>1, <1>1
          DEF Push, SendPermit, Return, ChannelClosed, TypeOK, At
<1>8. queue' \in [Refs -> Seq(Message)]
  <2>1. Append(queue[r0], msg[s]) \in Seq(Message) /\ queue \in [Refs -> Seq(Message)]
    BY <1>1, AppendProperties DEF TypeOK
  <2> QED BY <1>1, <1>7, <2>1
<1>9. TypeOK'
  BY <1>1, <1>2, <1>3, <1>4, <1>5, <1>6, <1>8
  DEF TypeOK, SenderPoints, peerVars
<1>10. PendingExact'
  <2> SUFFICES ASSUME NEW r \in Refs
               PROVE  IF drain[r] = "gone"
                      THEN pending[r] >= Cardinality(Claimers(r)')
                      ELSE pending[r] = Len(queue'[r]) + InFlightOf(r)
                                         + Cardinality(Claimers(r)')
    BY <1>2 DEF PendingExact, InFlightOf
  <2>1. /\ InFlightOf(r) \in Nat
        /\ Len(queue[r]) \in Nat
        /\ pending[r] \in Nat
        /\ Cardinality(Claimers(r)) \in Nat
    BY <1>1, ClaimersFinite DEF InFlightOf, TypeOK
  <2>2. IF drain[r] = "gone"
        THEN pending[r] >= Cardinality(Claimers(r))
        ELSE pending[r] = Len(queue[r]) + InFlightOf(r) + Cardinality(Claimers(r))
    BY DEF Accounts, PendingExact
  <2>3. CASE p = "idle"
    <3>1. Cardinality(Claimers(r)') = IF r = r0 THEN Cardinality(Claimers(r)) - 1
                                      ELSE Cardinality(Claimers(r))
      BY <1>1, <1>2, <1>3, <2>3, ClaimersFewer DEF ClaimPoints
    <3>2. Len(queue'[r]) = IF r = r0 /\ drain[r0] # "gone"
                           THEN Len(queue[r]) + 1 ELSE Len(queue[r])
      BY <1>1, <1>7, <2>3, AppendProperties DEF TypeOK
    <3> DEFINE n == Cardinality(Claimers(r))
               l == Len(queue[r])
    <3>3. /\ n \in Nat /\ l \in Nat
          /\ Cardinality(Claimers(r)') = IF r = r0 THEN n - 1 ELSE n
          /\ Len(queue'[r]) = IF r = r0 /\ drain[r0] # "gone" THEN l + 1 ELSE l
          /\ IF drain[r] = "gone" THEN pending[r] >= n
             ELSE pending[r] = l + InFlightOf(r) + n
      BY <2>1, <2>2, <3>1, <3>2
    <3> HIDE DEF n, l, r0
    <3>4. CASE r = r0
      BY <2>1, <3>3, <3>4
    <3>5. CASE r # r0
      BY <2>1, <3>3, <3>5
    <3> QED BY <3>4, <3>5
  <2>4. CASE p = "unclaim"
    <3>1. \A t \in Senders : pc[t] \in ClaimPoints <=> pc'[t] \in ClaimPoints
      BY <1>1, <1>2, <1>3, <2>4 DEF TypeOK, ClaimPoints
    <3>2. Claimers(r)' = Claimers(r) /\ queue' = queue
      BY <1>2, <1>7, <2>4, <3>1, ClaimersSame
    <3> QED BY <2>2, <3>2
  <2> QED BY <2>3, <2>4
<1>11. BusyIsLive'
  BY <1>1, <1>2, <1>3, BusyMove DEF Accounts
<1>12. WaitersOK'
  <2>1. \A t \in Senders : pc[t] = "waiting" => pc'[t] = "waiting"
    BY <1>1, <1>2, <1>3 DEF TypeOK
  <2> QED BY <1>1, <1>2, <2>1, WaitersKept DEF Accounts
<1> QED BY <1>9, <1>10, <1>11, <1>12 DEF Accounts

\* A caller that asks for a slot moves no claim.  If it has to wait it joins
\* the line, in which it is not yet.
LEMMA ReserveKeepsAccounts ==
  ASSUME Accounts, NEW s \in Senders, Reserve(s)
  PROVE  Accounts'
<1> DEFINE r0 == ref[s]
           w == waiters[r0]
<1>1. TypeOK /\ WaitersOK /\ r0 \in Refs /\ w \in Seq(Senders)
  BY DEF Accounts, TypeOK
<1>2. /\ s \in live
      /\ pc[s] = "reserve"
      /\ UNCHANGED <<ref, live, call, msg, queue, pending, drain, hand, peerVars,
                     accepted>>
  BY DEF Reserve, At
<1>3. PICK p \in {"idle", "granted", "waiting"} : pc' = [pc EXCEPT ![s] = p]
  BY DEF Reserve, Goto, Return
<1>4. result' \in [Senders -> Outcomes]
  BY <1>1 DEF Reserve, Goto, Return, TypeOK, Outcomes
<1>5. permits' \in [Refs -> Nat]
  <2>1. \/ permits' = permits
        \/ permits[r0] > 0 /\ permits' = [permits EXCEPT ![r0] = @ - 1]
    BY DEF Reserve
  <2>2. permits \in [Refs -> Nat] /\ permits[r0] \in Nat
    BY <1>1 DEF TypeOK
  <2> QED BY <2>1, <2>2
<1>6. \/ waiters' = waiters
      \/ /\ waiters' = [waiters EXCEPT ![r0] = Append(w, s)]
         /\ drain[r0] # "gone"
         /\ p = "waiting"
  <2>1. pc'[s] = p
    BY <1>1, <1>3 DEF TypeOK
  <2> QED BY <2>1, <1>1 DEF Reserve, Goto, Return, ChannelClosed, TypeOK
<1>7. /\ Append(w, s) \in Seq(Senders)
      /\ Len(w) \in Nat
      /\ Len(Append(w, s)) = Len(w) + 1
      /\ \A j \in 1 .. Len(w) : Append(w, s)[j] = w[j]
      /\ Append(w, s)[Len(w) + 1] = s
  BY <1>1, AppendProperties
<1>8. waiters' \in [Refs -> Seq(Senders)]
  BY <1>1, <1>6, <1>7 DEF TypeOK
<1>9. TypeOK'
  BY <1>1, <1>2, <1>3, <1>4, <1>5, <1>8 DEF TypeOK, SenderPoints, peerVars
<1>10. PendingExact'
  <2>1. \A t \in Senders : pc[t] \in ClaimPoints <=> pc'[t] \in ClaimPoints
    BY <1>1, <1>2, <1>3 DEF TypeOK, ClaimPoints
  <2>2. \A r \in Refs : Claimers(r)' = Claimers(r) /\ InFlightOf(r)' = InFlightOf(r)
    BY <1>2, <2>1, ClaimersSame DEF InFlightOf
  <2> QED BY <1>2, <2>2 DEF Accounts, PendingExact
<1>11. BusyIsLive'
  BY <1>1, <1>2, <1>3, BusyMove DEF Accounts
<1>12. WaitersOK'
  <2>1. \A t \in Senders : pc[t] = "waiting" => pc'[t] = "waiting"
    BY <1>1, <1>2, <1>3 DEF TypeOK
  <2>2. CASE waiters' = waiters
    BY <1>1, <1>2, <2>1, <2>2, WaitersKept
  <2>3. CASE /\ waiters' = [waiters EXCEPT ![r0] = Append(w, s)]
             /\ drain[r0] # "gone"
             /\ p = "waiting"
    <3>1. pc'[s] = "waiting"
      BY <1>1, <1>3, <2>3 DEF TypeOK
    <3>2. \A r \in Refs : \A i \in DOMAIN waiters[r] :
            /\ waiters[r][i] \in Senders
            /\ waiters[r][i] # s
            /\ pc'[waiters[r][i]] = "waiting"
            /\ ref'[waiters[r][i]] = r
      BY <1>1, <1>2, <2>1 DEF WaitersOK, TypeOK
    <3>3. ASSUME NEW r \in Refs
          PROVE  /\ \A i \in DOMAIN waiters'[r] :
                      pc'[waiters'[r][i]] = "waiting" /\ ref'[waiters'[r][i]] = r
                 /\ \A i, j \in DOMAIN waiters'[r] :
                      waiters'[r][i] = waiters'[r][j] => i = j
                 /\ drain'[r] = "gone" => waiters'[r] = <<>>
      <4>1. CASE r = r0
        <5> DEFINE n == Append(w, s)
        <5>1. waiters'[r] = n /\ DOMAIN n = 1 .. Len(w) + 1 /\ drain'[r] # "gone"
          BY <1>1, <1>2, <1>7, <2>3, <4>1 DEF TypeOK
        <5>2. ref'[s] = r
          BY <1>2, <4>1
        <5>3. \A i \in 1 .. Len(w) : w[i] # s /\ pc'[w[i]] = "waiting" /\ ref'[w[i]] = r
          BY <1>1, <3>2, <4>1
        <5>4. \A i, j \in 1 .. Len(w) : w[i] = w[j] => i = j
          BY <1>1 DEF WaitersOK
        <5>5. \A i \in 1 .. Len(w) + 1 :
                \/ i \in 1 .. Len(w) /\ n[i] = w[i]
                \/ i = Len(w) + 1 /\ n[i] = s
          BY <1>7
        <5> HIDE DEF n, w
        <5>6. \A i \in 1 .. Len(w) + 1 : pc'[n[i]] = "waiting" /\ ref'[n[i]] = r
          BY <3>1, <5>2, <5>3, <5>5
        <5>7. \A i, j \in 1 .. Len(w) + 1 : n[i] = n[j] => i = j
          BY <5>3, <5>4, <5>5
        <5> QED BY <5>1, <5>6, <5>7
      <4>2. CASE r # r0
        <5>1. waiters'[r] = waiters[r]
          BY <1>1, <2>3, <4>2 DEF TypeOK
        <5>2. /\ \A i, j \in DOMAIN waiters[r] :
                   waiters[r][i] = waiters[r][j] => i = j
              /\ drain'[r] = "gone" => waiters[r] = <<>>
          BY <1>1, <1>2 DEF WaitersOK
        <5>3. \A i \in DOMAIN waiters[r] :
                pc'[waiters[r][i]] = "waiting" /\ ref'[waiters[r][i]] = r
          BY <3>2
        <5> QED BY <5>1, <5>2, <5>3
      <4> QED BY <4>1, <4>2
    <3> QED BY <3>3 DEF WaitersOK
  <2> QED BY <1>6, <2>2, <2>3
<1> QED BY <1>9, <1>10, <1>11, <1>12 DEF Accounts

\* A woken caller is not in line any more, or the line is no more.
LEMMA WakeKeepsAccounts ==
  ASSUME Accounts, NEW s \in Senders, Wake(s)
  PROVE  Accounts'
<1>1. TypeOK /\ WaitersOK
  BY DEF Accounts
<1>2. /\ s \in live
      /\ pc[s] \in {"waiting", "assigned"}
      /\ pc[s] = "waiting" => drain[ref[s]] = "gone"
      /\ UNCHANGED <<ref, live, call, msg, boxVars, peerVars, accepted>>
  BY DEF Wake, At, ChannelClosed
<1>3. PICK p \in {"idle", "granted"} : pc' = [pc EXCEPT ![s] = p]
  BY DEF Wake, Goto, Return
<1>4. result' \in [Senders -> Outcomes]
  BY <1>1 DEF Wake, Goto, Return, TypeOK, Outcomes
<1>5. TypeOK'
  BY <1>1, <1>2, <1>3, <1>4 DEF TypeOK, SenderPoints, boxVars, peerVars
<1>6. PendingExact'
  <2>1. \A t \in Senders : pc[t] \in ClaimPoints <=> pc'[t] \in ClaimPoints
    BY <1>1, <1>2, <1>3 DEF TypeOK, ClaimPoints
  <2>2. \A r \in Refs : Claimers(r)' = Claimers(r) /\ InFlightOf(r)' = InFlightOf(r)
    BY <1>2, <2>1, ClaimersSame DEF InFlightOf, boxVars
  <2> QED BY <1>2, <2>2 DEF Accounts, PendingExact, boxVars
<1>7. BusyIsLive'
  BY <1>1, <1>2, <1>3, BusyMove DEF Accounts
<1>8. WaitersOK'
  <2>1. \A r \in Refs : \A i \in DOMAIN waiters[r] :
          waiters[r][i] \in Senders /\ waiters[r][i] # s
    <3>1. \A r \in Refs : \A i \in DOMAIN waiters[r] :
            /\ waiters[r][i] \in Senders
            /\ pc[waiters[r][i]] = "waiting"
            /\ ref[waiters[r][i]] = r
            /\ drain[r] # "gone"
      BY <1>1 DEF WaitersOK, TypeOK
    <3> QED BY <1>2, <3>1
  <2>2. \A t \in Senders : t # s => pc'[t] = pc[t]
    BY <1>1, <1>3 DEF TypeOK
  <2> QED BY <1>1, <1>2, <2>1, <2>2 DEF WaitersOK, boxVars
<1> QED BY <1>5, <1>6, <1>7, <1>8 DEF Accounts

\* A caller gives up: it leaves the line, or hands on the slot it was given.
LEMMA AbortKeepsAccounts ==
  ASSUME Accounts, NEW s \in Senders, AbortSend(s)
  PROVE  Accounts'
<1> DEFINE r0 == ref[s]
           w == waiters[r0]
           pcs == [pc EXCEPT ![s] = "idle"]
<1>1. TypeOK /\ WaitersOK /\ r0 \in Refs /\ w \in Seq(Senders)
  BY DEF Accounts, TypeOK
<1>2. /\ s \in live
      /\ result' = [result EXCEPT ![s] = "Aborted"]
      /\ UNCHANGED <<ref, live, call, msg, queue, pending, drain, hand, peerVars,
                     accepted>>
  BY DEF AbortSend, At
<1>3. /\ pcs \in [Senders -> SenderPoints]
      /\ \A t \in Senders : pcs[t] = IF t = s THEN "idle" ELSE pc[t]
  BY <1>1 DEF TypeOK, SenderPoints
<1>4. /\ pc' \in [Senders -> SenderPoints]
      /\ permits' \in [Refs -> Nat]
      /\ waiters' \in [Refs -> Seq(Senders)]
      /\ WaitersOK'
      /\ \A t \in Senders : \/ pc'[t] = pcs[t]
                            \/ pcs[t] = "waiting" /\ pc'[t] = "assigned"
      /\ pc[s] \in {"waiting", "assigned"}
  <2>1. CASE pc[s] = "assigned"
    <3>1. ReleasePermit(r0, pcs)
      BY <2>1 DEF AbortSend
    <3>2. \A t \in Senders : pc[t] = "waiting" => pcs[t] = "waiting"
      BY <1>3, <2>1
    <3> HIDE DEF pcs, r0
    <3> QED BY <1>1, <1>2, <1>3, <2>1, <3>1, <3>2, ReleaseFacts
  <2>2. CASE pc[s] = "waiting"
    <3>1. PICK i \in DOMAIN w :
            /\ w[i] = s
            /\ waiters' = [waiters EXCEPT ![r0] = RemoveAt(w, i)]
            /\ pc' = pcs
            /\ permits' = permits
      BY <1>1, <2>2 DEF AbortSend, TypeOK
    <3> DEFINE n == RemoveAt(w, i)
    <3>2. /\ n \in Seq(Senders)
          /\ Len(n) = Len(w) - 1
          /\ \A j \in 1 .. Len(w) - 1 : n[j] = IF j < i THEN w[j] ELSE w[j + 1]
      BY <1>1, RemoveAtFacts
    <3>3. /\ Len(w) \in Nat
          /\ DOMAIN w = 1 .. Len(w)
          /\ DOMAIN n = 1 .. Len(w) - 1
          /\ i \in 1 .. Len(w)
      BY <1>1, <3>2
    <3> HIDE DEF n
    <3>4. /\ waiters'[r0] = n
          /\ \A r \in Refs : r # r0 => waiters'[r] = waiters[r]
          /\ waiters' \in [Refs -> Seq(Senders)]
      BY <1>1, <3>1, <3>2 DEF TypeOK, n
    <3>5. \A j \in 1 .. Len(w) :
            /\ w[j] \in Senders
            /\ pc[w[j]] = "waiting"
            /\ ref[w[j]] = r0
            /\ \A k \in 1 .. Len(w) : w[j] = w[k] => j = k
      BY <1>1, <3>3 DEF WaitersOK
    <3>6. \A j \in 1 .. Len(w) - 1 :
            \E k \in 1 .. Len(w) : n[j] = w[k] /\ k # i
                                  /\ k = IF j < i THEN j ELSE j + 1
      <4>1. ASSUME NEW j \in 1 .. Len(w) - 1
            PROVE  \E k \in 1 .. Len(w) : n[j] = w[k] /\ k # i
                                         /\ k = IF j < i THEN j ELSE j + 1
        <5>1. CASE j < i
          BY <3>2, <3>3, <5>1
        <5>2. CASE ~(j < i)
          <6>1. j + 1 \in 1 .. Len(w) /\ j + 1 # i /\ n[j] = w[j + 1]
            BY <3>2, <3>3, <5>2
          <6> QED BY <5>2, <6>1
        <5> QED BY <5>1, <5>2
      <4> QED BY <4>1
    <3>7. \A j \in 1 .. Len(w) - 1 :
            n[j] # s /\ pc'[n[j]] = "waiting" /\ ref'[n[j]] = r0
      <4> SUFFICES ASSUME NEW j \in 1 .. Len(w) - 1
                   PROVE  n[j] # s /\ pc'[n[j]] = "waiting" /\ ref'[n[j]] = r0
        OBVIOUS
      <4>1. PICK k \in 1 .. Len(w) : n[j] = w[k] /\ k # i
        BY <3>6
      <4>2. w[k] # s
        BY <3>1, <3>3, <3>5, <4>1
      <4>3. w[k] \in Senders /\ pc[w[k]] = "waiting" /\ ref[w[k]] = r0
        BY <3>5
      <4>4. pc'[w[k]] = "waiting"
        BY <1>3, <3>1, <4>2, <4>3
      <4> QED BY <1>2, <4>1, <4>2, <4>3, <4>4
    <3>8. \A j, k \in 1 .. Len(w) - 1 : n[j] = n[k] => j = k
      <4> SUFFICES ASSUME NEW j \in 1 .. Len(w) - 1, NEW k \in 1 .. Len(w) - 1,
                          n[j] = n[k]
                   PROVE  j = k
        OBVIOUS
      <4>1. PICK jj \in 1 .. Len(w) : n[j] = w[jj] /\ jj = IF j < i THEN j ELSE j + 1
        BY <3>6
      <4>2. PICK kk \in 1 .. Len(w) : n[k] = w[kk] /\ kk = IF k < i THEN k ELSE k + 1
        BY <3>6
      <4>3. jj = kk
        BY <3>5, <4>1, <4>2
      <4>4. j \in Int /\ k \in Int /\ i \in Int
        BY <3>3
      <4> HIDE DEF w
      <4> QED BY <4>1, <4>2, <4>3, <4>4
    <3>9. ASSUME NEW r \in Refs
          PROVE  /\ \A j \in DOMAIN waiters'[r] :
                      pc'[waiters'[r][j]] = "waiting" /\ ref'[waiters'[r][j]] = r
                 /\ \A j, k \in DOMAIN waiters'[r] :
                      waiters'[r][j] = waiters'[r][k] => j = k
                 /\ drain'[r] = "gone" => waiters'[r] = <<>>
      <4>1. CASE r = r0
        <5>1. w # <<>>
          BY <3>3
        <5>2. drain'[r] # "gone"
          BY <1>1, <1>2, <4>1, <5>1 DEF WaitersOK
        <5> HIDE DEF w, r0
        <5> QED BY <3>3, <3>4, <3>7, <3>8, <4>1, <5>2
      <4>2. CASE r # r0
        <5>1. waiters'[r] = waiters[r]
          BY <3>4, <4>2
        <5>2. \A j \in DOMAIN waiters[r] :
                /\ waiters[r][j] \in Senders
                /\ pc[waiters[r][j]] = "waiting"
                /\ ref[waiters[r][j]] = r
                /\ waiters[r][j] # s
          BY <1>1, <4>2 DEF WaitersOK, TypeOK
        <5>3. \A j \in DOMAIN waiters[r] :
                pc'[waiters[r][j]] = "waiting" /\ ref'[waiters[r][j]] = r
          BY <1>2, <1>3, <3>1, <5>2
        <5>4. /\ \A j, k \in DOMAIN waiters[r] :
                   waiters[r][j] = waiters[r][k] => j = k
              /\ drain'[r] = "gone" => waiters[r] = <<>>
          BY <1>1, <1>2 DEF WaitersOK
        <5> QED BY <5>1, <5>3, <5>4
      <4> QED BY <4>1, <4>2
    <3>10. WaitersOK'
      BY <3>9 DEF WaitersOK
    <3> QED BY <1>1, <1>3, <2>2, <3>1, <3>4, <3>10 DEF TypeOK
  <2> QED BY <2>1, <2>2 DEF AbortSend, At
<1> HIDE DEF pcs
<1>5. TypeOK'
  BY <1>1, <1>2, <1>4 DEF TypeOK, Outcomes, peerVars
<1>6. PendingExact'
  <2>1. \A t \in Senders : pc[t] \in ClaimPoints <=> pc'[t] \in ClaimPoints
    BY <1>3, <1>4 DEF ClaimPoints
  <2>2. \A r \in Refs : Claimers(r)' = Claimers(r) /\ InFlightOf(r)' = InFlightOf(r)
    BY <1>2, <2>1, ClaimersSame DEF InFlightOf
  <2> QED BY <1>2, <2>2 DEF Accounts, PendingExact
<1>7. BusyIsLive'
  BY <1>2, <1>3, <1>4 DEF Accounts, BusyIsLive
<1> QED BY <1>4, <1>5, <1>6, <1>7 DEF Accounts

-----------------------------------------------------------------------------
\* recv() moves a message from the queue to the drain task, which answers for
\* it from then on; the slot goes on.
LEMMA DrainRecvKeepsAccounts ==
  ASSUME Accounts, NEW r \in Refs, DrainRecv(r)
  PROVE  Accounts'
<1> DEFINE q == queue[r]
<1>1. TypeOK /\ WaitersOK /\ q \in Seq(Message) /\ q # <<>>
  BY DEF Accounts, TypeOK, DrainRecv
<1>2. /\ drain[r] = "recv"
      /\ hand' = [hand EXCEPT ![r] = <<Head(q)>>]
      /\ queue' = [queue EXCEPT ![r] = Tail(q)]
      /\ drain' = [drain EXCEPT ![r] = "send"]
      /\ ReleasePermit(r, pc)
      /\ UNCHANGED <<ref, live, call, msg, result, pending, peerVars, accepted>>
  BY <1>1 DEF DrainRecv, TypeOK
<1>3. \A u \in Refs : drain'[u] = IF u = r THEN "send" ELSE drain[u]
  BY <1>1, <1>2 DEF TypeOK
<1>4. /\ pc' \in [Senders -> SenderPoints]
      /\ permits' \in [Refs -> Nat]
      /\ waiters' \in [Refs -> Seq(Senders)]
      /\ WaitersOK'
      /\ \A t \in Senders : \/ pc'[t] = pc[t]
                            \/ pc[t] = "waiting" /\ pc'[t] = "assigned"
  <2>1. pc \in [Senders -> SenderPoints]
    BY <1>1 DEF TypeOK
  <2>2. \A u \in Refs : drain'[u] = "gone" => drain[u] = "gone"
    BY <1>3
  <2> QED BY <1>1, <1>2, <2>1, <2>2, ReleaseFacts
<1>5. /\ Head(q) \in Message
      /\ Tail(q) \in Seq(Message)
      /\ Len(q) \in Nat
      /\ Len(Tail(q)) = Len(q) - 1
  BY <1>1, HeadTail
<1>6. TypeOK'
  <2>1. hand' \in [Refs -> Seq(Message)] /\ queue' \in [Refs -> Seq(Message)]
    BY <1>1, <1>2, <1>5 DEF TypeOK
  <2>2. \A u \in Refs : Len(hand'[u]) = IF drain'[u] = "send" THEN 1 ELSE 0
    BY <1>1, <1>2, <1>3 DEF TypeOK
  <2>3. drain' \in [Refs -> DrainPoints]
    BY <1>1, <1>2 DEF TypeOK, DrainPoints
  <2> QED BY <1>1, <1>2, <1>4, <2>1, <2>2, <2>3 DEF TypeOK, peerVars
<1>7. PendingExact'
  <2>1. \A t \in Senders : pc[t] \in ClaimPoints <=> pc'[t] \in ClaimPoints
    BY <1>4 DEF ClaimPoints
  <2>2. \A u \in Refs : Claimers(u)' = Claimers(u)
    BY <1>2, <2>1, ClaimersSame
  <2> SUFFICES ASSUME NEW u \in Refs
               PROVE  IF drain'[u] = "gone"
                      THEN pending[u] >= Cardinality(Claimers(u))
                      ELSE pending[u] = Len(queue'[u]) + InFlightOf(u)'
                                         + Cardinality(Claimers(u))
    BY <1>2, <2>2 DEF PendingExact
  <2>3. IF drain[u] = "gone"
        THEN pending[u] >= Cardinality(Claimers(u))
        ELSE pending[u] = Len(queue[u]) + InFlightOf(u) + Cardinality(Claimers(u))
    BY DEF Accounts, PendingExact
  <2>4. CASE u = r
    <3>1. InFlightOf(u) = 0 /\ InFlightOf(u)' = 1 /\ queue'[u] = Tail(q)
      BY <1>1, <1>2, <1>3, <2>4 DEF InFlightOf, TypeOK
    <3>2. Cardinality(Claimers(u)) \in Nat
      BY ClaimersFinite
    <3>3. pending[u] = Len(q) + Cardinality(Claimers(u))
      <4>1. Len(q) + 0 = Len(q)
        BY <1>5
      <4> QED BY <1>2, <2>3, <2>4, <3>1, <4>1
    <3>4. Len(q) = Len(Tail(q)) + 1
      BY <1>5
    <3>5. drain'[u] # "gone"
      BY <1>3, <2>4
    <3> HIDE DEF q
    <3> QED BY <3>1, <3>3, <3>4, <3>5
  <2>5. CASE u # r
    <3>1. InFlightOf(u)' = InFlightOf(u) /\ queue'[u] = queue[u] /\ drain'[u] = drain[u]
      BY <1>1, <1>2, <1>3, <2>5 DEF InFlightOf, TypeOK
    <3> QED BY <2>3, <3>1
  <2> QED BY <2>4, <2>5
<1>8. BusyIsLive'
  BY <1>2, <1>4 DEF Accounts, BusyIsLive
<1> QED BY <1>4, <1>6, <1>7, <1>8 DEF Accounts

\* recv() gives None: nobody holds the ref, so nobody is in line for it.
LEMMA DrainClosedKeepsAccounts ==
  ASSUME Accounts, NEW r \in Refs, DrainClosed(r)
  PROVE  Accounts'
<1>1. TypeOK /\ WaitersOK /\ BusyIsLive
  BY DEF Accounts
<1>2. /\ drain[r] = "recv"
      /\ queue[r] = <<>>
      /\ ~RefHeld(r)
      /\ drain' = [drain EXCEPT ![r] = "gone"]
      /\ UNCHANGED <<ref, live, pc, call, msg, result, queue, pending, permits,
                     waiters, hand, socket, up, delivered, accepted>>
  BY DEF DrainClosed, sendVars, peerVars
<1>3. \A u \in Refs : drain'[u] = IF u = r THEN "gone" ELSE drain[u]
  BY <1>1, <1>2 DEF TypeOK
<1>4. TypeOK'
  BY <1>1, <1>2, <1>3 DEF TypeOK, DrainPoints
<1>5. PendingExact'
  <2>1. \A u \in Refs : Claimers(u)' = Claimers(u)
    BY <1>2 DEF Claimers
  <2> SUFFICES ASSUME NEW u \in Refs
               PROVE  IF drain'[u] = "gone"
                      THEN pending[u] >= Cardinality(Claimers(u))
                      ELSE pending[u] = Len(queue[u]) + InFlightOf(u)'
                                         + Cardinality(Claimers(u))
    BY <1>2, <2>1 DEF PendingExact
  <2>2. IF drain[u] = "gone"
        THEN pending[u] >= Cardinality(Claimers(u))
        ELSE pending[u] = Len(queue[u]) + InFlightOf(u) + Cardinality(Claimers(u))
    BY DEF Accounts, PendingExact
  <2>3. CASE u = r
    <3>1. InFlightOf(u) = 0 /\ Len(queue[u]) = 0
      BY <1>2, <2>3 DEF InFlightOf
    <3>2. Cardinality(Claimers(u)) \in Nat
      BY ClaimersFinite
    <3> QED BY <1>2, <1>3, <2>2, <2>3, <3>1, <3>2
  <2>4. CASE u # r
    BY <1>3, <2>2, <2>4 DEF InFlightOf
  <2> QED BY <2>3, <2>4
<1>6. WaitersOK'
  <2>1. waiters[r] = <<>>
    <3> SUFFICES ASSUME waiters[r] # <<>> PROVE FALSE
      OBVIOUS
    <3>1. waiters[r] \in Seq(Senders) /\ 1 \in DOMAIN waiters[r]
      BY <1>1, HeadTail DEF TypeOK
    <3>2. /\ waiters[r][1] \in Senders
          /\ pc[waiters[r][1]] = "waiting"
          /\ ref[waiters[r][1]] = r
      BY <1>1, <3>1 DEF WaitersOK
    <3>3. waiters[r][1] \in live
      BY <1>1, <3>2 DEF BusyIsLive
    <3> QED BY <1>2, <3>2, <3>3 DEF RefHeld
  <2> QED BY <1>1, <1>2, <1>3, <2>1 DEF WaitersOK
<1> QED BY <1>1, <1>2, <1>4, <1>5, <1>6 DEF Accounts, BusyIsLive

\* The message leaves the hand, but is counted until the next step.
LEMMA DrainSendKeepsAccounts ==
  ASSUME Accounts, NEW r \in Refs, DrainSend(r)
  PROVE  Accounts'
<1> DEFINE m == hand[r][1]
<1>1. TypeOK /\ WaitersOK /\ BusyIsLive
  BY DEF Accounts
<1>2. PICK d \in {"sent", "failed"} :
        /\ drain[r] = "send"
        /\ drain' = [drain EXCEPT ![r] = d]
        /\ hand' = [hand EXCEPT ![r] = <<>>]
        /\ socket' = socket \/ socket' = Append(socket, m)
        /\ UNCHANGED <<ref, live, pc, call, msg, result, queue, pending, permits,
                       waiters, up, delivered, accepted>>
  BY DEF DrainSend, sendVars
<1>3. \A u \in Refs : drain'[u] = IF u = r THEN d ELSE drain[u]
  BY <1>1, <1>2 DEF TypeOK
<1>4. m \in Message
  <2>1. hand[r] \in Seq(Message) /\ Len(hand[r]) = 1
    BY <1>1, <1>2 DEF TypeOK
  <2> QED BY <2>1
<1> HIDE DEF m
<1>5. TypeOK'
  <2>1. socket' \in Seq(Message)
    <3>1. socket \in Seq(Message)
      BY <1>1 DEF TypeOK
    <3> QED BY <1>2, <1>4, <3>1, AppendProperties
  <2>2. hand' \in [Refs -> Seq(Message)]
    BY <1>1, <1>2 DEF TypeOK
  <2>3. \A u \in Refs : Len(hand'[u]) = IF drain'[u] = "send" THEN 1 ELSE 0
    BY <1>1, <1>2, <1>3 DEF TypeOK
  <2>4. drain' \in [Refs -> DrainPoints]
    BY <1>1, <1>2 DEF TypeOK, DrainPoints
  <2> QED BY <1>1, <1>2, <2>1, <2>2, <2>3, <2>4 DEF TypeOK
<1>6. PendingExact'
  <2>1. \A u \in Refs : Claimers(u)' = Claimers(u)
    BY <1>2 DEF Claimers
  <2>2. \A u \in Refs : /\ drain'[u] = "gone" <=> drain[u] = "gone"
                       /\ InFlightOf(u)' = InFlightOf(u)
    BY <1>2, <1>3 DEF InFlightOf
  <2> QED BY <1>2, <2>1, <2>2 DEF Accounts, PendingExact
<1>7. WaitersOK'
  BY <1>1, <1>2, <1>3, WaitersKept
<1> QED BY <1>1, <1>2, <1>5, <1>6, <1>7 DEF Accounts, BusyIsLive

\* After the send the drain task has one to give back: its own.
LEMMA DrainReleaseKeepsAccounts ==
  ASSUME Accounts, NEW r \in Refs, DrainRelease(r)
  PROVE  Accounts'
<1>1. TypeOK /\ WaitersOK /\ BusyIsLive
  BY DEF Accounts
<1>2. PICK d \in {"recv", "exit"} :
        /\ drain[r] \in {"sent", "failed"}
        /\ drain' = [drain EXCEPT ![r] = d]
        /\ pending' = [pending EXCEPT ![r] = @ - 1]
        /\ UNCHANGED <<ref, live, pc, call, msg, result, queue, permits, waiters,
                       hand, socket, up, delivered, accepted>>
  BY <1>1 DEF DrainRelease, sendVars, peerVars, TypeOK
<1>3. \A u \in Refs : drain'[u] = IF u = r THEN d ELSE drain[u]
  BY <1>1, <1>2 DEF TypeOK
<1>4. \A u \in Refs : Claimers(u)' = Claimers(u)
  BY <1>2 DEF Claimers
<1>5. ASSUME NEW u \in Refs
      PROVE  /\ pending'[u] \in Nat
             /\ IF drain'[u] = "gone"
                THEN pending'[u] >= Cardinality(Claimers(u))
                ELSE pending'[u] = Len(queue[u]) + InFlightOf(u)'
                                   + Cardinality(Claimers(u))
  <2>1. /\ Len(queue[u]) \in Nat
        /\ pending[u] \in Nat
        /\ Cardinality(Claimers(u)) \in Nat
    BY <1>1, ClaimersFinite DEF TypeOK
  <2>2. IF drain[u] = "gone"
        THEN pending[u] >= Cardinality(Claimers(u))
        ELSE pending[u] = Len(queue[u]) + InFlightOf(u) + Cardinality(Claimers(u))
    BY DEF Accounts, PendingExact
  <2>3. CASE u = r
    <3>1. InFlightOf(u) = 1 /\ InFlightOf(u)' = 0
      BY <1>2, <1>3, <2>3 DEF InFlightOf
    <3>2. pending'[u] = pending[u] - 1
      BY <1>1, <1>2, <2>3 DEF TypeOK
    <3> QED BY <1>2, <1>3, <2>1, <2>2, <2>3, <3>1, <3>2
  <2>4. CASE u # r
    <3>1. InFlightOf(u)' = InFlightOf(u) /\ drain'[u] = drain[u] /\ pending'[u] = pending[u]
      BY <1>1, <1>2, <1>3, <2>4 DEF InFlightOf, TypeOK
    <3> QED BY <2>1, <2>2, <3>1
  <2> QED BY <2>3, <2>4
<1>6. TypeOK'
  <2>1. pending' \in [Refs -> Nat]
    BY <1>1, <1>2, <1>5 DEF TypeOK
  <2>2. drain' \in [Refs -> DrainPoints]
    BY <1>1, <1>2 DEF TypeOK, DrainPoints
  <2>3. \A u \in Refs : Len(hand[u]) = IF drain'[u] = "send" THEN 1 ELSE 0
    BY <1>1, <1>2, <1>3 DEF TypeOK
  <2> QED BY <1>1, <1>2, <2>1, <2>2, <2>3 DEF TypeOK
<1>7. PendingExact'
  BY <1>2, <1>4, <1>5 DEF PendingExact
<1>8. WaitersOK'
  BY <1>1, <1>2, <1>3, WaitersKept
<1> QED BY <1>1, <1>2, <1>6, <1>7, <1>8 DEF Accounts, BusyIsLive

\* The channel closes with what it held: `pending' still covers the claims.
LEMMA DrainExitKeepsAccounts ==
  ASSUME Accounts, NEW r \in Refs, DrainExit(r)
  PROVE  Accounts'
<1>1. TypeOK /\ WaitersOK /\ BusyIsLive
  BY DEF Accounts
<1>2. /\ drain[r] = "exit"
      /\ drain' = [drain EXCEPT ![r] = "gone"]
      /\ queue' = [queue EXCEPT ![r] = <<>>]
      /\ waiters' = [waiters EXCEPT ![r] = <<>>]
      /\ UNCHANGED <<ref, live, pc, call, msg, result, pending, permits, hand,
                     socket, up, delivered, accepted>>
  BY DEF DrainExit, sendVars, peerVars
<1>3. \A u \in Refs :
        /\ drain'[u] = IF u = r THEN "gone" ELSE drain[u]
        /\ queue'[u] = IF u = r THEN <<>> ELSE queue[u]
        /\ waiters'[u] = IF u = r THEN <<>> ELSE waiters[u]
  BY <1>1, <1>2 DEF TypeOK
<1>4. TypeOK'
  <2>1. drain' \in [Refs -> DrainPoints]
    BY <1>1, <1>2 DEF TypeOK, DrainPoints
  <2>2. queue' \in [Refs -> Seq(Message)] /\ waiters' \in [Refs -> Seq(Senders)]
    BY <1>1, <1>2 DEF TypeOK
  <2>3. \A u \in Refs : Len(hand[u]) = IF drain'[u] = "send" THEN 1 ELSE 0
    BY <1>1, <1>2, <1>3 DEF TypeOK
  <2> QED BY <1>1, <1>2, <2>1, <2>2, <2>3 DEF TypeOK
<1>5. PendingExact'
  <2>1. \A u \in Refs : Claimers(u)' = Claimers(u)
    BY <1>2 DEF Claimers
  <2> SUFFICES ASSUME NEW u \in Refs
               PROVE  IF drain'[u] = "gone"
                      THEN pending[u] >= Cardinality(Claimers(u))
                      ELSE pending[u] = Len(queue'[u]) + InFlightOf(u)'
                                         + Cardinality(Claimers(u))
    BY <1>2, <2>1 DEF PendingExact
  <2>2. IF drain[u] = "gone"
        THEN pending[u] >= Cardinality(Claimers(u))
        ELSE pending[u] = Len(queue[u]) + InFlightOf(u) + Cardinality(Claimers(u))
    BY DEF Accounts, PendingExact
  <2>3. CASE u = r
    <3>1. InFlightOf(u) = 0 /\ Len(queue[u]) \in Nat
      BY <1>1, <1>2, <2>3 DEF InFlightOf, TypeOK
    <3>2. Cardinality(Claimers(u)) \in Nat
      BY ClaimersFinite
    <3> QED BY <1>2, <1>3, <2>2, <2>3, <3>1, <3>2
  <2>4. CASE u # r
    BY <1>3, <2>2, <2>4 DEF InFlightOf
  <2> QED BY <2>3, <2>4
<1>6. WaitersOK'
  BY <1>1, <1>2, <1>3 DEF WaitersOK
<1> QED BY <1>1, <1>2, <1>4, <1>5, <1>6 DEF Accounts, BusyIsLive

\* The far end, and a ref that is dropped between calls.
LEMMA PeerKeepsAccounts ==
  ASSUME Accounts,
         \/ Receive \/ PeerDown \/ EndOfFile \/ UNCHANGED vars
         \/ \E s \in Senders : Drop(s)
  PROVE  Accounts'
<1>1. TypeOK /\ BusyIsLive
  BY DEF Accounts
<1>2. UNCHANGED <<ref, pc, call, msg, result, queue, pending, permits, waiters,
                 drain, hand, accepted>>
  BY DEF Receive, PeerDown, EndOfFile, Drop, vars, sendVars, boxVars, peerVars
<1>3. \/ live' = live
      \/ \E s \in Senders : live' = live \ {s} /\ pc[s] = "idle"
  BY DEF Receive, PeerDown, EndOfFile, Drop, At, vars, sendVars
<1>4. /\ socket' \in Seq(Message)
      /\ up' \in BOOLEAN
      /\ delivered' \in Seq(Message)
  <2>1. socket \in Seq(Message) /\ delivered \in Seq(Message) /\ up \in BOOLEAN
    BY <1>1 DEF TypeOK
  <2>2. CASE Receive
    <3>1. /\ Head(socket) \in Message
          /\ Tail(socket) \in Seq(Message)
      BY <2>1, <2>2, HeadTail DEF Receive
    <3>2. Append(delivered, Head(socket)) \in Seq(Message)
      BY <2>1, <3>1, AppendProperties
    <3>3. \/ socket' = <<>> /\ delivered' = delivered
          \/ /\ socket' = Tail(socket)
             /\ delivered' = Append(delivered, Head(socket))
      BY <2>2 DEF Receive, PeerGone
    <3>4. socket' \in Seq(Message) /\ delivered' \in Seq(Message)
      <4>1. socket \in Seq(Message) /\ delivered \in Seq(Message)
        BY <2>1
      <4>2. <<>> \in Seq(Message)
        OBVIOUS
      <4> QED BY <3>1, <3>2, <3>3, <4>1, <4>2
    <3>5. up' \in BOOLEAN
      BY <2>1, <2>2, Zenon DEF Receive, PeerGone
    <3> QED BY <3>4, <3>5
  <2>3. CASE PeerDown \/ EndOfFile
    <3>1. socket' = <<>> /\ up' = FALSE /\ delivered' = delivered
      BY <2>3 DEF PeerDown, EndOfFile, PeerGone
    <3>2. socket' \in Seq(Message) /\ delivered' \in Seq(Message)
      BY <2>1, <3>1
    <3>3. up' \in BOOLEAN
      BY <3>1, Zenon
    <3> QED BY <3>2, <3>3
  <2>4. CASE UNCHANGED vars \/ \E s \in Senders : Drop(s)
    <3>1. UNCHANGED <<socket, up, delivered>>
      BY <2>4 DEF Drop, vars, peerVars
    <3> QED BY <2>1, <3>1
  <2> QED BY <2>2, <2>3, <2>4
<1>5. TypeOK'
  BY <1>1, <1>2, <1>3, <1>4 DEF TypeOK
<1>6. BusyIsLive'
  BY <1>1, <1>2, <1>3 DEF BusyIsLive
<1> QED BY <1>2, <1>5, <1>6, QuietStep

\* A process gets a new RefInner between two calls: no claim and no place in a
\* line moves with the caller.
LEMMA ReacquireKeepsAccounts ==
  ASSUME Accounts, NEW s \in Senders, Reacquire(s)
  PROVE  Accounts'
<1>1. TypeOK /\ WaitersOK /\ BusyIsLive /\ PendingExact
  BY DEF Accounts
<1>2. PICK r0 \in Refs : ref' = [ref EXCEPT ![s] = r0]
  BY DEF Reacquire
<1>3. /\ pc[s] = "idle"
      /\ UNCHANGED <<live, pc, call, msg, result, queue, pending, permits, waiters,
                     drain, hand, socket, up, delivered, accepted>>
  BY DEF Reacquire, At, boxVars, peerVars
<1>4. \A t \in Senders : t # s => ref'[t] = ref[t]
  BY <1>1, <1>2 DEF TypeOK
<1>5. TypeOK'
  BY <1>1, <1>2, <1>3 DEF TypeOK
<1>6. PendingExact'
  <2>1. \A r \in Refs : Claimers(r)' = Claimers(r)
    BY <1>3, <1>4 DEF Claimers
  <2>2. \A r \in Refs : InFlightOf(r)' = InFlightOf(r)
    BY <1>3 DEF InFlightOf
  <2> QED BY <1>1, <1>3, <2>1, <2>2 DEF PendingExact
<1>7. WaitersOK'
  <2>1. \A r \in Refs : \A i \in DOMAIN waiters[r] :
          waiters[r][i] \in Senders /\ waiters[r][i] # s
    <3> SUFFICES ASSUME NEW r \in Refs, NEW i \in DOMAIN waiters[r]
                 PROVE  waiters[r][i] \in Senders /\ waiters[r][i] # s
      OBVIOUS
    <3>1. waiters[r][i] \in Senders
      BY <1>1 DEF TypeOK
    <3>2. pc[waiters[r][i]] = "waiting"
      BY <1>1 DEF WaitersOK
    <3> QED BY <1>3, <3>1, <3>2
  <2> QED BY <1>1, <1>3, <1>4, <2>1 DEF WaitersOK
<1> QED BY <1>1, <1>3, <1>5, <1>6, <1>7 DEF Accounts, BusyIsLive

-----------------------------------------------------------------------------
\* Every step of the system keeps the account.
LEMMA AccountsStep == Accounts /\ [Next]_vars => Accounts'
<1> SUFFICES ASSUME Accounts, [Next]_vars PROVE Accounts'
  OBVIOUS
<1>1. ASSUME NEW s \in Senders,
             \/ Call(s) \/ SenderStep(s) \/ BuildFails(s) \/ AbortSend(s)
             \/ Drop(s) \/ Reacquire(s)
      PROVE  Accounts'
  BY <1>1, CallKeepsAccounts, SetOutboxKeepsAccounts, ClaimKeepsAccounts,
     UnclaimKeepsAccounts, PushKeepsAccounts, ReserveKeepsAccounts,
     WakeKeepsAccounts, AbortKeepsAccounts, PeerKeepsAccounts,
     ReacquireKeepsAccounts
  DEF SenderStep
<1>2. ASSUME NEW r \in Refs, DrainStep(r)
      PROVE  Accounts'
  BY <1>2, DrainRecvKeepsAccounts, DrainClosedKeepsAccounts,
     DrainSendKeepsAccounts, DrainReleaseKeepsAccounts, DrainExitKeepsAccounts
  DEF DrainStep
<1>3. CASE Receive \/ PeerDown \/ EndOfFile \/ Terminating \/ UNCHANGED vars
  BY <1>3, PeerKeepsAccounts DEF Terminating
<1> QED BY <1>1, <1>2, <1>3 DEF Next

\* The account holds in every state, whatever callers, drain tasks and peers
\* do in whatever order.
THEOREM AccountsInvariant == Spec => []Accounts
<1>1. Init => Accounts
  BY AccountsInit
<1>2. Accounts /\ [Next]_vars => Accounts'
  BY AccountsStep
<1> QED BY <1>1, <1>2, PTL DEF Spec

\* Outbox::pending and the channel hold what their types allow: no fetch_sub
\* ever wraps the counter.
THEOREM TypeCorrect == Spec => []TypeOK
<1>1. Accounts => TypeOK
  BY DEF Accounts
<1> QED BY <1>1, AccountsInvariant, PTL

\* Outbox::pending counts the backlog exactly: the gate of the fast path is
\* shut while a message waits and is opened by the send of the last one.
THEOREM PendingIsExact == Spec => []PendingExact
<1>1. Accounts => PendingExact
  BY DEF Accounts
<1> QED BY <1>1, AccountsInvariant, PTL

-----------------------------------------------------------------------------
(***************************************************************************)
(* What moves a drain task.                                                *)
(***************************************************************************)
\* Only its own steps do, and the sender that sets its outbox.
LEMMA DrainMoves ==
  ASSUME [Next]_vars, drain' # drain
  PROVE  (\E s \in Senders : SetOutbox(s)) \/ (\E r \in Refs : DrainStep(r))
<1>1. ASSUME NEW s \in Senders, Call(s) \/ BuildFails(s) \/ AbortSend(s) \/ Drop(s) \/ Reacquire(s)
      PROVE  FALSE
  BY <1>1 DEF Call, BuildFails, AbortSend, Drop, Reacquire, boxVars
<1>2. ASSUME NEW s \in Senders, Check(s) \/ SendInline(s) \/ GetOutbox(s)
      PROVE  FALSE
  BY <1>2 DEF Check, SendInline, GetOutbox, boxVars
<1>3. ASSUME NEW s \in Senders, Claim(s) \/ Push(s) \/ Unclaim(s)
      PROVE  FALSE
  BY <1>3 DEF Claim, Push, Unclaim
<1>4. ASSUME NEW s \in Senders, Reserve(s) \/ Wake(s) \/ ClaimSlot(s) \/ SendPermit(s)
      PROVE  FALSE
  BY <1>4 DEF Reserve, Wake, ClaimSlot, SendPermit, boxVars
<1>5. CASE Receive \/ PeerDown \/ EndOfFile \/ Terminating \/ UNCHANGED vars
  BY <1>5 DEF Receive, PeerDown, EndOfFile, Terminating, boxVars, vars
<1> QED BY <1>1, <1>2, <1>3, <1>4, <1>5 DEF Next, SenderStep

\* A channel that is closed stays closed.
LEMMA GoneStays ==
  ASSUME TypeOK, [Next]_vars, NEW r \in Refs, drain[r] = "gone"
  PROVE  drain'[r] = "gone"
<1>1. CASE drain' = drain
  BY <1>1
<1>2. ASSUME NEW s \in Senders, SetOutbox(s)
      PROVE  drain'[r] = "gone"
  BY <1>2 DEF SetOutbox, TypeOK
<1>3. ASSUME NEW u \in Refs, DrainRecv(u) \/ DrainClosed(u) \/ DrainSend(u)
      PROVE  drain'[r] = "gone"
  BY <1>3 DEF DrainRecv, DrainClosed, DrainSend, TypeOK
<1>4. ASSUME NEW u \in Refs, DrainRelease(u) \/ DrainExit(u)
      PROVE  drain'[r] = "gone"
  BY <1>4 DEF DrainRelease, DrainExit, TypeOK
<1> QED BY <1>1, <1>2, <1>3, <1>4, DrainMoves DEF DrainStep

\* A channel closes when the task has nobody left to serve, or has failed.
LEMMA GoneBegins ==
  ASSUME TypeOK, [Next]_vars, NEW r \in Refs, drain[r] # "gone", drain'[r] = "gone"
  PROVE  DrainClosed(r) \/ DrainExit(r)
<1>1. drain' # drain
  OBVIOUS
<1>2. ASSUME NEW s \in Senders, SetOutbox(s)
      PROVE  FALSE
  BY <1>2 DEF SetOutbox, TypeOK
<1>3. ASSUME NEW u \in Refs, DrainRecv(u) \/ DrainSend(u) \/ DrainRelease(u)
      PROVE  FALSE
  BY <1>3 DEF DrainRecv, DrainSend, DrainRelease, TypeOK
<1>4. ASSUME NEW u \in Refs, DrainClosed(u) \/ DrainExit(u)
      PROVE  u = r
  BY <1>4 DEF DrainClosed, DrainExit, TypeOK
<1> QED BY <1>1, <1>2, <1>3, <1>4, DrainMoves DEF DrainStep

-----------------------------------------------------------------------------
(***************************************************************************)
(* The slots of an outbox: none is lost or made up, however senders wait   *)
(* for one, give up or are woken, and nobody is parked while one is free.  *)
(*                                                                         *)
(* A slot is free, filled with a message, or owned by a sender on its way  *)
(* to fill it.  A step moves slots between the three, and Owned counts the *)
(* third, for any assignment of control points, so that a step that moves  *)
(* two senders can be taken apart.                                         *)
(***************************************************************************)
SlotPoints == {"assigned", "granted", "permit"}

Owners(r, pcs) == {s \in Senders : ref[s] = r /\ pcs[s] \in SlotPoints}

Owned(r, pcs) == Cardinality(Owners(r, pcs))

\* one, if s with control point p owns a slot of r
OneIf(r, s, p) == IF ref[s] = r /\ p \in SlotPoints THEN 1 ELSE 0

\* slots that are free or filled
Settled(r) == permits[r] + Len(queue[r])

Balance(r) ==
  /\ Settled(r) + Owned(r, pc) = DEPTH
  /\ waiters[r] # <<>> => permits[r] = 0

-----------------------------------------------------------------------------
\* The property is the balance of every channel that is open.
LEMMA SlotsAreBalanced ==
  /\ SlotsConserved <=> \A r \in Refs : drain[r] # "gone" => Balance(r)
  /\ SlotsConserved' <=> \A r \in Refs : drain'[r] # "gone" => Balance(r)'
BY DEF SlotsConserved, Balance, Settled, Owned, Owners, SlotOwners, SlotPoints

\* A sender that moves gives up what it owned and has what it owns now.
LEMMA OwnedMoves ==
  ASSUME NEW pcs \in [Senders -> SenderPoints], NEW s \in Senders, NEW p, NEW r \in Refs
  PROVE  /\ Owned(r, pcs) \in Nat
         /\ Owned(r, [pcs EXCEPT ![s] = p]) \in Nat
         /\ Owned(r, [pcs EXCEPT ![s] = p]) + OneIf(r, s, pcs[s])
              = Owned(r, pcs) + OneIf(r, s, p)
<1> DEFINE Rest == {t \in Senders \ {s} : ref[t] = r /\ pcs[t] \in SlotPoints}
<1>1. IsFiniteSet(Rest) /\ Cardinality(Rest) \in Nat /\ s \notin Rest
  <2>1. Rest \subseteq Senders /\ IsFiniteSet(Senders)
    BY SendPathAssumption
  <2> QED BY <2>1, FS_Subset, FS_CardinalityType
<1>2. IsFiniteSet(Rest \cup {s}) /\ Cardinality(Rest \cup {s}) = Cardinality(Rest) + 1
  BY <1>1, FS_AddElement
<1>3. Owners(r, pcs) = IF ref[s] = r /\ pcs[s] \in SlotPoints THEN Rest \cup {s} ELSE Rest
  BY DEF Owners
<1>4. Owners(r, [pcs EXCEPT ![s] = p])
        = IF ref[s] = r /\ p \in SlotPoints THEN Rest \cup {s} ELSE Rest
  BY DEF Owners
<1> HIDE DEF Rest
<1> QED BY <1>1, <1>2, <1>3, <1>4 DEF Owned, OneIf

\* Owners are counted by a number.
LEMMA OwnedIsNat ==
  ASSUME NEW pcs, NEW r \in Refs
  PROVE  Owned(r, pcs) \in Nat
<1>1. Owners(r, pcs) \subseteq Senders /\ IsFiniteSet(Senders)
  BY SendPathAssumption DEF Owners
<1> QED BY <1>1, FS_Subset, FS_CardinalityType DEF Owned

\* Free and filled slots are counted by a number.
LEMMA SettledIsNat ==
  ASSUME TypeOK, NEW r \in Refs
  PROVE  /\ Settled(r) \in Nat /\ permits[r] \in Nat /\ Len(queue[r]) \in Nat
         /\ queue[r] \in Seq(Message)
<1>1. permits[r] \in Nat /\ queue[r] \in Seq(Message)
  BY DEF TypeOK
<1> QED BY <1>1 DEF Settled

\* What a step leaves alone stays settled.
LEMMA SettledSame ==
  ASSUME NEW r \in Refs, permits'[r] = permits[r], queue'[r] = queue[r]
  PROVE  Settled(r)' = Settled(r)
BY DEF Settled

\* A slot that is filled is settled.
LEMMA SettledFilled ==
  ASSUME TypeOK, NEW r \in Refs, NEW m \in Message, queue'[r] = Append(queue[r], m)
  PROVE  /\ permits'[r] = permits[r] => Settled(r)' = Settled(r) + 1
         /\ permits'[r] = permits[r] - 1 => Settled(r)' = Settled(r)
<1>1. permits[r] \in Nat /\ Len(queue[r]) \in Nat /\ queue[r] \in Seq(Message)
  BY SettledIsNat
<1>2. Len(Append(queue[r], m)) = Len(queue[r]) + 1
  BY <1>1, AppendProperties
<1>3. Settled(r)' = permits'[r] + (Len(queue[r]) + 1)
  BY <1>2 DEF Settled
<1>4. Settled(r) = permits[r] + Len(queue[r])
  BY DEF Settled
<1>5. CASE permits'[r] = permits[r]
  <2>1. Settled(r)' = Settled(r) + 1
    BY <1>1, <1>3, <1>4, <1>5
  <2> QED BY <1>1, <1>5, <2>1
<1>6. CASE permits'[r] = permits[r] - 1
  <2>1. Settled(r)' = Settled(r)
    BY <1>1, <1>3, <1>4, <1>6
  <2> QED BY <1>1, <1>6, <2>1
<1> QED BY <1>5, <1>6

\* With the refs as they are, the owners of the next state are counted alike.
LEMMA OwnedNext ==
  ASSUME ref' = ref, NEW r \in Refs
  PROVE  Owned(r, pc)' = Owned(r, pc')
BY DEF Owned, Owners

-----------------------------------------------------------------------------
(***************************************************************************)
(* Steps.                                                                  *)
(***************************************************************************)
\* A sender that settles what it gave up, or owns what was settled, keeps the
\* balance.
LEMMA SenderBalance ==
  ASSUME TypeOK, NEW s \in Senders, NEW p, NEW r \in Refs, Balance(r),
         ref' = ref, pc' = [pc EXCEPT ![s] = p],
         Settled(r)' \in Nat,
         Settled(r)' + OneIf(r, s, p) = Settled(r) + OneIf(r, s, pc[s]),
         waiters'[r] # <<>> => permits'[r] = 0
  PROVE  Balance(r)'
<1> DEFINE own == Owned(r, pc)
           own1 == Owned(r, pc')
           has == OneIf(r, s, pc[s])
           has1 == OneIf(r, s, p)
           rest == Settled(r)
           rest1 == Settled(r)'
<1>1. own \in Nat /\ own1 \in Nat /\ own1 + has = own + has1
  BY OwnedMoves DEF TypeOK
<1>2. rest \in Nat /\ rest1 \in Nat
  BY SettledIsNat
<1>3. has \in Nat /\ has1 \in Nat
  BY DEF OneIf
<1>4. rest + own = DEPTH
  BY DEF Balance
<1>5. rest1 + has1 = rest + has
  OBVIOUS
<1>6. Owned(r, pc)' = own1
  BY OwnedNext
<1> HIDE DEF own, own1, has, has1, rest, rest1
<1>7. rest1 + own1 = DEPTH
  BY <1>1, <1>2, <1>3, <1>4, <1>5
<1> QED BY <1>6, <1>7 DEF Balance, rest1

\* A slot that is freed is free or owned by the first in line.
LEMMA ReleaseBalance ==
  ASSUME Accounts, NEW q \in Refs, NEW pcs \in [Senders -> SenderPoints],
         ReleasePermit(q, pcs), ref' = ref,
         \A t \in Senders : pc[t] = "waiting" => pcs[t] = "waiting",
         NEW r \in Refs, waiters[r] # <<>> => permits[r] = 0
  PROVE  /\ permits'[r] \in Nat /\ Owned(r, pc') \in Nat /\ Owned(r, pcs) \in Nat
         /\ permits'[r] + Owned(r, pc')
              = permits[r] + Owned(r, pcs) + (IF r = q THEN 1 ELSE 0)
         /\ waiters'[r] # <<>> => permits'[r] = 0
<1>1. TypeOK /\ WaitersOK /\ permits[r] \in Nat
  BY DEF Accounts, TypeOK
<1>2. CASE waiters[q] = <<>>
  <2>1. /\ permits' = [permits EXCEPT ![q] = @ + 1]
        /\ pc' = pcs /\ waiters' = waiters
    BY <1>2 DEF ReleasePermit
  <2>2. permits'[r] = IF r = q THEN permits[r] + 1 ELSE permits[r]
    BY <1>1, <2>1 DEF TypeOK
  <2>3. Owned(r, pcs) \in Nat
    BY OwnedIsNat
  <2> QED BY <1>1, <1>2, <2>1, <2>2, <2>3
<1>3. CASE waiters[q] # <<>>
  <2> DEFINE w == Head(waiters[q])
  <2>1. /\ pc' = [pcs EXCEPT ![w] = "assigned"]
        /\ waiters' = [waiters EXCEPT ![q] = Tail(@)] /\ permits' = permits
    BY <1>3 DEF ReleasePermit
  <2>2. w \in Senders /\ pc[w] = "waiting" /\ ref[w] = q
    <3>1. waiters[q] \in Seq(Senders)
      BY <1>1 DEF TypeOK
    <3>2. w \in Senders /\ 1 \in DOMAIN waiters[q] /\ w = waiters[q][1]
      BY <1>3, <3>1, HeadTail
    <3> QED BY <1>1, <3>2 DEF WaitersOK
  <2> HIDE DEF w
  <2>3. /\ Owned(r, pcs) \in Nat /\ Owned(r, pc') \in Nat
        /\ Owned(r, pc') + OneIf(r, w, pcs[w]) = Owned(r, pcs) + OneIf(r, w, "assigned")
    BY <2>1, <2>2, OwnedMoves
  <2>4. OneIf(r, w, pcs[w]) = 0 /\ OneIf(r, w, "assigned") = IF r = q THEN 1 ELSE 0
    BY <2>2 DEF OneIf, SlotPoints
  <2>5. waiters'[r] # <<>> => waiters[r] # <<>>
    BY <1>1, <1>3, <2>1 DEF TypeOK
  <2> QED BY <1>1, <2>1, <2>3, <2>4, <2>5
<1> QED BY <1>2, <1>3

\* Steps of a sender that touch no slot of an open channel.
LEMMA OtherSenderSteps ==
  ASSUME TypeOK, NEW r \in Refs, Balance(r), drain[r] # "gone", NEW s \in Senders,
         \/ Call(s) \/ Check(s) \/ SendInline(s) \/ GetOutbox(s) \/ BuildFails(s)
         \/ SetOutbox(s) \/ Claim(s) \/ Unclaim(s) \/ Wake(s) \/ ClaimSlot(s)
  PROVE  Balance(r)'
<1>1. UNCHANGED <<ref, permits, queue, waiters>>
  BY DEF Call, Check, SendInline, GetOutbox, BuildFails, SetOutbox, Claim, Unclaim, Wake,
         ClaimSlot, boxVars
<1> DEFINE p == pc'[s]
           Moves == {"idle", "check", "inline", "outbox", "set", "claim", "push", "reserve"}
           Slots == {"granted", "permit"}
<1>2. pc \in [Senders -> SenderPoints]
  BY DEF TypeOK
<1>3. /\ pc' = [pc EXCEPT ![s] = p]
      /\ \/ p \in SlotPoints <=> pc[s] \in SlotPoints
         \/ drain[ref[s]] = "gone"
  <2>1. CASE \/ /\ pc[s] \notin SlotPoints
                /\ \E x \in Moves : pc' = [pc EXCEPT ![s] = x]
             \/ /\ pc[s] \in SlotPoints
                /\ \E x \in Slots : pc' = [pc EXCEPT ![s] = x]
             \/ drain[ref[s]] = "gone" /\ pc' = [pc EXCEPT ![s] = "idle"]
    BY <1>2, <2>1 DEF SlotPoints
  <2>2. CASE Call(s) \/ Check(s) \/ SendInline(s)
    BY <2>1, <2>2 DEF Call, Check, SendInline, At, Goto, Return, SlotPoints
  <2>3. CASE BuildFails(s) \/ SetOutbox(s) \/ Claim(s)
    BY <2>1, <2>3 DEF BuildFails, SetOutbox, Claim, At, Goto, Return, SlotPoints
  <2>4. CASE GetOutbox(s)
    BY <2>1, <2>4 DEF GetOutbox, At, Goto, SlotPoints
  <2>5. CASE Unclaim(s)
    BY <2>1, <2>5 DEF Unclaim, At, Goto, SlotPoints
  <2>6. CASE Wake(s) \/ ClaimSlot(s)
    BY <2>1, <2>6 DEF Wake, ClaimSlot, At, Goto, Return, ChannelClosed, SlotPoints
  <2> QED BY <2>2, <2>3, <2>4, <2>5, <2>6
<1>4. OneIf(r, s, p) = OneIf(r, s, pc[s])
  BY <1>3 DEF OneIf
<1>5. Settled(r)' = Settled(r) /\ Settled(r)' \in Nat
  BY <1>1, SettledSame, SettledIsNat
<1>6. waiters'[r] # <<>> => permits'[r] = 0
  BY <1>1 DEF Balance
<1> QED BY <1>1, <1>3, <1>4, <1>5, <1>6, SenderBalance

\* try_send takes a free slot and fills it.
LEMMA PushBalance ==
  ASSUME TypeOK, NEW r \in Refs, Balance(r), NEW s \in Senders, Push(s)
  PROVE  Balance(r)'
<1>1. /\ ref[s] \in Refs /\ msg[s] \in Message /\ permits[r] \in Nat
      /\ (waiters[r] # <<>> => permits[r] = 0)
      /\ ref' = ref /\ waiters' = waiters
  BY DEF TypeOK, Balance, Push
<1>2. PICK p \in {"idle", "unclaim"} : pc' = [pc EXCEPT ![s] = p]
  BY DEF Push, Return
<1>3. OneIf(r, s, p) = OneIf(r, s, pc[s])
  BY <1>2 DEF OneIf, SlotPoints, Push, At
<1>4. CASE permits'[r] = permits[r] /\ queue'[r] = queue[r]
  <2>1. Settled(r)' = Settled(r) /\ Settled(r)' \in Nat
    BY <1>4, SettledSame, SettledIsNat
  <2>2. waiters'[r] # <<>> => permits'[r] = 0
    BY <1>1, <1>4
  <2> QED BY <1>1, <1>2, <1>3, <2>1, <2>2, SenderBalance
<1>5. CASE /\ permits[r] > 0 /\ permits'[r] = permits[r] - 1
           /\ queue'[r] = Append(queue[r], msg[s])
  <2>1. Settled(r)' = Settled(r) /\ Settled(r)' \in Nat
    BY <1>1, <1>5, SettledFilled, SettledIsNat
  <2>2. waiters'[r] # <<>> => permits'[r] = 0
    BY <1>1, <1>5
  <2> QED BY <1>1, <1>2, <1>3, <2>1, <2>2, SenderBalance
<1> QED BY <1>4, <1>5 DEF Push, TypeOK

\* reserve() takes a free slot, or joins the line when there is none.
LEMMA ReserveBalance ==
  ASSUME TypeOK, NEW r \in Refs, Balance(r), NEW s \in Senders, Reserve(s)
  PROVE  Balance(r)'
<1>1. /\ ref[s] \in Refs /\ permits[r] \in Nat
      /\ (waiters[r] # <<>> => permits[r] = 0)
      /\ ref' = ref /\ queue' = queue /\ OneIf(r, s, pc[s]) = 0
  BY DEF TypeOK, Balance, Reserve, At, OneIf, SlotPoints
<1>2. Settled(r) \in Nat /\ (permits'[r] = permits[r] => Settled(r)' = Settled(r))
  BY <1>1, SettledIsNat, SettledSame
<1>3. CASE /\ pc' = [pc EXCEPT ![s] = "idle"]
           /\ UNCHANGED <<permits, waiters>>
  <2>1. OneIf(r, s, "idle") = 0
    BY DEF OneIf, SlotPoints
  <2>2. waiters'[r] # <<>> => permits'[r] = 0
    BY <1>1, <1>3
  <2> QED BY <1>1, <1>2, <1>3, <2>1, <2>2, SenderBalance
<1>4. CASE /\ permits[ref[s]] > 0 /\ waiters' = waiters
           /\ permits' = [permits EXCEPT ![ref[s]] = @ - 1]
           /\ pc' = [pc EXCEPT ![s] = "granted"]
  <2>1. CASE r = ref[s]
    <3>1. permits'[r] = permits[r] - 1 /\ permits[r] > 0
      BY <1>4, <2>1 DEF TypeOK
    <3>2. OneIf(r, s, "granted") = 1
      BY <2>1 DEF OneIf, SlotPoints
    <3>3. Settled(r)' \in Nat /\ Settled(r)' + 1 = Settled(r)
      <4>1. permits[r] \in Nat /\ Len(queue[r]) \in Nat /\ queue'[r] = queue[r]
        BY <1>1, SettledIsNat
      <4> QED BY <3>1, <4>1 DEF Settled
    <3>4. waiters'[r] # <<>> => permits'[r] = 0
      BY <1>1, <1>4, <3>1
    <3>5. Settled(r)' + OneIf(r, s, "granted") = Settled(r) + OneIf(r, s, pc[s])
      BY <1>1, <1>2, <3>2, <3>3
    <3> QED BY <1>1, <1>4, <3>3, <3>4, <3>5, SenderBalance
  <2>2. CASE r # ref[s]
    <3>1. OneIf(r, s, "granted") = 0 /\ permits'[r] = permits[r]
      BY <1>4, <2>2 DEF OneIf, TypeOK
    <3>2. waiters'[r] # <<>> => permits'[r] = 0
      BY <1>1, <1>4, <3>1
    <3> QED BY <1>1, <1>2, <1>4, <3>1, <3>2, SenderBalance
  <2> QED BY <2>1, <2>2
<1>5. CASE /\ permits[ref[s]] = 0 /\ permits' = permits
           /\ waiters' = [waiters EXCEPT ![ref[s]] = Append(@, s)]
           /\ pc' = [pc EXCEPT ![s] = "waiting"]
  <2>1. OneIf(r, s, "waiting") = 0
    BY DEF OneIf, SlotPoints
  <2>2. waiters'[r] # <<>> => permits'[r] = 0
    BY <1>1, <1>5 DEF TypeOK
  <2> QED BY <1>1, <1>2, <1>5, <2>1, <2>2, SenderBalance
<1> QED BY <1>3, <1>4, <1>5 DEF Reserve, Return, Goto

\* Permit::send fills the slot that its sender owns.
LEMMA PermitBalance ==
  ASSUME TypeOK, NEW r \in Refs, Balance(r), drain[r] # "gone", NEW s \in Senders,
         SendPermit(s)
  PROVE  Balance(r)'
<1>1. /\ ref[s] \in Refs /\ msg[s] \in Message
      /\ UNCHANGED <<ref, permits, waiters>>
      /\ pc[s] = "permit" /\ pc' = [pc EXCEPT ![s] = "idle"]
  BY DEF TypeOK, SendPermit, At, Return
<1>2. OneIf(r, s, "idle") = 0 /\ Settled(r) \in Nat
  BY SettledIsNat DEF OneIf, SlotPoints
<1>3. waiters'[r] # <<>> => permits'[r] = 0
  BY <1>1 DEF Balance
<1>4. CASE r = ref[s]
  <2>1. queue'[r] = Append(queue[r], msg[s])
    BY <1>1, <1>4 DEF SendPermit, ChannelClosed, TypeOK
  <2>2. Settled(r)' = Settled(r) + 1
    BY <1>1, <2>1, SettledFilled
  <2>3. OneIf(r, s, pc[s]) = 1
    BY <1>1, <1>4 DEF OneIf, SlotPoints
  <2>4. Settled(r)' \in Nat /\ Settled(r)' + OneIf(r, s, "idle") = Settled(r) + OneIf(r, s, pc[s])
    BY <1>2, <2>2, <2>3
  <2> QED BY <1>1, <1>3, <2>4, SenderBalance
<1>5. CASE r # ref[s]
  <2>1. queue'[r] = queue[r] /\ OneIf(r, s, pc[s]) = 0
    BY <1>1, <1>5 DEF SendPermit, TypeOK, OneIf
  <2>2. Settled(r)' = Settled(r)
    BY <1>1, <2>1, SettledSame
  <2> QED BY <1>1, <1>2, <1>3, <2>1, <2>2, SenderBalance
<1> QED BY <1>4, <1>5

\* A sender that gives up leaves the line, or hands its slot on.
LEMMA AbortBalance ==
  ASSUME Accounts, NEW r \in Refs, Balance(r), NEW s \in Senders, AbortSend(s)
  PROVE  Balance(r)'
<1>1. /\ TypeOK /\ WaitersOK /\ ref[s] \in Refs /\ ref' = ref /\ queue' = queue
      /\ (waiters[r] # <<>> => permits[r] = 0)
  BY DEF Accounts, TypeOK, AbortSend, Balance
<1>2. OneIf(r, s, "idle") = 0 /\ Settled(r) \in Nat
  BY <1>1, SettledIsNat DEF OneIf, SlotPoints
<1>3. CASE /\ pc[s] = "waiting" /\ pc' = [pc EXCEPT ![s] = "idle"]
           /\ permits' = permits
           /\ \E i \in DOMAIN waiters[ref[s]] :
                waiters' = [waiters EXCEPT ![ref[s]] = RemoveAt(@, i)]
  <2>1. OneIf(r, s, pc[s]) = 0 /\ Settled(r)' = Settled(r)
    BY <1>1, <1>3, SettledSame DEF OneIf, SlotPoints
  <2>2. waiters'[r] # <<>> => waiters[r] # <<>>
    <3>1. \A u \in Refs : waiters[u] = <<>> => DOMAIN waiters[u] = {}
      OBVIOUS
    <3> QED BY <1>1, <1>3, <3>1 DEF TypeOK
  <2>3. waiters'[r] # <<>> => permits'[r] = 0
    BY <1>1, <1>3, <2>2
  <2> QED BY <1>1, <1>2, <1>3, <2>1, <2>3, SenderBalance
<1>4. CASE pc[s] = "assigned" /\ ReleasePermit(ref[s], [pc EXCEPT ![s] = "idle"])
  <2> DEFINE q == ref[s]
  <2>1. PICK pcs \in [Senders -> SenderPoints] :
          /\ pcs = [pc EXCEPT ![s] = "idle"]
          /\ ReleasePermit(q, pcs)
    <3>1. [pc EXCEPT ![s] = "idle"] \in [Senders -> SenderPoints]
      BY <1>1 DEF TypeOK, SenderPoints
    <3> QED BY <1>4, <3>1
  <2>2. \A t \in Senders : pc[t] = "waiting" => pcs[t] = "waiting"
    BY <1>1, <1>4, <2>1 DEF TypeOK
  <2> DEFINE freed == IF r = q THEN 1 ELSE 0
             n == Len(queue[r])
             free == permits[r]
             free1 == permits'[r]
             own == Owned(r, pc)
             between == Owned(r, pcs)
             own1 == Owned(r, pc')
  <2>3. OneIf(r, s, pc[s]) = freed
    BY <1>4 DEF OneIf, SlotPoints
  <2>4. between \in Nat /\ own \in Nat /\ between + freed = own
    <3>1. pc \in [Senders -> SenderPoints]
      BY <1>1 DEF TypeOK
    <3>2. \A p : Owned(r, [pc EXCEPT ![s] = p]) + OneIf(r, s, pc[s]) = Owned(r, pc) + OneIf(r, s, p)
      BY <3>1, OwnedMoves
    <3>4. between + OneIf(r, s, pc[s]) = own + OneIf(r, s, "idle")
      BY <2>1, <3>2
    <3>3. own \in Nat /\ between \in Nat
      BY OwnedIsNat
    <3> QED BY <1>2, <2>3, <3>3, <3>4
  <2>5. /\ free1 \in Nat /\ own1 \in Nat
        /\ free1 + own1 = free + between + freed
        /\ waiters'[r] # <<>> => permits'[r] = 0
    <3>1. /\ q \in Refs /\ ReleasePermit(q, pcs) /\ ref' = ref
          /\ waiters[r] # <<>> => permits[r] = 0
      BY <1>1, <2>1
    <3> HIDE DEF q, freed, own, between, own1, free, free1, n
    <3>2. /\ permits'[r] \in Nat /\ Owned(r, pc') \in Nat
          /\ permits'[r] + Owned(r, pc')
               = permits[r] + Owned(r, pcs) + (IF r = q THEN 1 ELSE 0)
          /\ waiters'[r] # <<>> => permits'[r] = 0
      BY <2>2, <3>1, ReleaseBalance
    <3> QED BY <3>2 DEF freed, own1, between, free, free1
  <2>6. Owned(r, pc)' = own1
    BY <1>1, OwnedNext
  <2>7. free \in Nat /\ n \in Nat /\ freed \in Nat
    BY <1>1, SettledIsNat
  <2>8. Settled(r) = free + n /\ Settled(r)' = free1 + n
    BY <1>1 DEF Settled
  <2>9. Settled(r) + own = DEPTH
    BY DEF Balance
  <2> HIDE DEF freed, own, between, own1, free, free1, n
  <2>10. Settled(r)' + own1 = DEPTH
    BY <2>4, <2>5, <2>7, <2>8, <2>9
  <2> QED BY <2>5, <2>6, <2>10 DEF Balance
<1> QED BY <1>3, <1>4 DEF AbortSend

\* recv() frees the slot of the message it takes.
LEMMA TakeBalance ==
  ASSUME Accounts, NEW r \in Refs, Balance(r), NEW q \in Refs, DrainRecv(q)
  PROVE  Balance(r)'
<1> DEFINE freed == IF r = q THEN 1 ELSE 0
<1>1. /\ TypeOK /\ ref' = ref /\ pc \in [Senders -> SenderPoints]
      /\ (waiters[r] # <<>> => permits[r] = 0)
  BY DEF Accounts, TypeOK, DrainRecv, Balance
<1>2. permits[r] \in Nat /\ Len(queue[r]) \in Nat /\ queue[r] \in Seq(Message)
  BY <1>1, SettledIsNat
<1>3. /\ permits'[r] \in Nat /\ Owned(r, pc') \in Nat /\ Owned(r, pc) \in Nat
      /\ permits'[r] + Owned(r, pc') = permits[r] + Owned(r, pc) + freed
      /\ waiters'[r] # <<>> => permits'[r] = 0
  BY <1>1, ReleaseBalance DEF DrainRecv
<1> DEFINE own == Owned(r, pc)
           own1 == Owned(r, pc')
           n == Len(queue[r])
           free == permits[r]
           free1 == permits'[r]
<1>4. Settled(r) = free + n /\ Settled(r) + own = DEPTH
  BY DEF Settled, Balance
<1>5. Settled(r)' = free1 + (n - freed)
  <2>1. CASE r = q
    <3>1. queue[r] # <<>> /\ queue'[r] = Tail(queue[r])
      BY <1>1, <2>1 DEF DrainRecv, TypeOK
    <3>2. Len(Tail(queue[r])) = Len(queue[r]) - 1
      BY <1>2, <3>1, HeadTail
    <3> QED BY <2>1, <3>1, <3>2 DEF Settled
  <2>2. CASE r # q
    <3>1. queue'[r] = queue[r]
      BY <1>1, <2>2 DEF DrainRecv, TypeOK
    <3> QED BY <1>2, <2>2, <3>1 DEF Settled
  <2> QED BY <2>1, <2>2
<1>6. freed \in Nat
  OBVIOUS
<1>7. Owned(r, pc)' = own1
  BY <1>1, OwnedNext
<1>8. /\ own \in Nat /\ own1 \in Nat /\ n \in Nat /\ free \in Nat /\ free1 \in Nat
      /\ free1 + own1 = free + own + freed
  BY <1>2, <1>3
<1> HIDE DEF own, own1, freed, n, free, free1
<1>9. Settled(r)' + own1 = DEPTH
  BY <1>4, <1>5, <1>6, <1>8
<1> QED BY <1>3, <1>7, <1>9 DEF Balance

\* Steps that move no sender and no slot of an open channel.
LEMMA OtherSteps ==
  ASSUME Accounts, NEW r \in Refs, Balance(r), drain'[r] # "gone",
         \/ \E s \in Senders : Drop(s) \/ Reacquire(s)
         \/ \E q \in Refs : DrainClosed(q) \/ DrainSend(q) \/ DrainRelease(q) \/ DrainExit(q)
         \/ Receive \/ PeerDown \/ EndOfFile \/ Terminating \/ UNCHANGED vars
  PROVE  Balance(r)'
<1>1. TypeOK
  BY DEF Accounts
<1>2. pc' = pc /\ permits' = permits /\ queue'[r] = queue[r] /\ waiters'[r] = waiters[r]
  BY <1>1
     DEF Drop, Reacquire, DrainClosed, DrainSend, DrainRelease, DrainExit, Receive, PeerDown,
         EndOfFile, Terminating, vars, sendVars, boxVars, TypeOK
<1>3. Owners(r, pc)' = Owners(r, pc)
  <2>1. CASE ref' = ref
    BY <1>2, <2>1 DEF Owners
  <2>2. CASE \E s \in Senders : Reacquire(s)
    <3>1. PICK s \in Senders, u \in Refs : pc[s] = "idle" /\ ref' = [ref EXCEPT ![s] = u]
      BY <2>2 DEF Reacquire, At
    <3>2. \A t \in Senders : pc[t] \in SlotPoints => ref'[t] = ref[t]
      BY <1>1, <3>1 DEF SlotPoints, TypeOK
    <3> QED BY <1>2, <3>2 DEF Owners
  <2>3. ref' = ref \/ \E s \in Senders : Reacquire(s)
    BY DEF Drop, DrainClosed, DrainSend, DrainRelease, DrainExit, Receive, PeerDown,
           EndOfFile, Terminating, vars, sendVars
  <2> QED BY <2>1, <2>2, <2>3
<1>4. Settled(r)' = Settled(r)
  BY <1>2, SettledSame
<1> QED BY <1>2, <1>3, <1>4 DEF Balance, Owned

-----------------------------------------------------------------------------
\* Every step keeps the balance of the channels that are open.
LEMMA SlotsStep ==
  ASSUME Accounts, SlotsConserved, [Next]_vars
  PROVE  SlotsConserved'
<1> SUFFICES ASSUME NEW r \in Refs, drain'[r] # "gone" PROVE Balance(r)'
  BY SlotsAreBalanced
<1>1. TypeOK /\ drain[r] # "gone" /\ Balance(r)
  <2>1. TypeOK
    BY DEF Accounts
  <2> QED BY <2>1, GoneStays, SlotsAreBalanced
<1> QED
  BY <1>1, OtherSenderSteps, PushBalance, ReserveBalance, PermitBalance, AbortBalance,
     TakeBalance, OtherSteps
     DEF Next, SenderStep, DrainStep

\* No slot of an outbox is lost or made up, whoever waits, gives up or is
\* woken, and nobody is parked while a slot is free (Outbox::send, reserve()).
THEOREM NoSlotIsLost == Spec => []SlotsConserved
<1> DEFINE Inv == Accounts /\ SlotsConserved
<1>1. Init => Inv
  <2> SUFFICES ASSUME Init PROVE SlotsConserved
    BY AccountsInit
  <2> SUFFICES ASSUME NEW r \in Refs PROVE Balance(r)
    BY SlotsAreBalanced
  <2>1. permits[r] = DEPTH /\ queue[r] = <<>> /\ waiters[r] = <<>> /\ DEPTH \in Nat
    BY SendPathAssumption DEF Init
  <2>2. Owners(r, pc) = {}
    BY DEF Init, Owners, SlotPoints
  <2>3. Owned(r, pc) = 0
    BY <2>2, FS_EmptySet DEF Owned
  <2> QED BY <2>1, <2>3 DEF Balance, Settled
<1>2. Inv /\ [Next]_vars => Inv'
  BY AccountsStep, SlotsStep
<1> QED BY <1>1, <1>2, PTL DEF Spec
=============================================================================
