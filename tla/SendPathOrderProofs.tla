------------------------- MODULE SendPathOrderProofs ------------------------
(***************************************************************************)
(* Proofs about the messages of SendPath: that they are neither lost nor   *)
(* kept back, that those of one sender stay in order whichever of the two  *)
(* paths each takes, that Closed is reported only of a node that is gone,  *)
(* and that all of this together is a FifoLink.                            *)
(*                                                                         *)
(* The argument looks at what a step does to the messages on their way.    *)
(* There are only seven kinds of that (Effects), whatever the step is for. *)
(***************************************************************************)
EXTENDS SendPathProofs

\* Every message fits one control message; nobody regains a dropped ref.
FitsControl == "manyfds" \notin Kinds
NoReacquire == "reacquire" \notin Faults

\* the messages that r's drain task has still to send
Late(r) == Range(hand[r]) \cup Range(queue[r])

\* A sender's message is its own, and one that can be offered.
MsgIsOwn ==
  \A s \in Senders : msg[s].from = s /\ (pc[s] # "idle" => msg[s] \in Offered)

\* What is on its way or handled was accepted.
Sound ==
  /\ accepted \subseteq Offered
  /\ Range(delivered) \cup Range(socket) \subseteq accepted
  /\ \A r \in Refs : Late(r) \subseteq accepted

\* What a sender had accepted is earlier than the message of a call under way.
Past ==
  \A m \in accepted :
    IF pc[m.from] = "idle" THEN m.seq <= msg[m.from].seq ELSE m.seq < msg[m.from].seq

\* A channel that is closed is empty.
GoneIsEmpty == \A r \in Refs : drain[r] = "gone" => queue[r] = <<>>

Flow == Accounts /\ MsgIsOwn /\ Sound /\ Past /\ GoneIsEmpty

-----------------------------------------------------------------------------
(***************************************************************************)
(* Sequences.                                                              *)
(***************************************************************************)
InOrder(q) ==
  \A i, j \in DOMAIN q : i < j /\ q[i].from = q[j].from => q[i].seq < q[j].seq

\* The messages of P are earlier than those that the same senders have in Q.
Precede(P, Q) == \A m \in P, n \in Q : m.from = n.from => m.seq < n.seq

\* What is appended is one more element.
LEMMA RangeAppend ==
  ASSUME NEW S, NEW q \in Seq(S), NEW x \in S
  PROVE  Range(Append(q, x)) = Range(q) \cup {x}
<1>1. /\ DOMAIN Append(q, x) = 1 .. Len(q) + 1
      /\ \A i \in 1 .. Len(q) : Append(q, x)[i] = q[i]
      /\ Append(q, x)[Len(q) + 1] = x
      /\ DOMAIN q = 1 .. Len(q) /\ Len(q) \in Nat
  BY AppendProperties
<1> QED BY <1>1 DEF Range

\* The first element and the rest are all there is.
LEMMA RangeHeadTail ==
  ASSUME NEW S, NEW q \in Seq(S), q # <<>>
  PROVE  Range(q) = {Head(q)} \cup Range(Tail(q))
<1>1. /\ Head(q) = q[1] /\ Len(q) > 0 /\ Len(q) \in Nat
      /\ DOMAIN Tail(q) = 1 .. Len(q) - 1 /\ DOMAIN q = 1 .. Len(q)
      /\ \A j \in 1 .. Len(q) - 1 : Tail(q)[j] = q[j + 1]
  BY HeadTail
<1>2. ASSUME NEW j \in 2 .. Len(q)
      PROVE  q[j] = Tail(q)[j - 1] /\ j - 1 \in DOMAIN Tail(q)
  BY <1>1
<1>3. ASSUME NEW y \in Range(q)
      PROVE  y \in {Head(q)} \cup Range(Tail(q))
  <2>1. PICK i \in 1 .. Len(q) : y = q[i]
    BY <1>1 DEF Range
  <2>2. CASE i = 1
    BY <1>1, <2>1, <2>2
  <2>3. CASE i \in 2 .. Len(q)
    BY <1>2, <2>1, <2>3 DEF Range
  <2> QED BY <1>1, <2>1, <2>2, <2>3
<1>4. ASSUME NEW y \in Range(Tail(q))
      PROVE  y \in Range(q)
  <2>1. PICK j \in 1 .. Len(q) - 1 : y = q[j + 1]
    BY <1>1 DEF Range
  <2> QED BY <1>1, <2>1 DEF Range
<1>5. Head(q) \in Range(q)
  BY <1>1 DEF Range
<1> QED BY <1>3, <1>4, <1>5

\* The empty sequence has no element.
LEMMA RangeNone == Range(<<>>) = {}
BY DEF Range

\* A sequence of one has that one.
LEMMA RangeOne == ASSUME NEW x PROVE Range(<<x>>) = {x}
BY DEF Range

\* A message later than all its sender has in line may join the line.
LEMMA OrderAppend ==
  ASSUME NEW q \in Seq(Message), InOrder(q), NEW m \in Message, Precede(Range(q), {m})
  PROVE  InOrder(Append(q, m))
<1>1. /\ DOMAIN Append(q, m) = 1 .. Len(q) + 1
      /\ \A i \in 1 .. Len(q) : Append(q, m)[i] = q[i]
      /\ Append(q, m)[Len(q) + 1] = m
      /\ DOMAIN q = 1 .. Len(q) /\ Len(q) \in Nat
  BY AppendProperties
<1>2. \A i \in 1 .. Len(q) : q[i].from = m.from => q[i].seq < m.seq
  BY <1>1 DEF Precede, Range
<1> QED BY <1>1, <1>2 DEF InOrder

\* The first in line precedes the rest.
LEMMA OrderTail ==
  ASSUME NEW q \in Seq(Message), InOrder(q), q # <<>>
  PROVE  InOrder(Tail(q)) /\ Precede({Head(q)}, Range(Tail(q)))
<1>1. /\ Head(q) = q[1] /\ Len(q) > 0 /\ Len(q) \in Nat
      /\ DOMAIN Tail(q) = 1 .. Len(q) - 1 /\ DOMAIN q = 1 .. Len(q)
      /\ \A j \in 1 .. Len(q) - 1 : Tail(q)[j] = q[j + 1]
  BY HeadTail
<1>2. InOrder(Tail(q))
  BY <1>1 DEF InOrder
<1>3. \A j \in 1 .. Len(q) - 1 :
        Head(q).from = Tail(q)[j].from => Head(q).seq < Tail(q)[j].seq
  BY <1>1 DEF InOrder
<1> QED BY <1>1, <1>2, <1>3 DEF Precede, Range

-----------------------------------------------------------------------------
(***************************************************************************)
(* What steps do to the messages on their way.                             *)
(***************************************************************************)
Quiet == UNCHANGED <<queue, hand, peerVars, accepted>>

\* A call of s returns Ok.
ReturnsOk(s) ==
  /\ s \in live /\ pc[s] # "idle"
  /\ pc' = [pc EXCEPT ![s] = "idle"]
  /\ msg' = msg /\ ref' = ref
  /\ accepted' = accepted \cup {msg[s]}

Inlines(s) ==
  /\ ReturnsOk(s) /\ pc[s] = "inline" /\ up
  /\ socket' = Append(socket, msg[s])
  /\ UNCHANGED <<queue, hand, up, delivered>>

Enqueues(s) ==
  /\ ReturnsOk(s) /\ pc[s] \in {"push", "permit"} /\ drain[ref[s]] # "gone"
  /\ queue' = [queue EXCEPT ![ref[s]] = Append(@, msg[s])]
  /\ UNCHANGED <<hand, peerVars>>

\* into a channel that has closed
Wastes(s) ==
  /\ ReturnsOk(s) /\ drain[ref[s]] = "gone"
  /\ UNCHANGED <<queue, hand, peerVars>>

\* The drain task takes a message from the queue, sends it, or ends.
Takes(r) ==
  /\ queue[r] # <<>> /\ hand[r] = <<>>
  /\ hand' = [hand EXCEPT ![r] = <<Head(queue[r])>>]
  /\ queue' = [queue EXCEPT ![r] = Tail(@)]
  /\ UNCHANGED <<peerVars, accepted>>

Sends(r) ==
  /\ hand[r] # <<>>
  /\ socket' = Append(socket, Head(hand[r]))
  /\ hand' = [hand EXCEPT ![r] = <<>>]
  /\ UNCHANGED <<queue, up, delivered, accepted>>

Fails(r) ==
  /\ \/ /\ hand[r] # <<>>
        /\ ~up \/ Head(hand[r]).kind = "manyfds"
        /\ hand' = [hand EXCEPT ![r] = <<>>]
        /\ queue' = queue
     \/ /\ drain[r] = "exit"
        /\ queue' = [queue EXCEPT ![r] = <<>>]
        /\ hand' = hand
  /\ UNCHANGED <<peerVars, accepted>>

Handles ==
  /\ up /\ socket # <<>>
  /\ socket' = Tail(socket)
  /\ delivered' = Append(delivered, Head(socket))
  /\ UNCHANGED <<queue, hand, up, accepted>>

GoesDown ==
  /\ up /\ up' = FALSE /\ socket' = <<>>
  /\ UNCHANGED <<queue, hand, delivered, accepted>>

Effect ==
  \/ Quiet
  \/ \E s \in Senders : Inlines(s) \/ Enqueues(s) \/ Wastes(s)
  \/ \E r \in Refs : Takes(r) \/ Sends(r) \/ Fails(r)
  \/ Handles
  \/ GoesDown

\* Steps of a call that return no Ok leave the messages alone.
LEMMA SenderEffect ==
  ASSUME TypeOK, NEW s \in Senders,
         \/ Call(s) \/ SenderStep(s) \/ BuildFails(s) \/ AbortSend(s)
         \/ Drop(s) \/ Reacquire(s)
  PROVE  Quiet \/ Inlines(s) \/ Enqueues(s) \/ Wastes(s)
<1>1. CASE \/ Call(s) \/ Check(s) \/ GetOutbox(s) \/ SetOutbox(s) \/ Claim(s)
           \/ Unclaim(s) \/ Reserve(s) \/ Wake(s) \/ ClaimSlot(s) \/ BuildFails(s)
           \/ AbortSend(s) \/ Drop(s) \/ Reacquire(s)
  BY <1>1
     DEF Call, Check, GetOutbox, SetOutbox, Claim, Unclaim, Reserve, Wake, ClaimSlot,
         BuildFails, AbortSend, Drop, Reacquire, Quiet, boxVars, peerVars
<1>2. CASE SendInline(s)
  BY <1>2
     DEF SendInline, At, Return, Goto, Accepts, HasRoom, Inlines, ReturnsOk, Quiet,
         boxVars, peerVars
<1>3. CASE Push(s)
  BY <1>3
     DEF Push, At, Return, Accepts, ChannelClosed, Enqueues, ReturnsOk, Quiet, peerVars
<1>4. CASE SendPermit(s)
  <2>1. /\ ReturnsOk(s) /\ pc[s] = "permit" /\ UNCHANGED <<hand, peerVars>>
        /\ queue' = [queue EXCEPT ![ref[s]] = IF drain[ref[s]] = "gone" THEN @
                                              ELSE Append(@, msg[s])]
    BY <1>4 DEF SendPermit, At, Return, Accepts, ChannelClosed, ReturnsOk
  <2>2. CASE drain[ref[s]] = "gone"
    <3>1. queue' = queue
      BY <2>1, <2>2 DEF TypeOK
    <3> QED BY <2>1, <2>2, <3>1 DEF Wastes
  <2>3. CASE drain[ref[s]] # "gone"
    BY <2>1, <2>3 DEF Enqueues
  <2> QED BY <2>2, <2>3
<1> QED BY <1>1, <1>2, <1>3, <1>4 DEF SenderStep

\* The drain task takes, sends, fails, or does none of these.
LEMMA DrainEffect ==
  ASSUME TypeOK, NEW r \in Refs, DrainStep(r)
  PROVE  Quiet \/ Takes(r) \/ Sends(r) \/ Fails(r)
<1>1. CASE DrainClosed(r) \/ DrainRelease(r)
  BY <1>1 DEF DrainClosed, DrainRelease, Quiet
<1>2. CASE DrainRecv(r)
  <2>1. hand[r] = <<>>
    BY <1>2 DEF DrainRecv, TypeOK
  <2> QED BY <1>2, <2>1 DEF DrainRecv, Takes, peerVars
<1>3. CASE DrainSend(r)
  <2>1. hand[r] # <<>> /\ Head(hand[r]) = hand[r][1]
    BY <1>3 DEF DrainSend, TypeOK
  <2> QED BY <1>3, <2>1 DEF DrainSend, Sends, Fails, peerVars
<1>4. CASE DrainExit(r)
  BY <1>4 DEF DrainExit, Fails
<1> QED BY <1>1, <1>2, <1>3, <1>4 DEF DrainStep

\* Every step has one of the effects.
LEMMA StepEffect == ASSUME TypeOK, [Next]_vars PROVE Effect
<1>1. CASE Receive \/ PeerDown \/ EndOfFile
  BY <1>1
     DEF Receive, PeerDown, EndOfFile, PeerGone, Effect, Handles, GoesDown, boxVars
<1>2. CASE Terminating \/ UNCHANGED vars
  BY <1>2 DEF Terminating, vars, boxVars, peerVars, Effect, Quiet
<1> QED BY <1>1, <1>2, SenderEffect, DrainEffect DEF Next, Effect

-----------------------------------------------------------------------------
(***************************************************************************)
(* What steps do to the calls.                                             *)
(***************************************************************************)
\* t's message is new only at a call, and t is in the fast path only after it
\* found no backlog.
Moves(t) ==
  /\ \/ msg'[t] = msg[t] /\ (pc'[t] # "idle" => pc[t] # "idle")
     \/ Call(t)
  /\ pc'[t] = "inline" => pc[t] = "inline" \/ (Check(t) /\ pending[ref[t]] = 0)

\* A slot that is freed moves nobody but one who waits for it.
LEMMA ReleaseMoves ==
  ASSUME Accounts, NEW t \in Senders,
         \/ \E r \in Refs : DrainRecv(r)
         \/ \E s \in Senders : AbortSend(s)
  PROVE  Moves(t)
<1>1. TypeOK /\ WaitersOK
  BY DEF Accounts
<1>2. ASSUME NEW q \in Refs, NEW pcs \in [Senders -> SenderPoints], ReleasePermit(q, pcs),
             msg' = msg, \A u \in Senders : pcs[u] = pc[u] \/ pcs[u] = "idle"
      PROVE  Moves(t)
  <2>1. CASE waiters[q] = <<>>
    BY <1>2, <2>1 DEF ReleasePermit, Moves
  <2>2. CASE waiters[q] # <<>>
    <3>1. Head(waiters[q]) \in Senders /\ pc[Head(waiters[q])] = "waiting"
      <4>1. waiters[q] \in Seq(Senders)
        BY <1>1 DEF TypeOK
      <4>2. /\ Head(waiters[q]) \in Senders /\ 1 \in DOMAIN waiters[q]
            /\ Head(waiters[q]) = waiters[q][1]
        BY <2>2, <4>1, HeadTail
      <4> QED BY <1>1, <4>2 DEF WaitersOK
    <3>2. pc' = [pcs EXCEPT ![Head(waiters[q])] = "assigned"]
      BY <1>2, <2>2 DEF ReleasePermit
    <3> QED BY <1>2, <3>1, <3>2 DEF Moves
  <2> QED BY <2>1, <2>2
<1>3. ASSUME NEW r \in Refs, DrainRecv(r)
      PROVE  Moves(t)
  <2>1. pc \in [Senders -> SenderPoints]
    BY <1>1 DEF TypeOK
  <2> QED BY <1>2, <1>3, <2>1 DEF DrainRecv
<1>4. ASSUME NEW s \in Senders, AbortSend(s)
      PROVE  Moves(t)
  <2>1. /\ [pc EXCEPT ![s] = "idle"] \in [Senders -> SenderPoints]
        /\ ref[s] \in Refs /\ msg' = msg
    BY <1>1, <1>4 DEF TypeOK, SenderPoints, AbortSend
  <2>2. CASE pc' = [pc EXCEPT ![s] = "idle"]
    BY <1>1, <2>1, <2>2 DEF Moves, TypeOK
  <2>3. CASE ReleasePermit(ref[s], [pc EXCEPT ![s] = "idle"])
    BY <1>1, <1>2, <2>1, <2>3 DEF TypeOK
  <2> QED BY <1>4, <2>2, <2>3 DEF AbortSend
<1> QED BY <1>3, <1>4

\* Every step moves calls like that.
LEMMA StepMoves ==
  ASSUME Accounts, [Next]_vars, NEW t \in Senders
  PROVE  Moves(t)
<1>1. TypeOK
  BY DEF Accounts
<1>2. ASSUME NEW s \in Senders,
             \/ Call(s) \/ SenderStep(s) \/ BuildFails(s) \/ Drop(s) \/ Reacquire(s)
      PROVE  Moves(t)
  <2>1. CASE Call(s)
    BY <1>1, <2>1 DEF Call, At, Goto, Return, Moves, TypeOK
  <2>2. CASE Drop(s) \/ Reacquire(s)
    BY <2>2 DEF Drop, Reacquire, Moves
  <2>3. CASE SenderStep(s) \/ BuildFails(s)
    <3>1. msg' = msg /\ pc[s] # "idle" /\ \E p : pc' = [pc EXCEPT ![s] = p]
      BY <2>3
         DEF SenderStep, BuildFails, Check, SendInline, GetOutbox, SetOutbox, Claim, Push,
             Unclaim, Reserve, Wake, ClaimSlot, SendPermit, At, Goto, Return
    <3>2. pc'[s] = "inline" => Check(s) /\ pending[ref[s]] = 0
      BY <1>1, <2>3
         DEF SenderStep, BuildFails, Check, SendInline, GetOutbox, SetOutbox, Claim, Push,
             Unclaim, Reserve, Wake, ClaimSlot, SendPermit, At, Goto, Return, IsBackedUp,
             TypeOK
    <3>3. PICK p : pc' = [pc EXCEPT ![s] = p]
      BY <3>1
    <3>4. CASE t = s
      BY <3>1, <3>2, <3>4 DEF Moves
    <3>5. CASE t # s
      BY <1>1, <3>1, <3>3, <3>5 DEF Moves, TypeOK
    <3> QED BY <3>4, <3>5
  <2> QED BY <1>2, <2>1, <2>2, <2>3
<1>3. ASSUME NEW r \in Refs,
             DrainClosed(r) \/ DrainSend(r) \/ DrainRelease(r) \/ DrainExit(r)
      PROVE  Moves(t)
  BY <1>3 DEF DrainClosed, DrainSend, DrainRelease, DrainExit, sendVars, Moves
<1>4. CASE Receive \/ PeerDown \/ EndOfFile \/ Terminating \/ UNCHANGED vars
  BY <1>4 DEF Receive, PeerDown, EndOfFile, Terminating, vars, sendVars, Moves
<1> QED BY <1>2, <1>3, <1>4, ReleaseMoves DEF Next, DrainStep

-----------------------------------------------------------------------------
(***************************************************************************)
(* The flow of messages.                                                   *)
(***************************************************************************)
\* Nothing is on its way at first.
LEMMA FlowInit == Init => Flow
<1> SUFFICES ASSUME Init PROVE Flow
  OBVIOUS
<1>1. MsgIsOwn /\ GoneIsEmpty
  BY DEF Init, MsgIsOwn, GoneIsEmpty
<1>2. Sound /\ Past
  BY DEF Init, Sound, Past, Late, Range
<1> QED BY <1>1, <1>2, AccountsInit DEF Flow

\* A call under way has a message of its own.
LEMMA MsgStaysOwn ==
  ASSUME Accounts, MsgIsOwn, [Next]_vars
  PROVE  MsgIsOwn'
<1> SUFFICES ASSUME NEW t \in Senders
             PROVE  msg'[t].from = t /\ (pc'[t] # "idle" => msg'[t] \in Offered)
  BY DEF MsgIsOwn
<1>1. TypeOK
  BY DEF Accounts
<1>2. CASE msg'[t] = msg[t] /\ (pc'[t] # "idle" => pc[t] # "idle")
  BY <1>2 DEF MsgIsOwn
<1>3. CASE Call(t)
  <2>1. PICK k \in Kinds :
          msg' = [msg EXCEPT ![t] = [from |-> t, seq |-> @.seq + 1, kind |-> k]]
    BY <1>3 DEF Call
  <2>2. msg[t].seq \in 0 .. MaxSends /\ msg[t].seq < MaxSends /\ MaxSends \in Nat
    BY <1>1, <1>3, SendPathAssumption DEF Call, TypeOK, Message
  <2>3. msg'[t] = [from |-> t, seq |-> msg[t].seq + 1, kind |-> k]
    BY <1>1, <2>1 DEF TypeOK
  <2> QED BY <2>2, <2>3 DEF Offered
<1> QED BY <1>2, <1>3, StepMoves DEF Moves

\* A message that is sent inline joins the socket.
LEMMA InlinesSets ==
  ASSUME TypeOK, NEW s \in Senders, Inlines(s)
  PROVE  /\ Range(socket') = Range(socket) \cup {msg[s]}
         /\ \A r \in Refs : Late(r)' = Late(r)
<1>1. socket \in Seq(Message) /\ msg[s] \in Message
  BY DEF TypeOK
<1> QED BY <1>1, RangeAppend DEF Inlines, Late

\* One that is queued joins what its ref has still to send.
LEMMA EnqueuesSets ==
  ASSUME TypeOK, NEW s \in Senders, Enqueues(s)
  PROVE  \A r \in Refs : Late(r)' = IF r = ref[s] THEN Late(r) \cup {msg[s]} ELSE Late(r)
<1>1. ref[s] \in Refs /\ queue[ref[s]] \in Seq(Message) /\ msg[s] \in Message
  BY DEF TypeOK
<1>2. \A r \in Refs : queue'[r] = IF r = ref[s] THEN Append(queue[r], msg[s]) ELSE queue[r]
  BY DEF Enqueues, TypeOK
<1>3. Range(Append(queue[ref[s]], msg[s])) = Range(queue[ref[s]]) \cup {msg[s]}
  BY <1>1, RangeAppend
<1> QED BY <1>2, <1>3 DEF Enqueues, Late

\* The drain task that takes one has it still to send.
LEMMA TakesSets ==
  ASSUME TypeOK, NEW r \in Refs, Takes(r)
  PROVE  /\ Range(queue[r]) = {Head(queue[r])} \cup Range(queue'[r])
         /\ Range(hand'[r]) = {Head(queue[r])}
         /\ \A u \in Refs : u # r => queue'[u] = queue[u] /\ hand'[u] = hand[u]
         /\ \A u \in Refs : Late(u)' = Late(u)
<1>1. /\ queue[r] \in Seq(Message) /\ queue[r] # <<>> /\ hand[r] = <<>>
      /\ hand'[r] = <<Head(queue[r])>> /\ queue'[r] = Tail(queue[r])
      /\ \A u \in Refs : u # r => hand'[u] = hand[u] /\ queue'[u] = queue[u]
  BY DEF Takes, TypeOK
<1>2. Range(queue[r]) = {Head(queue[r])} \cup Range(Tail(queue[r]))
  BY <1>1, RangeHeadTail
<1>3. Range(<<Head(queue[r])>>) = {Head(queue[r])} /\ Range(<<>>) = {}
  BY RangeOne, RangeNone
<1> QED BY <1>1, <1>2, <1>3 DEF Late

\* What the drain task sends leaves it for the socket.
LEMMA SendsSets ==
  ASSUME TypeOK, NEW r \in Refs, Sends(r)
  PROVE  /\ Head(hand[r]) \in Message
         /\ Range(hand[r]) = {Head(hand[r])}
         /\ Range(hand'[r]) = {}
         /\ Range(socket') = Range(socket) \cup {Head(hand[r])}
         /\ \A u \in Refs : u # r => hand'[u] = hand[u]
<1>1. /\ hand[r] \in Seq(Message) /\ hand[r] # <<>> /\ socket \in Seq(Message)
      /\ Len(hand[r]) = 1
      /\ socket' = Append(socket, Head(hand[r]))
      /\ \A u \in Refs : hand'[u] = IF u = r THEN <<>> ELSE hand[u]
  <2>1. Len(hand[r]) = 1
    <3>1. hand[r] \in Seq(Message) /\ hand[r] # <<>> /\ Len(hand[r]) \in {0, 1}
      BY DEF Sends, TypeOK
    <3> QED BY <3>1
  <2> QED BY <2>1 DEF Sends, TypeOK
<1>2. Head(hand[r]) \in Message /\ hand[r] = <<Head(hand[r])>>
  BY <1>1
<1>3. Range(hand[r]) = {Head(hand[r])} /\ Range(<<>>) = {}
  BY <1>2, RangeOne, RangeNone
<1> QED BY <1>1, <1>2, <1>3, RangeAppend

\* What the handler is given leaves the socket.
LEMMA HandlesSets ==
  ASSUME TypeOK, Handles
  PROVE  /\ Head(socket) \in Message
         /\ Range(socket) = {Head(socket)} \cup Range(socket')
         /\ Range(delivered') = Range(delivered) \cup {Head(socket)}
         /\ \A r \in Refs : Late(r)' = Late(r)
<1>1. /\ socket \in Seq(Message) /\ socket # <<>> /\ delivered \in Seq(Message)
      /\ socket' = Tail(socket) /\ delivered' = Append(delivered, Head(socket))
  BY DEF Handles, TypeOK
<1>2. Head(socket) \in Message
  BY <1>1, HeadTail
<1>3. Range(socket) = {Head(socket)} \cup Range(Tail(socket))
  BY <1>1, RangeHeadTail
<1> QED BY <1>1, <1>2, <1>3, RangeAppend DEF Handles, Late

\* What is on its way stays accepted.
LEMMA SoundKept ==
  ASSUME TypeOK, MsgIsOwn, Sound, Effect
  PROVE  Sound'
<1> USE DEF Sound
<1>1. CASE Quiet
  BY <1>1 DEF Quiet, peerVars, Late
<1>2. ASSUME NEW s \in Senders, Inlines(s) \/ Enqueues(s) \/ Wastes(s)
      PROVE  Sound'
  <2>1. msg[s] \in Offered /\ accepted' = accepted \cup {msg[s]}
    BY <1>2 DEF Inlines, Enqueues, Wastes, ReturnsOk, MsgIsOwn
  <2>2. CASE Inlines(s)
    BY <2>1, <2>2, InlinesSets DEF Inlines
  <2>3. CASE Enqueues(s)
    BY <2>1, <2>3, EnqueuesSets DEF Enqueues, peerVars
  <2>4. CASE Wastes(s)
    BY <2>1, <2>4 DEF Wastes, peerVars, Late
  <2> QED BY <1>2, <2>2, <2>3, <2>4
<1>3. ASSUME NEW r \in Refs, Takes(r)
      PROVE  Sound'
  BY <1>3, TakesSets DEF Takes, peerVars
<1>4. ASSUME NEW r \in Refs, Sends(r)
      PROVE  Sound'
  BY <1>4, SendsSets DEF Sends, Late
<1>5. ASSUME NEW r \in Refs, Fails(r)
      PROVE  Sound'
  <2>1. \A u \in Refs : Late(u)' \subseteq Late(u)
    <3>1. \A u \in Refs : /\ (hand'[u] = hand[u] \/ hand'[u] = <<>>)
                         /\ (queue'[u] = queue[u] \/ queue'[u] = <<>>)
      BY <1>5 DEF Fails, TypeOK
    <3> QED BY <3>1, RangeNone DEF Late
  <2> QED BY <1>5, <2>1 DEF Fails, peerVars
<1>6. CASE Handles
  BY <1>6, HandlesSets DEF Handles
<1>7. CASE GoesDown
  BY <1>7, RangeNone DEF GoesDown, Late
<1> QED BY <1>1, <1>2, <1>3, <1>4, <1>5, <1>6, <1>7 DEF Effect

\* What was accepted is not later than the call under way.
LEMMA PastKept ==
  ASSUME Flow, [Next]_vars
  PROVE  Past'
<1>1. TypeOK /\ accepted \subseteq Offered
  BY DEF Flow, Accounts, Sound
<1>2. ASSUME NEW m \in accepted
      PROVE  IF pc'[m.from] = "idle" THEN m.seq <= msg'[m.from].seq
                                     ELSE m.seq < msg'[m.from].seq
  <2>1. /\ m.from \in Senders /\ m.seq \in Int
        /\ msg[m.from].seq \in Int
    BY <1>1, <1>2, SendPathAssumption DEF Offered, TypeOK, Message
  <2>2. IF pc[m.from] = "idle" THEN m.seq <= msg[m.from].seq
                               ELSE m.seq < msg[m.from].seq
    BY DEF Flow, Past
  <2>3. Moves(m.from)
    BY <2>1, StepMoves DEF Flow
  <2>4. CASE Call(m.from)
    <3>1. msg'[m.from].seq = msg[m.from].seq + 1 /\ pc[m.from] = "idle"
      BY <1>1, <2>1, <2>4 DEF Call, At, TypeOK
    <3> QED BY <2>1, <2>2, <3>1
  <2>5. CASE msg'[m.from] = msg[m.from] /\ (pc'[m.from] # "idle" => pc[m.from] # "idle")
    BY <2>1, <2>2, <2>5
  <2> QED BY <2>3, <2>4, <2>5 DEF Moves
<1>3. ASSUME NEW m \in accepted', m \notin accepted
      PROVE  m.seq <= msg'[m.from].seq /\ pc'[m.from] = "idle"
  <2>1. PICK s \in Senders : ReturnsOk(s)
    BY <1>1, <1>3, StepEffect
       DEF Effect, Quiet, Inlines, Enqueues, Wastes, Takes, Sends, Fails, Handles, GoesDown
  <2>2. m = msg[s] /\ msg[s].from = s /\ msg[s].seq \in Int
    BY <1>1, <1>3, <2>1, SendPathAssumption
       DEF ReturnsOk, Flow, MsgIsOwn, TypeOK, Message
  <2> QED BY <1>1, <2>1, <2>2 DEF ReturnsOk, TypeOK
<1> QED BY <1>2, <1>3 DEF Past

\* A closed channel stays empty.
LEMMA GoneStaysEmpty ==
  ASSUME TypeOK, GoneIsEmpty, [Next]_vars
  PROVE  GoneIsEmpty'
<1> SUFFICES ASSUME NEW r \in Refs, drain'[r] = "gone"
             PROVE  queue'[r] = <<>>
  BY DEF GoneIsEmpty
<1>1. CASE drain[r] = "gone"
  <2>1. queue[r] = <<>>
    BY <1>1 DEF GoneIsEmpty
  <2> QED
    BY <1>1, <2>1, StepEffect
       DEF Effect, Quiet, Inlines, Enqueues, Wastes, Takes, Sends, Fails, Handles,
           GoesDown, TypeOK
<1>2. CASE drain[r] # "gone"
  <2>1. DrainClosed(r) \/ DrainExit(r)
    BY <1>2, GoneBegins
  <2> QED BY <2>1 DEF DrainClosed, DrainExit, TypeOK
<1> QED BY <1>1, <1>2

\* Every step keeps the flow.
LEMMA FlowStep == Flow /\ [Next]_vars => Flow'
<1> SUFFICES ASSUME Flow, [Next]_vars PROVE Flow'
  OBVIOUS
<1>1. Accounts' /\ MsgIsOwn' /\ GoneIsEmpty'
  BY AccountsStep, MsgStaysOwn, GoneStaysEmpty DEF Flow, Accounts
<1>2. Sound'
  BY StepEffect, SoundKept DEF Flow, Accounts
<1> QED BY <1>1, <1>2, PastKept DEF Flow

-----------------------------------------------------------------------------
(***************************************************************************)
(* Nothing is lost.                                                        *)
(***************************************************************************)
\* A drain task that still has a ref ends only because the node has gone.
EndsDown ==
  \A r \in Refs :
    /\ drain[r] \in {"failed", "exit"} => ~up
    /\ drain[r] = "gone" /\ RefHeld(r) => ~up

\* What was accepted is handled or on its way, as long as the node is there.
Kept ==
  up => \A m \in accepted :
          \/ m \in Range(delivered) \cup Range(socket)
          \/ \E r \in Refs : m \in Late(r)

\* The node does not come back.
LEMMA UpFalls ==
  ASSUME TypeOK, [Next]_vars, up'
  PROVE  up
BY StepEffect
   DEF Effect, Quiet, Inlines, Enqueues, Wastes, Takes, Sends, Fails, Handles, GoesDown,
       peerVars

\* A ref that has an outbox is held by nobody new.
LEMMA RefHeldShrinks ==
  ASSUME TypeOK, [Next]_vars, NEW r \in Refs, drain[r] # "unbuilt", RefHeld(r)'
  PROVE  RefHeld(r)
<1>1. PICK t \in live' : ref'[t] = r
  BY DEF RefHeld
<1>2. live' \subseteq live
  BY DEF Next, Call, SenderStep, Check, SendInline, GetOutbox, SetOutbox, Claim, Push,
         Unclaim, Reserve, Wake, ClaimSlot, SendPermit, BuildFails, AbortSend, Drop,
         Reacquire, DrainStep, DrainRecv, DrainClosed, DrainSend, DrainRelease, DrainExit,
         Receive, PeerDown, EndOfFile, Terminating, sendVars, vars
<1>3. ref'[t] = ref[t]
  <2>1. CASE ref' = ref
    BY <2>1
  <2>2. CASE ref' # ref
    <3>1. PICK s \in Senders : Reacquire(s)
      BY <2>2
         DEF Next, Call, SenderStep, Check, SendInline, GetOutbox, SetOutbox, Claim, Push,
             Unclaim, Reserve, Wake, ClaimSlot, SendPermit, BuildFails, AbortSend, Drop,
             DrainStep, DrainRecv, DrainClosed, DrainSend, DrainRelease, DrainExit,
             Receive, PeerDown, EndOfFile, Terminating, sendVars, vars
    <3>2. PICK q \in Refs : drain[q] = "unbuilt" /\ ref' = [ref EXCEPT ![s] = q]
      BY <3>1 DEF Reacquire
    <3> QED BY <1>1, <3>2 DEF TypeOK
  <2> QED BY <2>1, <2>2
<1> QED BY <1>1, <1>2, <1>3 DEF RefHeld

\* No message of a drain task asks for too many descriptors.
LEMMA HandFits ==
  ASSUME FitsControl, TypeOK, Sound, NEW r \in Refs, hand[r] # <<>>
  PROVE  Head(hand[r]).kind # "manyfds" /\ Head(hand[r]) = hand[r][1]
<1>1. hand[r] \in Seq(Message)
  BY DEF TypeOK
<1>2. Head(hand[r]) \in Range(hand[r]) /\ Head(hand[r]) = hand[r][1]
  BY <1>1, RangeHeadTail, HeadTail
<1>3. Head(hand[r]) \in Offered
  BY <1>2 DEF Sound, Late
<1> QED BY <1>2, <1>3 DEF Offered, FitsControl

\* A step ends a drain task only if the node or the last ref has gone.
LEMMA EndsDownStep ==
  ASSUME FitsControl, TypeOK, Sound, EndsDown, [Next]_vars
  PROVE  EndsDown'
<1> SUFFICES ASSUME NEW r \in Refs, up'
             PROVE  /\ drain'[r] \notin {"failed", "exit"}
                    /\ ~(drain'[r] = "gone" /\ RefHeld(r)')
  BY DEF EndsDown
<1>1. up
  BY UpFalls
<1>2. drain[r] \notin {"failed", "exit"} /\ ~(drain[r] = "gone" /\ RefHeld(r))
  BY <1>1 DEF EndsDown
<1>3. CASE drain'[r] = drain[r]
  BY <1>2, <1>3, RefHeldShrinks
<1>4. CASE drain'[r] # drain[r]
  <2>1. \/ \E s \in Senders : SetOutbox(s)
        \/ \E u \in Refs : DrainStep(u)
    BY <1>4
       DEF Next, Call, SenderStep, Check, SendInline, GetOutbox, Claim, Push, Unclaim,
           Reserve, Wake, ClaimSlot, SendPermit, BuildFails, AbortSend, Drop, Reacquire,
           Receive, PeerDown, EndOfFile, Terminating, boxVars, vars
  <2>2. ASSUME NEW s \in Senders, SetOutbox(s)
        PROVE  drain'[r] = "recv"
    BY <1>4, <2>2 DEF SetOutbox, TypeOK
  <2>3. ASSUME NEW u \in Refs, DrainStep(u)
        PROVE  \/ drain'[r] \in {"recv", "send", "sent"}
               \/ drain'[r] = "gone" /\ ~RefHeld(r)'
    <3>1. DrainRecv(r) \/ DrainClosed(r) \/ DrainSend(r) \/ DrainRelease(r) \/ DrainExit(r)
      <4>1. u # r => drain'[r] = drain[r]
        BY <2>3
           DEF DrainStep, DrainRecv, DrainClosed, DrainSend, DrainRelease, DrainExit, TypeOK
      <4> QED BY <1>4, <2>3, <4>1 DEF DrainStep
    <3>2. CASE DrainRecv(r) \/ DrainRelease(r) \/ DrainExit(r)
      BY <1>2, <3>2 DEF DrainRecv, DrainRelease, DrainExit, TypeOK
    <3>3. CASE DrainClosed(r)
      BY <3>3 DEF DrainClosed, RefHeld, sendVars, TypeOK
    <3>4. CASE DrainSend(r)
      <4>1. hand[r] # <<>>
        BY <3>4 DEF DrainSend, TypeOK
      <4>2. hand[r][1].kind # "manyfds"
        BY <4>1, HandFits
      <4> QED BY <1>1, <3>4, <4>2 DEF DrainSend, TypeOK
    <3> QED BY <3>1, <3>2, <3>3, <3>4
  <2> QED BY <2>1, <2>2, <2>3
<1> QED BY <1>3, <1>4

\* A step loses a message only with the node.
LEMMA KeptStep ==
  ASSUME FitsControl, TypeOK, Sound, EndsDown, Kept, [Next]_vars
  PROVE  Kept'
<1> SUFFICES ASSUME up', NEW m \in accepted'
             PROVE  \/ m \in Range(delivered') \cup Range(socket')
                    \/ \E r \in Refs : m \in Late(r)'
  BY DEF Kept
<1> DEFINE Before == \/ m \in Range(delivered) \cup Range(socket)
                     \/ \E r \in Refs : m \in Late(r)
<1>1. up /\ (m \in accepted => Before)
  BY UpFalls DEF Kept
<1> HIDE DEF Before
<1>2. CASE Quiet
  BY <1>1, <1>2 DEF Quiet, peerVars, Late, Before
<1>3. ASSUME NEW s \in Senders, Inlines(s)
      PROVE  m \in Range(socket') \/ (Before /\ delivered' = delivered)
  BY <1>1, <1>3, InlinesSets DEF Inlines, ReturnsOk
<1>4. ASSUME NEW s \in Senders, Enqueues(s)
      PROVE  (\E r \in Refs : m \in Late(r)') \/ m \in Range(delivered') \cup Range(socket')
  <2>1. ref[s] \in Refs
    BY DEF TypeOK
  <2> QED BY <1>1, <1>4, <2>1, EnqueuesSets DEF Enqueues, ReturnsOk, peerVars, Before
<1>5. ASSUME NEW s \in Senders, Wastes(s)
      PROVE  FALSE
  BY <1>1, <1>5 DEF Wastes, ReturnsOk, EndsDown, RefHeld, TypeOK
<1>6. ASSUME NEW r \in Refs, Takes(r)
      PROVE  (\E u \in Refs : m \in Late(u)') \/ m \in Range(delivered') \cup Range(socket')
  BY <1>1, <1>6, TakesSets DEF Takes, peerVars, Before
<1>7. ASSUME NEW r \in Refs, Sends(r)
      PROVE  (\E u \in Refs : m \in Late(u)') \/ m \in Range(delivered') \cup Range(socket')
  BY <1>1, <1>7, SendsSets DEF Sends, Before, Late
<1>8. ASSUME NEW r \in Refs, Fails(r)
      PROVE  FALSE
  BY <1>1, <1>8, HandFits DEF Fails, EndsDown
<1>9. CASE Handles
  BY <1>1, <1>9, HandlesSets DEF Handles, Before
<1>10. ~GoesDown
  BY DEF GoesDown
<1>11. ASSUME NEW s \in Senders, Inlines(s)
       PROVE  (\E u \in Refs : m \in Late(u)') \/ m \in Range(delivered') \cup Range(socket')
  BY <1>3, <1>11, InlinesSets DEF Before
<1> QED
  BY <1>2, <1>4, <1>5, <1>6, <1>7, <1>8, <1>9, <1>10, <1>11, StepEffect DEF Effect

-----------------------------------------------------------------------------
\* A call returns Closed if the node is gone, if its ref's channel is closed,
\* or if no outbox could be built.
LEMMA ClosedFacts ==
  ASSUME TypeOK, [Next]_vars, NEW t \in Senders, result'[t] = "Closed"
  PROVE  \/ result[t] = "Closed"
         \/ ~up
         \/ t \in live /\ drain[ref[t]] = "gone"
         \/ "build" \in Faults
<1>1. CASE result' = result
  BY <1>1
<1>2. CASE result' # result
  <2>1. PICK s \in Senders :
          Call(s) \/ SendInline(s) \/ Push(s) \/ Reserve(s) \/ Wake(s) \/ SendPermit(s)
          \/ BuildFails(s) \/ AbortSend(s)
    BY <1>2
       DEF Next, SenderStep, Check, GetOutbox, SetOutbox, Claim, Unclaim, ClaimSlot, Drop,
           Goto, Reacquire, DrainStep, DrainRecv, DrainClosed, DrainSend, DrainRelease,
           DrainExit, Receive, PeerDown, EndOfFile, Terminating, sendVars, vars
  <2>2. CASE s # t
    BY <2>1, <2>2
       DEF Call, SendInline, Push, Reserve, Wake, SendPermit, BuildFails, AbortSend, Goto,
           Return, TypeOK
  <2>3. CASE s = t
    BY <2>1, <2>3
       DEF Call, SendInline, Push, Refusal, Reserve, Wake, SendPermit, BuildFails,
           AbortSend, Goto, Return, At, ChannelClosed, TypeOK
  <2> QED BY <2>2, <2>3
<1> QED BY <1>1, <1>2

\* Without a failure to build, Closed means what it says.
ClosedIsTrue == \A s \in Senders : result[s] = "Closed" => ~up

\* A step that returns Closed finds the node gone.
LEMMA ClosedStep ==
  ASSUME "build" \notin Faults, TypeOK, EndsDown, ClosedIsTrue, [Next]_vars
  PROVE  ClosedIsTrue'
<1> SUFFICES ASSUME NEW t \in Senders, result'[t] = "Closed" PROVE ~up'
  BY DEF ClosedIsTrue
<1>1. t \in live /\ drain[ref[t]] = "gone" => ~up
  BY DEF EndsDown, RefHeld, TypeOK
<1>2. ~up
  BY <1>1, ClosedFacts DEF ClosedIsTrue
<1> QED BY <1>2, UpFalls

-----------------------------------------------------------------------------
\* The flow holds in every reachable state.
THEOREM FlowInvariant == Spec => []Flow
<1> QED BY FlowInit, FlowStep, PTL DEF Spec

\* As long as every message fits a control message nothing that a call
\* returned Ok for is lost, and nothing else is kept (Ref::try_send,
\* Outbox::drain).
THEOREM NothingIsLost ==
  ASSUME FitsControl PROVE Spec => []NothingLostNothingKept
<1> DEFINE Inv == Flow /\ EndsDown /\ Kept
<1>1. Init => Inv
  BY FlowInit DEF Init, EndsDown, Kept
<1>2. Inv /\ [Next]_vars => Inv'
  BY FlowStep, EndsDownStep, KeptStep DEF Flow, Accounts
<1>3. Inv => NothingLostNothingKept
  BY DEF Flow, Sound, Kept, Late, NothingLostNothingKept, Waiting
<1> QED BY <1>1, <1>2, <1>3, PTL DEF Spec

\* As long as every message fits a control message and every outbox can be
\* built, Closed is reported only of a node that has gone (Ref::send,
\* SendError::Closed).
THEOREM ClosedIsNotPremature ==
  ASSUME FitsControl, "build" \notin Faults PROVE Spec => []ClosedMeansGone
<1> DEFINE Inv == Flow /\ EndsDown /\ ClosedIsTrue
<1>1. Init => Inv
  BY FlowInit DEF Init, EndsDown, ClosedIsTrue
<1>2. Inv /\ [Next]_vars => Inv'
  BY FlowStep, EndsDownStep, ClosedStep DEF Flow, Accounts
<1>3. Inv => ClosedMeansGone
  BY DEF ClosedIsTrue, ClosedMeansGone
<1> QED BY <1>1, <1>2, <1>3, PTL DEF Spec

-----------------------------------------------------------------------------
(***************************************************************************)
(* Nothing is overtaken.                                                   *)
(***************************************************************************)
\* A sender's messages are queued on its own ref.
Own == \A r \in Refs : \A m \in Late(r) : ref[m.from] = r

\* Who is about to send inline has nothing queued.
InlineFirst ==
  \A s \in Senders : pc[s] = "inline" => \A m \in Late(ref[s]) : m.from # s

\* The handler, the socket, the drain task and the queue, in this order.
Line ==
  /\ InOrder(delivered)
  /\ InOrder(socket)
  /\ \A r \in Refs : InOrder(queue[r])
  /\ Precede(Range(delivered), Range(socket))
  /\ \A r \in Refs : /\ Precede(Range(delivered), Late(r))
                     /\ Precede(Range(socket), Late(r))
                     /\ Precede(Range(hand[r]), Range(queue[r]))

\* Without it nobody is given another ref.
LEMMA RefStays ==
  ASSUME NoReacquire, [Next]_vars
  PROVE  ref' = ref
BY DEF NoReacquire, Next, Call, SenderStep, Check, SendInline, GetOutbox, SetOutbox, Claim,
       Push, Unclaim, Reserve, Wake, ClaimSlot, SendPermit, BuildFails, AbortSend, Drop,
       Reacquire, DrainStep, DrainRecv, DrainClosed, DrainSend, DrainRelease, DrainExit,
       Receive, PeerDown, EndOfFile, Terminating, sendVars, vars

\* What a step may add to what a ref has still to send.
LEMMA LateGrows ==
  ASSUME TypeOK, MsgIsOwn, Effect, NEW r \in Refs, NEW m \in Late(r)'
  PROVE  \/ m \in Late(r)
         \/ \E s \in Senders : /\ m = msg[s] /\ m.from = s /\ ref[s] = r
                               /\ pc[s] \in {"push", "permit"} /\ pc'[s] = "idle"
<1>1. ASSUME NEW s \in Senders, Inlines(s) \/ Enqueues(s) \/ Wastes(s), m \notin Late(r)
      PROVE  /\ m = msg[s] /\ m.from = s /\ ref[s] = r
             /\ pc[s] \in {"push", "permit"} /\ pc'[s] = "idle"
  <2>1. Enqueues(s) /\ m = msg[s] /\ ref[s] = r
    BY <1>1, InlinesSets, EnqueuesSets DEF Wastes, Late
  <2> QED BY <2>1 DEF Enqueues, ReturnsOk, MsgIsOwn, TypeOK
<1>2. ASSUME NEW u \in Refs, Takes(u)
      PROVE  m \in Late(r)
  BY <1>2, TakesSets
<1>3. ASSUME NEW u \in Refs, Sends(u)
      PROVE  m \in Late(r)
  BY <1>3, SendsSets DEF Sends, Late
<1>4. ASSUME NEW u \in Refs, Fails(u)
      PROVE  m \in Late(r)
  <2>1. /\ (hand'[r] = hand[r] \/ hand'[r] = <<>>)
        /\ (queue'[r] = queue[r] \/ queue'[r] = <<>>)
    BY <1>4 DEF Fails, TypeOK
  <2> QED BY <2>1, RangeNone DEF Late
<1>5. CASE Quiet \/ Handles \/ GoesDown
  BY <1>5 DEF Quiet, Handles, GoesDown, Late
<1> QED BY <1>1, <1>2, <1>3, <1>4, <1>5 DEF Effect

\* Messages are queued on their sender's ref only.
LEMMA OwnStep ==
  ASSUME NoReacquire, Flow, Own, [Next]_vars
  PROVE  Own'
<1> SUFFICES ASSUME NEW r \in Refs, NEW m \in Late(r)' PROVE ref'[m.from] = r
  BY DEF Own
<1> QED BY RefStays, StepEffect, LateGrows DEF Own, Flow, Accounts

\* A ref that counts no backlog has none.
LEMMA NoBacklog ==
  ASSUME Flow, NEW r \in Refs, pending[r] = 0
  PROVE  Late(r) = {}
<1>1. TypeOK /\ Cardinality(Claimers(r)) \in Nat
  BY ClaimersFinite DEF Flow, Accounts
<1>2. queue[r] \in Seq(Message) /\ hand[r] \in Seq(Message)
  BY <1>1 DEF TypeOK
<1>3. CASE drain[r] = "gone"
  <2>1. queue[r] = <<>> /\ hand[r] = <<>>
    BY <1>1, <1>2, <1>3 DEF Flow, GoneIsEmpty, TypeOK
  <2> QED BY <2>1, RangeNone DEF Late
<1>4. CASE drain[r] # "gone"
  <2>1. pending[r] = Len(queue[r]) + InFlightOf(r) + Cardinality(Claimers(r))
    BY <1>4 DEF Flow, Accounts, PendingExact
  <2>2. InFlightOf(r) \in Nat /\ Len(queue[r]) \in Nat
    BY <1>2 DEF InFlightOf
  <2>3. Len(queue[r]) = 0 /\ InFlightOf(r) = 0
    BY <1>1, <2>1, <2>2
  <2>4. drain[r] # "send"
    BY <2>3 DEF InFlightOf
  <2>5. queue[r] = <<>> /\ hand[r] = <<>>
    BY <1>1, <1>2, <2>3, <2>4 DEF TypeOK
  <2> QED BY <2>5, RangeNone DEF Late
<1> QED BY <1>3, <1>4

\* The fast path is taken only with nothing queued, and while a sender is in
\* it nobody queues for it.
LEMMA InlineFirstStep ==
  ASSUME NoReacquire, Flow, InlineFirst, [Next]_vars
  PROVE  InlineFirst'
<1> SUFFICES ASSUME NEW t \in Senders, pc'[t] = "inline", NEW m \in Late(ref[t])'
             PROVE  m.from # t
  BY RefStays DEF InlineFirst
<1>1. TypeOK /\ ref[t] \in Refs /\ MsgIsOwn
  BY DEF Flow, Accounts, TypeOK
<1>2. CASE pc[t] = "inline"
  <2>1. PICK r \in Refs : r = ref[t]
    BY <1>1
  <2>2. m \in Late(r)'
    BY <2>1, RefStays DEF Late
  <2>3. \/ m \in Late(r)
        \/ \E s \in Senders : m.from = s /\ pc'[s] = "idle"
    BY <1>1, <2>2, StepEffect, LateGrows
  <2> QED BY <1>2, <2>1, <2>3 DEF InlineFirst
<1>3. CASE Check(t) /\ pending[ref[t]] = 0
  <2>1. Late(ref[t]) = {}
    BY <1>1, <1>3, NoBacklog
  <2>2. Late(ref[t])' = Late(ref[t])
    BY <1>3 DEF Check, boxVars, Late
  <2> QED BY <2>1, <2>2
<1> QED BY <1>2, <1>3, StepMoves DEF Moves, Flow

\* What a call sends is later than all its sender had accepted.
LEMMA Newest ==
  ASSUME Flow, NEW s \in Senders, ReturnsOk(s)
  PROVE  msg[s] \in Message /\ Precede(accepted, {msg[s]})
<1>1. msg[s] \in Message /\ msg[s].from = s /\ pc[s] # "idle"
  BY DEF Flow, Accounts, TypeOK, MsgIsOwn, ReturnsOk
<1>2. ASSUME NEW m \in accepted, m.from = s
      PROVE  m.seq < msg[s].seq
  BY <1>1, <1>2 DEF Flow, Past
<1> QED BY <1>1, <1>2 DEF Precede

\* A message sent inline passes nothing: its sender has nothing queued.
LEMMA LineInlines ==
  ASSUME Flow, Own, InlineFirst, Line, NEW s \in Senders, Inlines(s)
  PROVE  Line'
<1>1. TypeOK /\ Sound /\ msg[s].from = s
  BY DEF Flow, Accounts, MsgIsOwn
<1>2. /\ msg[s] \in Message
      /\ Precede(Range(socket), {msg[s]}) /\ Precede(Range(delivered), {msg[s]})
  BY <1>1, Newest DEF Inlines, Sound, Precede
<1>3. /\ Range(socket') = Range(socket) \cup {msg[s]}
      /\ \A r \in Refs : Late(r)' = Late(r)
  BY <1>1, InlinesSets
<1>4. \A r \in Refs : Precede({msg[s]}, Late(r))
  BY <1>1 DEF Inlines, Own, InlineFirst, Precede
<1>5. InOrder(socket')
  BY <1>1, <1>2, OrderAppend DEF Inlines, Line, TypeOK
<1>6. UNCHANGED <<queue, hand, delivered>>
  BY DEF Inlines
<1>7. Precede(Range(delivered), Range(socket'))
  BY <1>2, <1>3 DEF Line, Precede
<1>8. \A r \in Refs : Precede(Range(socket'), Late(r))
  BY <1>3, <1>4 DEF Line, Precede
<1> QED BY <1>3, <1>5, <1>6, <1>7, <1>8 DEF Line

\* One that is queued goes behind all its sender had accepted.
LEMMA LineEnqueues ==
  ASSUME Flow, Line, NEW s \in Senders, Enqueues(s)
  PROVE  Line'
<1>1. TypeOK /\ Sound
  BY DEF Flow, Accounts
<1>2. msg[s] \in Message /\ Precede(accepted, {msg[s]})
  BY Newest DEF Enqueues
<1>3. \A r \in Refs : Late(r)' \subseteq Late(r) \cup {msg[s]}
  BY <1>1, EnqueuesSets
<1>4. UNCHANGED <<hand, socket, delivered>>
  BY DEF Enqueues, peerVars
<1>5. ASSUME NEW r \in Refs
      PROVE  InOrder(queue'[r]) /\ Precede(Range(hand[r]), Range(queue'[r]))
  <2>1. /\ queue[r] \in Seq(Message) /\ InOrder(queue[r])
        /\ Precede(Range(hand[r]), Range(queue[r]))
    BY <1>1 DEF TypeOK, Line
  <2>2. Precede(Range(queue[r]) \cup Range(hand[r]), {msg[s]})
    BY <1>1, <1>2 DEF Sound, Late, Precede
  <2>3. CASE queue'[r] = queue[r]
    BY <2>1, <2>3
  <2>4. CASE queue'[r] = Append(queue[r], msg[s])
    <3>1. InOrder(queue'[r])
      BY <1>2, <2>1, <2>2, <2>4, OrderAppend DEF Precede
    <3>2. Range(queue'[r]) = Range(queue[r]) \cup {msg[s]}
      BY <1>2, <2>1, <2>4, RangeAppend
    <3> QED BY <2>1, <2>2, <3>1, <3>2 DEF Precede
  <2> QED BY <1>1, <2>3, <2>4 DEF Enqueues, TypeOK
<1>6. ASSUME NEW r \in Refs
      PROVE  Precede(Range(delivered), Late(r)') /\ Precede(Range(socket), Late(r)')
  BY <1>1, <1>2, <1>3 DEF Sound, Line, Precede
<1> QED BY <1>4, <1>5, <1>6 DEF Line

\* The drain task takes the first in the queue.
LEMMA LineTakes ==
  ASSUME TypeOK, Line, NEW r \in Refs, Takes(r)
  PROVE  Line'
<1>1. /\ queue[r] \in Seq(Message) /\ InOrder(queue[r]) /\ queue[r] # <<>>
      /\ queue'[r] = Tail(queue[r])
  BY DEF Takes, TypeOK, Line
<1>2. InOrder(Tail(queue[r])) /\ Precede({Head(queue[r])}, Range(Tail(queue[r])))
  BY <1>1, OrderTail
<1>3. /\ Range(hand'[r]) = {Head(queue[r])}
      /\ \A u \in Refs : u # r => queue'[u] = queue[u] /\ hand'[u] = hand[u]
      /\ \A u \in Refs : Late(u)' = Late(u)
  BY TakesSets
<1>4. UNCHANGED <<socket, delivered>>
  BY DEF Takes, peerVars
<1>5. \A u \in Refs : InOrder(queue'[u]) /\ Precede(Range(hand'[u]), Range(queue'[u]))
  BY <1>1, <1>2, <1>3 DEF Line
<1> QED BY <1>3, <1>4, <1>5 DEF Line

\* What the drain task sends passes nothing: the rest of its queue is later,
\* and other refs have other senders.
LEMMA LineSends ==
  ASSUME TypeOK, Own, Line, NEW r \in Refs, Sends(r)
  PROVE  Line'
<1> DEFINE h == Head(hand[r])
<1>1. /\ h \in Message
      /\ Range(hand[r]) = {h}
      /\ Range(hand'[r]) = {}
      /\ Range(socket') = Range(socket) \cup {h}
      /\ \A u \in Refs : u # r => hand'[u] = hand[u]
  BY SendsSets
<1>2. UNCHANGED <<queue, delivered>> /\ socket' = Append(socket, h)
  BY DEF Sends
<1> HIDE DEF h
<1>3. h \in Late(r)
  BY <1>1 DEF Late
<1>4. Precede(Range(socket), {h}) /\ Precede(Range(delivered), {h})
  BY <1>3 DEF Line, Precede
<1>5. InOrder(socket')
  BY <1>1, <1>2, <1>4, OrderAppend DEF Line, TypeOK
<1>6. \A u \in Refs : Late(u)' \subseteq Late(u) /\ Late(r)' = Range(queue[r])
  BY <1>1, <1>2 DEF Late
<1>7. ASSUME NEW u \in Refs
      PROVE  Precede({h}, Late(u)')
  <2>1. CASE u = r
    BY <1>1, <1>6, <2>1 DEF Line
  <2>2. CASE u # r
    BY <1>3, <1>6, <2>2 DEF Own, Precede
  <2> QED BY <2>1, <2>2
<1>8. \A u \in Refs : /\ Precede(Range(delivered), Late(u)')
                       /\ Precede(Range(socket'), Late(u)')
  BY <1>1, <1>6, <1>7 DEF Line, Precede
<1>9. Precede(Range(delivered), Range(socket'))
  BY <1>1, <1>4 DEF Line, Precede
<1>10. \A u \in Refs : Precede(Range(hand'[u]), Range(queue[u]))
  BY <1>1 DEF Line, Precede
<1> QED BY <1>2, <1>5, <1>8, <1>9, <1>10 DEF Line

\* What remains of a line is in line.
LEMMA LineFails ==
  ASSUME TypeOK, Line, NEW r \in Refs, Fails(r)
  PROVE  Line'
<1>1. \A u \in Refs : /\ (hand'[u] = hand[u] \/ hand'[u] = <<>>)
                       /\ (queue'[u] = queue[u] \/ queue'[u] = <<>>)
  BY DEF Fails, TypeOK
<1>2. \A u \in Refs : /\ Range(hand'[u]) \subseteq Range(hand[u])
                       /\ Range(queue'[u]) \subseteq Range(queue[u])
  BY <1>1, RangeNone
<1>3. \A u \in Refs : Late(u)' \subseteq Late(u)
  BY <1>2 DEF Late
<1>4. InOrder(<<>>)
  BY DEF InOrder
<1>5. UNCHANGED <<socket, delivered>>
  BY DEF Fails, peerVars
<1>6. \A u \in Refs : InOrder(queue'[u])
  BY <1>1, <1>4 DEF Line
<1> QED BY <1>2, <1>3, <1>5, <1>6 DEF Line, Precede

\* The handler is given the first in the socket.
LEMMA LineHandles ==
  ASSUME TypeOK, Line, Handles
  PROVE  Line'
<1>1. /\ socket \in Seq(Message) /\ socket # <<>> /\ InOrder(socket)
      /\ delivered \in Seq(Message) /\ InOrder(delivered)
      /\ socket' = Tail(socket) /\ delivered' = Append(delivered, Head(socket))
      /\ UNCHANGED <<queue, hand>>
  BY DEF Handles, TypeOK, Line
<1>2. /\ Head(socket) \in Message
      /\ Range(socket) = {Head(socket)} \cup Range(socket')
      /\ Range(delivered') = Range(delivered) \cup {Head(socket)}
      /\ \A r \in Refs : Late(r)' = Late(r)
  BY HandlesSets
<1>3. InOrder(socket') /\ Precede({Head(socket)}, Range(socket'))
  BY <1>1, OrderTail
<1>4. InOrder(delivered')
  <2>1. Precede(Range(delivered), {Head(socket)})
    BY <1>2 DEF Line, Precede
  <2> QED BY <1>1, <1>2, <2>1, OrderAppend
<1>5. Precede(Range(delivered'), Range(socket'))
  BY <1>2, <1>3 DEF Line, Precede
<1>6. \A r \in Refs : /\ Precede(Range(delivered'), Late(r))
                       /\ Precede(Range(socket'), Late(r))
  BY <1>2 DEF Line, Precede
<1> QED BY <1>1, <1>2, <1>3, <1>4, <1>5, <1>6 DEF Line

\* No step lets a message pass an earlier one of its sender.
LEMMA LineStep ==
  ASSUME Flow, Own, InlineFirst, Line, [Next]_vars
  PROVE  Line'
<1>1. TypeOK
  BY DEF Flow, Accounts
<1>2. ASSUME NEW s \in Senders, Wastes(s)
      PROVE  Line'
  BY <1>2 DEF Wastes, peerVars, Line, Late
<1>3. CASE Quiet
  BY <1>3 DEF Quiet, peerVars, Line, Late
<1>4. CASE GoesDown
  <2>1. InOrder(<<>>) /\ Range(<<>>) = {}
    BY RangeNone DEF InOrder
  <2> QED BY <1>4, <2>1 DEF GoesDown, Line, Late, Precede
<1> QED
  BY <1>1, <1>2, <1>3, <1>4, StepEffect, LineInlines, LineEnqueues, LineTakes, LineSends,
     LineFails, LineHandles
     DEF Effect

\* The lines as an invariant.
InLine == Flow /\ Own /\ InlineFirst /\ Line

\* All lines are empty at first.
LEMMA InLineInit == Init => InLine
<1> SUFFICES ASSUME Init PROVE InLine
  OBVIOUS
<1>1. \A r \in Refs : Late(r) = {} /\ hand[r] = <<>> /\ queue[r] = <<>>
  BY RangeNone DEF Init, Late
<1>2. InOrder(<<>>) /\ Range(<<>>) = {}
  BY RangeNone DEF InOrder
<1>3. Line
  BY <1>1, <1>2 DEF Init, Line, Precede
<1>4. Own /\ InlineFirst
  BY <1>1 DEF Own, InlineFirst, Init
<1> QED BY <1>3, <1>4, FlowInit DEF InLine

\* The messages of a sender that nobody gives another ref reach the handler in
\* the order of its calls, whichever of the two paths each took (Ref::send, the
\* doc of Outbox::pending).  SendPathReacquire shows why NoReacquire is needed.
THEOREM SendersStayInOrder ==
  ASSUME NoReacquire PROVE Spec => []SenderFifo
<1>1. InLine /\ [Next]_vars => InLine'
  BY FlowStep, OwnStep, InlineFirstStep, LineStep DEF InLine
<1>2. InLine => SenderFifo
  BY DEF InLine, Line, InOrder, SenderFifo
<1> QED BY InLineInit, <1>1, <1>2, PTL DEF Spec

-----------------------------------------------------------------------------
(***************************************************************************)
(* All of it is a FifoLink.                                                *)
(***************************************************************************)
\* what the link has accepted and not yet handled
OnItsWay == IF up THEN Waiting ELSE {}

\* What waits, waits in the socket or with a ref.
LEMMA WaitingIs ==
  /\ Waiting = Range(socket) \cup UNION {Late(r) : r \in Refs}
  /\ Waiting' = Range(socket') \cup UNION {Late(r)' : r \in Refs}
BY DEF Waiting, Late

\* The same of one message.
LEMMA WaitingHas ==
  ASSUME NEW m
  PROVE  /\ m \in Waiting <=> m \in Range(socket) \/ \E r \in Refs : m \in Late(r)
         /\ m \in Waiting' <=> m \in Range(socket') \/ \E r \in Refs : m \in Late(r)'
BY DEF Waiting, Late

\* A call that returns Ok while the node is there is an Accept.
LEMMA LinkAccepts ==
  ASSUME Flow, NEW s \in Senders, Inlines(s) \/ Enqueues(s), up
  PROVE  Link!Accept(msg[s]) /\ msg[s] \in Offered
<1>1. TypeOK /\ Sound /\ msg[s] \in Offered
  BY DEF Flow, Accounts, MsgIsOwn, Inlines, Enqueues, ReturnsOk
<1>2. Waiting' = Waiting \cup {msg[s]}
  <2>1. CASE Inlines(s)
    BY <1>1, <2>1, InlinesSets, WaitingIs
  <2>2. CASE Enqueues(s)
    <3>1. ref[s] \in Refs /\ socket' = socket
      BY <1>1, <2>2 DEF Enqueues, peerVars, TypeOK
    <3>2. \A r \in Refs : Late(r)' = IF r = ref[s] THEN Late(r) \cup {msg[s]} ELSE Late(r)
      BY <1>1, <2>2, EnqueuesSets
    <3>3. ASSUME NEW m
          PROVE  m \in Waiting' <=> m \in Waiting \/ m = msg[s]
      BY <3>1, <3>2, WaitingHas
    <3> QED BY <3>3
  <2> QED BY <2>1, <2>2
<1>3. up' = up /\ delivered' = delivered
  BY DEF Inlines, Enqueues, peerVars
<1>4. Precede(accepted, {msg[s]})
  BY Newest DEF Inlines, Enqueues
<1>5. OnItsWay' = OnItsWay \cup {msg[s]}
  BY <1>2, <1>3 DEF OnItsWay
<1>6. Waiting \cup Range(delivered) \subseteq accepted
  BY <1>1, WaitingIs DEF Sound
<1>7. ASSUME NEW n \in OnItsWay \cup Range(delivered), n.from = msg[s].from
      PROVE  Link!Earlier(n, msg[s])
  BY <1>4, <1>6, <1>7 DEF OnItsWay, Precede, Link!Earlier
<1> QED BY <1>1, <1>3, <1>5, <1>7 DEF Link!Accept, OnItsWay

\* The handler is given the earliest message that is left of a sender.
LEMMA LinkDelivers ==
  ASSUME Flow, Line, Handles
  PROVE  Link!Deliver(Head(socket)) /\ Head(socket) \in Offered
<1> DEFINE h == Head(socket)
<1>1. TypeOK /\ Sound
  BY DEF Flow, Accounts
<1>2. /\ h \in Message
      /\ Range(socket) = {h} \cup Range(socket')
      /\ Range(delivered') = Range(delivered) \cup {h}
      /\ \A r \in Refs : Late(r)' = Late(r)
  BY <1>1, HandlesSets
<1>3. Precede({h}, Range(socket'))
  <2>1. socket \in Seq(Message) /\ InOrder(socket) /\ socket # <<>> /\ socket' = Tail(socket)
    BY <1>1 DEF TypeOK, Line, Handles
  <2> QED BY <2>1, OrderTail
<1> HIDE DEF h
<1>4. h.seq \in Int /\ h \in Offered
  BY <1>1, <1>2, SendPathAssumption DEF Message, Sound, Offered
<1>5. Precede({h}, Waiting')
  BY <1>2, <1>3, WaitingIs DEF Line, Precede
<1>6. Waiting = {h} \cup Waiting'
  BY <1>2, WaitingIs
<1>7. h \notin Waiting'
  BY <1>4, <1>5 DEF Precede
<1>8. ASSUME NEW n \in Waiting
      PROVE  ~ Link!Earlier(n, h)
  <2>1. n = h \/ (n.from = h.from => h.seq < n.seq)
    BY <1>5, <1>6 DEF Precede
  <2>2. n.seq \in Int
    BY <1>1, WaitingIs, SendPathAssumption DEF Sound, Offered
  <2> QED BY <1>4, <2>1, <2>2 DEF Link!Earlier
<1>9. up /\ up'
  BY DEF Handles
<1>10. Link!Deliver(h)
  <2>1. /\ OnItsWay = Waiting
        /\ OnItsWay' = OnItsWay \ {h}
        /\ h \in OnItsWay
    BY <1>6, <1>7, <1>9 DEF OnItsWay
  <2> QED BY <1>2, <1>8, <1>9, <2>1 DEF Link!Deliver, OnItsWay
<1> QED BY <1>4, <1>10 DEF h

\* All else is invisible, or the end of the link.
LEMMA LinkStep ==
  ASSUME FitsControl, InLine, EndsDown, [Next]_vars
  PROVE  [Link!Next]_(Link!linkVars)
<1>1. Flow /\ Line /\ TypeOK /\ Sound
  BY DEF InLine, Flow, Accounts
<1> DEFINE Stutter == UNCHANGED <<up, OnItsWay, delivered>>
<1>2. ASSUME Stutter
      PROVE  UNCHANGED Link!linkVars
  BY <1>2 DEF Link!linkVars, OnItsWay
<1>3. ASSUME up' = up, delivered' = delivered, up => Waiting' = Waiting
      PROVE  Stutter
  BY <1>3 DEF OnItsWay
<1> HIDE DEF Stutter
<1>4. CASE Quiet
  BY <1>3, <1>4, WaitingIs, <1>2 DEF Quiet, peerVars, Late
<1>5. ASSUME NEW s \in Senders, Inlines(s) \/ Enqueues(s) \/ Wastes(s)
      PROVE  [Link!Next]_(Link!linkVars)
  <2>1. CASE Wastes(s)
    <3>1. Waiting' = Waiting /\ up' = up /\ delivered' = delivered
      BY <2>1, WaitingIs DEF Wastes, peerVars, Late
    <3> QED BY <1>2, <1>3, <3>1
  <2>2. CASE up /\ (Inlines(s) \/ Enqueues(s))
    BY <1>1, <2>2, LinkAccepts DEF Link!Next
  <2>3. CASE ~up /\ (Inlines(s) \/ Enqueues(s))
    BY <1>2, <1>3, <2>3 DEF Inlines, Enqueues, peerVars
  <2> QED BY <1>5, <2>1, <2>2, <2>3
<1>6. ASSUME NEW r \in Refs, Takes(r) \/ Sends(r) \/ Fails(r)
      PROVE  Stutter
  <2>1. up' = up /\ delivered' = delivered
    BY <1>6 DEF Takes, Sends, Fails, peerVars
  <2>2. CASE Takes(r)
    <3>1. socket' = socket /\ \A u \in Refs : Late(u)' = Late(u)
      BY <1>1, <2>2, TakesSets DEF Takes, peerVars
    <3> QED BY <1>3, <2>1, <3>1, WaitingIs
  <2>3. CASE Sends(r)
    <3>1. /\ Range(socket') = Range(socket) \cup Range(hand[r])
          /\ Late(r) = Late(r)' \cup Range(hand[r])
          /\ \A u \in Refs : u # r => Late(u)' = Late(u)
      BY <1>1, <2>3, SendsSets DEF Sends, Late
    <3>2. ASSUME NEW m
          PROVE  m \in Waiting' <=> m \in Waiting
      BY <3>1, WaitingHas
    <3>3. Waiting' = Waiting
      BY <3>2
    <3> QED BY <1>3, <2>1, <3>3
  <2>4. CASE Fails(r)
    <3>1. ~up
      BY <1>1, <2>4, HandFits DEF Fails, EndsDown
    <3> QED BY <1>3, <2>1, <3>1
  <2> QED BY <1>6, <2>2, <2>3, <2>4
<1>7. CASE Handles
  BY <1>1, <1>7, LinkDelivers DEF Link!Next
<1>8. CASE GoesDown
  BY <1>8 DEF GoesDown, Link!Next, Link!GoDown
<1> QED BY <1>1, <1>2, <1>4, <1>5, <1>6, <1>7, <1>8, StepEffect DEF Effect

\* Sending through the refs of a capability is sending on one reliable link
\* that is FIFO for each sender: fast path, queue and drain task are invisible
\* (lib.rs).
THEOREM SendingIsALink ==
  ASSUME NoReacquire, FitsControl PROVE Spec => ImplementsLink
<1> DEFINE Inv == InLine /\ EndsDown
<1>1. Init => Inv
  BY InLineInit DEF Init, EndsDown
<1>2. Inv /\ [Next]_vars => Inv'
  BY FlowStep, OwnStep, InlineFirstStep, LineStep, EndsDownStep DEF InLine, Flow, Accounts
<1>3. Init => Link!Init
  <2> SUFFICES ASSUME Init PROVE Link!Init
    OBVIOUS
  <2>1. /\ up = TRUE /\ Range(socket) = {} /\ Range(delivered) = {}
        /\ \A r \in Refs : Late(r) = {}
    BY RangeNone DEF Init, Late
  <2>2. Waiting = {}
    BY <2>1, WaitingIs
  <2> QED BY <2>1, <2>2 DEF Link!Init
<1>4. Inv /\ [Next]_vars => [Link!Next]_(Link!linkVars)
  BY LinkStep
<1> QED BY <1>1, <1>2, <1>3, <1>4, PTL DEF Spec, ImplementsLink, Link!Spec
=============================================================================
