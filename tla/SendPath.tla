------------------------------ MODULE SendPath ------------------------------
(***************************************************************************)
(* Sending through a capability: Ref::try_send and Ref::send with their    *)
(* inline fast path, the Outbox a Ref grows when its socket backs up, the  *)
(* drain task behind the outbox, the socket, and the receive loop of the   *)
(* node at the far end.                                                    *)
(*                                                                         *)
(* All Refs of this module send to ONE socket.  A "ref" is one RefInner:   *)
(* a process has one per socket, so several are several processes that     *)
(* hold the same capability.  The tasks and threads of a process share its *)
(* ref, and each of them is a sender.                                      *)
(*                                                                         *)
(* A step of a sender is one access to what it shares with others: a load  *)
(* or an update of `pending', a sendmsg, one operation of the channel.     *)
(***************************************************************************)
EXTENDS Integers, Sequences, FiniteSets, SequencesExt

CONSTANTS
  Senders,      \* tasks and threads that call try_send and send
  Refs,         \* RefInners that name the socket
  DEPTH,        \* slots of an outbox (8 in the code)
  SocketRoom,   \* messages the kernel's socket buffer can hold
  MaxSends,     \* bound: calls per sender
  Kinds,        \* kinds of message offered, see MessageKinds
  Faults        \* external events admitted, see ExternalFaults

\* plain:   under both limits          large:   payload over MAX_MESSAGE_SIZE
\* manyfds: more descriptors than MAX_FDS         empty: no payload at all
MessageKinds == {"plain", "large", "manyfds", "empty"}

\* peer:  the node stops receiving (dropped, aborted, panicked)
\* build: dup or reactor registration refused while an outbox is built
\* abort: a caller drops the future of a `send' that waits for room
\* reacquire: a process drops its last Ref and receives the capability again
ExternalFaults == {"peer", "build", "abort", "reacquire"}

ASSUME SendPathAssumption ==
  /\ IsFiniteSet(Senders)
  /\ DEPTH \in Nat \ {0}
  /\ SocketRoom \in Nat \ {0}
  /\ MaxSends \in Nat
  /\ Kinds \subseteq MessageKinds
  /\ Faults \subseteq ExternalFaults

Message == [from : Senders, seq : 0 .. MaxSends, kind : MessageKinds]

VARIABLES
  ref,        \* the Ref each sender was given
  live,       \* the senders that have not dropped it
  pc,         \* where each sender is in its call
  call,       \* "try_send" or "send": the call it makes
  msg,        \* the message of its current or last call
  result,     \* what its last attempt returned
  queue,      \* per ref: the outbox channel
  pending,    \* per ref: Outbox::pending
  permits,    \* per ref: free slots of the channel
  waiters,    \* per ref: senders parked in reserve(), in order
  drain,      \* per ref: where its drain task is, "unbuilt" before the outbox
  hand,       \* per ref: the message the drain task took last
  socket,     \* the socket buffer
  up,         \* the node at the far end still has its socket open
  delivered,  \* history: messages given to the handler, in order
  accepted    \* history: messages a call returned Ok for

sendVars  == <<ref, live, pc, call, msg, result>>
boxVars   == <<queue, pending, permits, waiters, drain, hand>>
peerVars  == <<socket, up, delivered>>
vars == <<sendVars, boxVars, peerVars, accepted>>

(***************************************************************************)
(* Control points.  A sender:                                              *)
(*   check     about to load `pending'                                     *)
(*   inline    found no backlog, about to sendmsg                          *)
(*   outbox    needs the outbox          set      built one, not yet set   *)
(*   claim     about to raise `pending'  push     about to try_send on it  *)
(*   unclaim   refused, about to lower `pending'                           *)
(*   reserve   in `send', about to ask for a slot                          *)
(*   waiting   parked for one            assigned given one, not yet run   *)
(*   granted   owns a slot               permit   raised `pending'         *)
(* The drain task: recv, send, then sent or failed before `pending' is     *)
(* lowered, exit with an error in hand, gone with the receiver dropped.    *)
(***************************************************************************)
SenderPoints ==
  {"idle", "check", "inline", "outbox", "set", "claim", "push", "unclaim",
   "reserve", "waiting", "assigned", "granted", "permit"}
DrainPoints == {"unbuilt", "recv", "send", "sent", "failed", "exit", "gone"}
Outcomes    == {"none", "Ok", "Full", "TooLarge", "Closed", "Aborted"}

Init ==
  /\ ref \in [Senders -> Refs]
  /\ live = Senders
  /\ pc = [s \in Senders |-> "idle"]
  /\ call = [s \in Senders |-> "try_send"]
  /\ msg = [s \in Senders |-> [from |-> s, seq |-> 0, kind |-> "plain"]]
  /\ result = [s \in Senders |-> "none"]
  /\ queue = [r \in Refs |-> <<>>]
  /\ pending = [r \in Refs |-> 0]
  /\ permits = [r \in Refs |-> DEPTH]
  /\ waiters = [r \in Refs |-> <<>>]
  /\ drain = [r \in Refs |-> "unbuilt"]
  /\ hand = [r \in Refs |-> <<>>]
  /\ socket = <<>>
  /\ up = TRUE
  /\ delivered = <<>>
  /\ accepted = {}

-----------------------------------------------------------------------------
(***************************************************************************)
(* Helpers.                                                                *)
(***************************************************************************)
Goto(s, point) ==
  /\ pc' = [pc EXCEPT ![s] = point]
  /\ UNCHANGED result

Return(s, outcome) ==
  /\ pc' = [pc EXCEPT ![s] = "idle"]
  /\ result' = [result EXCEPT ![s] = outcome]

Accepts(s) == accepted' = accepted \cup {msg[s]}

\* the sender's ref, the control point it is at
At(s, point) == s \in live /\ pc[s] = point

\* somebody still holds r, so its mpsc::Sender exists
RefHeld(r) == \E s \in live : ref[s] = r

\* the receiver was dropped and the channel's semaphore closed
ChannelClosed(r) == drain[r] = "gone"

\* one sendmsg.  The kernel counts bytes, not messages, so a buffer with
\* something in it may or may not have room for one more.
HasRoom    == up /\ Len(socket) < SocketRoom
WouldBlock == up /\ socket # <<>>

IsBackedUp_Never(r) == FALSE
IsBackedUp(r) == pending[r] # 0

\* A slot is free again: it goes to the first waiter, or else to the pool.
\* pcs is pc with whatever else the step does to it.
ReleasePermit(r, pcs) ==
  \/ /\ waiters[r] = <<>>
     /\ permits' = [permits EXCEPT ![r] = @ + 1]
     /\ pc' = pcs
     /\ UNCHANGED waiters
  \/ /\ waiters[r] # <<>>
     /\ pc' = [pcs EXCEPT ![Head(waiters[r])] = "assigned"]
     /\ waiters' = [waiters EXCEPT ![r] = Tail(@)]
     /\ UNCHANGED permits

-----------------------------------------------------------------------------
(***************************************************************************)
(* Ref::try_send.                                                          *)
(***************************************************************************)
\* A call with a new message.  Its size is looked at first.
Call(s) ==
  /\ At(s, "idle")
  /\ msg[s].seq < MaxSends
  /\ \E k \in Kinds, c \in {"try_send", "send"} :
       /\ call' = [call EXCEPT ![s] = c]
       /\ msg' = [msg EXCEPT ![s] = [from |-> s, seq |-> @.seq + 1, kind |-> k]]
       /\ \/ k = "large" /\ Return(s, "TooLarge")
          \/ k # "large" /\ Goto(s, "check")
  /\ UNCHANGED <<ref, live, boxVars, peerVars, accepted>>

\* The load that decides between the fast path and the queue.
Check(s) ==
  /\ At(s, "check")
  /\ \/ /\ msg[s].kind # "manyfds"
        /\ ~IsBackedUp(ref[s])
        /\ Goto(s, "inline")
     \/ /\ msg[s].kind = "manyfds" \/ IsBackedUp(ref[s])
        /\ Goto(s, "outbox")
  /\ UNCHANGED <<ref, live, call, msg, boxVars, peerVars, accepted>>

\* wire::send_now on the ref's own descriptor
SendInline(s) ==
  /\ At(s, "inline")
  /\ \/ /\ HasRoom
        /\ socket' = Append(socket, msg[s])
        /\ Accepts(s)
        /\ Return(s, "Ok")
     \/ /\ WouldBlock
        /\ Goto(s, "outbox")
        /\ UNCHANGED <<socket, accepted>>
     \/ /\ ~up
        /\ Return(s, "Closed")
        /\ UNCHANGED <<socket, accepted>>
  /\ UNCHANGED <<ref, live, call, msg, boxVars, up, delivered>>

\* RefInner::outbox finds the OnceLock set, or builds an outbox of its own.
GetOutbox(s) ==
  /\ At(s, "outbox")
  /\ Goto(s, IF drain[ref[s]] = "unbuilt" THEN "set" ELSE "claim")
  /\ UNCHANGED <<ref, live, call, msg, boxVars, peerVars, accepted>>

\* Outbox::build fails: no descriptor left to dup, no reactor to register with.
BuildFails(s) ==
  /\ "build" \in Faults
  /\ At(s, "outbox")
  /\ drain[ref[s]] = "unbuilt"
  /\ Return(s, "Closed")
  /\ UNCHANGED <<ref, live, call, msg, boxVars, peerVars, accepted>>

\* OnceLock::set keeps the first outbox; one that lost the race is dropped,
\* and the drain task spawned with it ends on its closed, empty channel.
SetOutbox(s) ==
  /\ At(s, "set")
  /\ drain' = [drain EXCEPT ![ref[s]] = IF @ = "unbuilt" THEN "recv" ELSE @]
  /\ Goto(s, "claim")
  /\ UNCHANGED <<ref, live, call, msg, queue, pending, permits, waiters, hand,
                 peerVars, accepted>>

-----------------------------------------------------------------------------
(***************************************************************************)
(* Outbox::push.                                                           *)
(***************************************************************************)
Claim(s) ==
  /\ At(s, "claim")
  /\ pending' = [pending EXCEPT ![ref[s]] = @ + 1]
  /\ Goto(s, "push")
  /\ UNCHANGED <<ref, live, call, msg, queue, permits, waiters, drain, hand,
                 peerVars, accepted>>

\* mpsc::Sender::try_send: a closed channel is noticed before a full one.
Refusal_Closed(r) == "Closed"
Refusal(r) == IF ChannelClosed(r) THEN "Closed" ELSE "Full"

Push(s) ==
  LET r == ref[s] IN
  /\ At(s, "push")
  /\ \/ /\ ~ChannelClosed(r)
        /\ permits[r] > 0
        /\ permits' = [permits EXCEPT ![r] = @ - 1]
        /\ queue' = [queue EXCEPT ![r] = Append(@, msg[s])]
        /\ Accepts(s)
        /\ Return(s, "Ok")
     \/ /\ ChannelClosed(r) \/ permits[r] = 0
        /\ pc' = [pc EXCEPT ![s] = "unclaim"]
        /\ result' = [result EXCEPT ![s] = Refusal(r)]
        /\ UNCHANGED <<permits, queue, accepted>>
  /\ UNCHANGED <<ref, live, call, msg, pending, waiters, drain, hand, peerVars>>

\* The claim is taken back.  try_send then returns; `send' goes on to wait
\* if the queue was merely full.
Unclaim_Forgets(s) ==
  LET waits == call[s] = "send" /\ result[s] = "Full" IN
  /\ At(s, "unclaim")
  /\ Goto(s, IF waits THEN "reserve" ELSE "idle")
  /\ UNCHANGED <<ref, live, call, msg, boxVars, peerVars, accepted>>
Unclaim(s) ==
  LET waits == call[s] = "send" /\ result[s] = "Full" IN
  /\ At(s, "unclaim")
  /\ pending' = [pending EXCEPT ![ref[s]] = @ - 1]
  /\ Goto(s, IF waits THEN "reserve" ELSE "idle")
  /\ UNCHANGED <<ref, live, call, msg, queue, permits, waiters, drain, hand,
                 peerVars, accepted>>

-----------------------------------------------------------------------------
(***************************************************************************)
(* Outbox::send: reserve().await, then claim, then permit.send.            *)
(***************************************************************************)
Reserve(s) ==
  LET r == ref[s] IN
  /\ At(s, "reserve")
  /\ \/ /\ ChannelClosed(r)
        /\ Return(s, "Closed")
        /\ UNCHANGED <<permits, waiters>>
     \/ /\ ~ChannelClosed(r)
        /\ permits[r] > 0
        /\ permits' = [permits EXCEPT ![r] = @ - 1]
        /\ Goto(s, "granted")
        /\ UNCHANGED waiters
     \/ /\ ~ChannelClosed(r)
        /\ permits[r] = 0
        /\ waiters' = [waiters EXCEPT ![r] = Append(@, s)]
        /\ Goto(s, "waiting")
        /\ UNCHANGED permits
  /\ UNCHANGED <<ref, live, call, msg, queue, pending, drain, hand, peerVars,
                 accepted>>

\* A parked sender runs again: it was given a slot, or the channel closed.
\* A slot given just before the channel closed is of no use any more.
Wake(s) ==
  /\ \/ /\ ChannelClosed(ref[s])
        /\ At(s, "waiting") \/ At(s, "assigned")
        /\ Return(s, "Closed")
     \/ /\ ~ChannelClosed(ref[s])
        /\ At(s, "assigned")
        /\ Goto(s, "granted")
  /\ UNCHANGED <<ref, live, call, msg, boxVars, peerVars, accepted>>

ClaimSlot(s) ==
  /\ At(s, "granted")
  /\ pending' = [pending EXCEPT ![ref[s]] = @ + 1]
  /\ Goto(s, "permit")
  /\ UNCHANGED <<ref, live, call, msg, queue, permits, waiters, drain, hand,
                 peerVars, accepted>>

\* Permit::send cannot fail; on a closed channel the message goes nowhere.
SendPermit(s) ==
  LET r == ref[s] IN
  /\ At(s, "permit")
  /\ queue' = [queue EXCEPT ![r] = IF ChannelClosed(r) THEN @
                                   ELSE Append(@, msg[s])]
  /\ Accepts(s)
  /\ Return(s, "Ok")
  /\ UNCHANGED <<ref, live, call, msg, pending, permits, waiters, drain, hand,
                 peerVars>>

\* The caller drops the future while it waits.  The message goes with it, and
\* a slot it was already given goes to the next in line.
AbortSend_KeepsSlot(s) ==
  /\ "abort" \in Faults
  /\ At(s, "waiting") \/ At(s, "assigned")
  /\ result' = [result EXCEPT ![s] = "Aborted"]
  /\ \/ /\ pc[s] = "waiting"
        /\ \E i \in DOMAIN waiters[ref[s]] :
             /\ waiters[ref[s]][i] = s
             /\ waiters' = [waiters EXCEPT ![ref[s]] = RemoveAt(@, i)]
        /\ pc' = [pc EXCEPT ![s] = "idle"]
     \/ /\ pc[s] = "assigned"
        /\ pc' = [pc EXCEPT ![s] = "idle"]
        /\ UNCHANGED waiters
  /\ UNCHANGED <<ref, live, call, msg, queue, pending, permits, drain, hand,
                 peerVars, accepted>>
AbortSend(s) ==
  LET r == ref[s] IN
  /\ "abort" \in Faults
  /\ At(s, "waiting") \/ At(s, "assigned")
  /\ result' = [result EXCEPT ![s] = "Aborted"]
  /\ \/ /\ pc[s] = "waiting"
        /\ \E i \in DOMAIN waiters[r] :
             /\ waiters[r][i] = s
             /\ waiters' = [waiters EXCEPT ![r] = RemoveAt(@, i)]
        /\ pc' = [pc EXCEPT ![s] = "idle"]
        /\ UNCHANGED permits
     \/ /\ pc[s] = "assigned"
        /\ ReleasePermit(r, [pc EXCEPT ![s] = "idle"])
  /\ UNCHANGED <<ref, live, call, msg, queue, pending, drain, hand, peerVars,
                 accepted>>

-----------------------------------------------------------------------------
(***************************************************************************)
(* Outbox::drain, one task per ref.                                        *)
(***************************************************************************)
\* message_rx.recv() takes the oldest message and frees its slot.
DrainRecv_Lowers(r) ==
  /\ drain[r] = "recv"
  /\ queue[r] # <<>>
  /\ hand' = [hand EXCEPT ![r] = <<Head(queue[r])>>]
  /\ queue' = [queue EXCEPT ![r] = Tail(@)]
  /\ drain' = [drain EXCEPT ![r] = "send"]
  /\ pending' = [pending EXCEPT ![r] = @ - 1]
  /\ ReleasePermit(r, pc)
  /\ UNCHANGED <<ref, live, call, msg, result, peerVars, accepted>>
DrainRecv_OnlyWhileHeld(r) ==
  /\ drain[r] = "recv"
  /\ queue[r] # <<>>
  /\ RefHeld(r)
  /\ hand' = [hand EXCEPT ![r] = <<Head(queue[r])>>]
  /\ queue' = [queue EXCEPT ![r] = Tail(@)]
  /\ drain' = [drain EXCEPT ![r] = "send"]
  /\ ReleasePermit(r, pc)
  /\ UNCHANGED <<ref, live, call, msg, result, pending, peerVars, accepted>>
DrainRecv(r) ==
  /\ drain[r] = "recv"
  /\ queue[r] # <<>>
  /\ hand' = [hand EXCEPT ![r] = <<Head(queue[r])>>]
  /\ queue' = [queue EXCEPT ![r] = Tail(@)]
  /\ drain' = [drain EXCEPT ![r] = "send"]
  /\ ReleasePermit(r, pc)
  /\ UNCHANGED <<ref, live, call, msg, result, pending, peerVars, accepted>>

\* recv() gives None: every Ref is gone and nothing is queued any more.
DrainClosed_Never(r) == FALSE /\ UNCHANGED vars
DrainClosed_Aborts(r) ==
  /\ drain[r] = "recv"
  /\ ~RefHeld(r)
  /\ drain' = [drain EXCEPT ![r] = "gone"]
  /\ queue' = [queue EXCEPT ![r] = <<>>]
  /\ UNCHANGED <<sendVars, pending, permits, waiters, hand, peerVars, accepted>>
DrainClosed(r) ==
  /\ drain[r] = "recv"
  /\ queue[r] = <<>>
  /\ ~RefHeld(r)
  /\ drain' = [drain EXCEPT ![r] = "gone"]
  /\ UNCHANGED <<sendVars, queue, pending, permits, waiters, hand, peerVars,
                 accepted>>

\* Reactive::send waits for room and then sends.  It fails when the peer is
\* gone, and when one control message cannot carry the descriptors (EINVAL).
DrainSend_IgnoresErrors(r) ==
  LET m == hand[r][1] IN
  /\ drain[r] = "send"
  /\ HasRoom
  /\ socket' = Append(socket, m)
  /\ drain' = [drain EXCEPT ![r] = "sent"]
  /\ hand' = [hand EXCEPT ![r] = <<>>]
  /\ UNCHANGED <<sendVars, queue, pending, permits, waiters, up, delivered,
                 accepted>>
DrainSend(r) ==
  LET m == hand[r][1] IN
  /\ drain[r] = "send"
  /\ \/ /\ ~up \/ m.kind = "manyfds"
        /\ drain' = [drain EXCEPT ![r] = "failed"]
        /\ UNCHANGED socket
     \/ /\ HasRoom
        /\ m.kind # "manyfds"
        /\ socket' = Append(socket, m)
        /\ drain' = [drain EXCEPT ![r] = "sent"]
  /\ hand' = [hand EXCEPT ![r] = <<>>]
  /\ UNCHANGED <<sendVars, queue, pending, permits, waiters, up, delivered,
                 accepted>>

\* fetch_sub after the send returned, then `result?'
DrainRelease_OnlyIfSent(r) ==
  /\ drain[r] \in {"sent", "failed"}
  /\ pending' = [pending EXCEPT ![r] = IF drain[r] = "sent" THEN @ - 1 ELSE @]
  /\ drain' = [drain EXCEPT ![r] = IF @ = "sent" THEN "recv" ELSE "exit"]
  /\ UNCHANGED <<sendVars, queue, permits, waiters, hand, peerVars, accepted>>
DrainRelease_TwiceOnError(r) ==
  /\ drain[r] \in {"sent", "failed"}
  /\ pending' = [pending EXCEPT ![r] = IF drain[r] = "sent" THEN @ - 1 ELSE @ - 2]
  /\ drain' = [drain EXCEPT ![r] = IF @ = "sent" THEN "recv" ELSE "exit"]
  /\ UNCHANGED <<sendVars, queue, permits, waiters, hand, peerVars, accepted>>
DrainRelease(r) ==
  /\ drain[r] \in {"sent", "failed"}
  /\ pending' = [pending EXCEPT ![r] = @ - 1]
  /\ drain' = [drain EXCEPT ![r] = IF @ = "sent" THEN "recv" ELSE "exit"]
  /\ UNCHANGED <<sendVars, queue, permits, waiters, hand, peerVars, accepted>>

\* The task ended with an error: its receiver closes the channel, which wakes
\* whoever waits for a slot, and drops what was queued.  `pending' keeps it.
DrainExit(r) ==
  /\ drain[r] = "exit"
  /\ drain' = [drain EXCEPT ![r] = "gone"]
  /\ queue' = [queue EXCEPT ![r] = <<>>]
  /\ waiters' = [waiters EXCEPT ![r] = <<>>]
  /\ UNCHANGED <<sendVars, pending, permits, hand, peerVars, accepted>>

-----------------------------------------------------------------------------
(***************************************************************************)
(* The far end: the node's receive loop, and the ways its socket goes.     *)
(***************************************************************************)
PeerGone ==
  /\ up' = FALSE
  /\ socket' = <<>>

\* One message to the handler.  An empty one reads as the end of the stream.
Receive ==
  /\ up
  /\ socket # <<>>
  /\ \/ /\ Head(socket).kind = "empty"
        /\ PeerGone
        /\ UNCHANGED delivered
     \/ /\ Head(socket).kind # "empty"
        /\ socket' = Tail(socket)
        /\ delivered' = Append(delivered, Head(socket))
        /\ UNCHANGED up
  /\ UNCHANGED <<sendVars, boxVars, accepted>>

PeerDown ==
  /\ "peer" \in Faults
  /\ up
  /\ PeerGone
  /\ UNCHANGED <<sendVars, boxVars, delivered, accepted>>

\* The last descriptor for our end closed: the refs' own and the dups that
\* their drain tasks hold.  The loop reads zero bytes and returns.
EndOfFile ==
  /\ up
  /\ socket = <<>>
  /\ live = {}
  /\ \A r \in Refs : drain[r] \in {"unbuilt", "gone"}
  /\ PeerGone
  /\ UNCHANGED <<sendVars, boxVars, delivered, accepted>>

\* A task drops its clone of the ref.
Drop(s) ==
  /\ At(s, "idle")
  /\ live' = live \ {s}
  /\ UNCHANGED <<ref, pc, call, msg, result, boxVars, peerVars, accepted>>

\* A process drops its last Ref and receives the capability again from one who
\* still has it.  The registry has no live entry any more, so Ref::from_fd files
\* a new RefInner, while the drain task of the old one sends what it still has.
Reacquire(s) ==
  /\ "reacquire" \in Faults
  /\ At(s, "idle")
  /\ \A t \in live \ {s} : ref[t] # ref[s]
  /\ \E r \in Refs :
       /\ ~RefHeld(r)
       /\ drain[r] = "unbuilt"
       /\ ref' = [ref EXCEPT ![s] = r]
  /\ UNCHANGED <<live, pc, call, msg, result, boxVars, peerVars, accepted>>

-----------------------------------------------------------------------------
SenderStep(s) ==
  \/ Check(s) \/ SendInline(s) \/ GetOutbox(s) \/ SetOutbox(s)
  \/ Claim(s) \/ Push(s) \/ Unclaim(s)
  \/ Reserve(s) \/ Wake(s) \/ ClaimSlot(s) \/ SendPermit(s)

DrainStep(r) ==
  \/ DrainRecv(r) \/ DrainClosed(r) \/ DrainSend(r)
  \/ DrainRelease(r) \/ DrainExit(r)

\* All is done: the last ref dropped, every task ended, the node gone.
Terminating ==
  /\ live = {}
  /\ ~up
  /\ \A r \in Refs : drain[r] \in {"unbuilt", "gone"}
  /\ UNCHANGED vars

Next ==
  \/ \E s \in Senders : \/ Call(s) \/ SenderStep(s) \/ BuildFails(s)
                         \/ AbortSend(s) \/ Drop(s) \/ Reacquire(s)
  \/ \E r \in Refs : DrainStep(r)
  \/ Receive \/ PeerDown \/ EndOfFile
  \/ Terminating

Spec == Init /\ [][Next]_vars

\* Threads and tasks that can run do run, and a handler returns.  Nothing
\* makes a caller send, give up, or drop its ref, and nothing makes a peer
\* or a build fail.
Fairness ==
  /\ \A s \in Senders : WF_vars(SenderStep(s))
  /\ \A r \in Refs : WF_vars(DrainStep(r))
  /\ WF_vars(Receive)
  /\ WF_vars(EndOfFile)

FairSpec == Spec /\ Fairness

-----------------------------------------------------------------------------
(***************************************************************************)
(* Properties.                                                             *)
(***************************************************************************)
\* Every variable keeps to the values the code's types and DEPTH allow;
\* `pending' and the free slots of a channel never go below zero.
TypeOK ==
  /\ ref \in [Senders -> Refs]
  /\ live \subseteq Senders
  /\ pc \in [Senders -> SenderPoints]
  /\ call \in [Senders -> {"try_send", "send"}]
  /\ msg \in [Senders -> Message]
  /\ result \in [Senders -> Outcomes]
  /\ queue \in [Refs -> Seq(Message)]
  /\ pending \in [Refs -> Nat]
  /\ permits \in [Refs -> Nat]
  /\ waiters \in [Refs -> Seq(Senders)]
  /\ drain \in [Refs -> DrainPoints]
  /\ hand \in [Refs -> Seq(Message)]
  /\ \A r \in Refs : Len(hand[r]) = IF drain[r] = "send" THEN 1 ELSE 0
  /\ socket \in Seq(Message)
  /\ up \in BOOLEAN
  /\ delivered \in Seq(Message)
  /\ accepted \subseteq Message

\* senders that raised `pending' and have not yet queued or backed out
Claimers(r) == {s \in Senders : ref[s] = r /\ pc[s] \in {"push", "unclaim", "permit"}}

\* the message the drain task answers for, until it lowers `pending'
InFlightOf(r) == IF drain[r] \in {"send", "sent", "failed"} THEN 1 ELSE 0

\* `pending' counts the queue, the claims under way and the message of the
\* drain task, neither more nor less: the gate of the fast path is shut while
\* a message waits, and is not held shut by anything else.  After the drain
\* task ended it still covers the claims, so that no fetch_sub wraps it.
PendingExact ==
  \A r \in Refs :
    IF drain[r] = "gone"
    THEN pending[r] >= Cardinality(Claimers(r))
    ELSE pending[r] = Len(queue[r]) + InFlightOf(r) + Cardinality(Claimers(r))

\* senders that own a slot of r's channel and have not filled it
SlotOwners(r) ==
  {s \in Senders : ref[s] = r /\ pc[s] \in {"assigned", "granted", "permit"}}

\* No slot is lost or made up, whoever waits, gives up or is woken, and
\* nobody is parked while a slot is free (Outbox::send and reserve()).
SlotsConserved ==
  \A r \in Refs : drain[r] # "gone" =>
    /\ permits[r] + Len(queue[r]) + Cardinality(SlotOwners(r)) = DEPTH
    /\ waiters[r] # <<>> => permits[r] = 0

\* The messages of one sender reach the handler in the order of its calls,
\* whichever of the two paths each of them took ("Ordering is preserved for
\* any one sender", Ref::send; the doc of Outbox::pending).
SenderFifo ==
  \A i, j \in DOMAIN delivered :
    i < j /\ delivered[i].from = delivered[j].from
      => delivered[i].seq < delivered[j].seq

\* accepted, and on its way
Waiting ==
  Range(socket) \cup UNION {Range(hand[r]) \cup Range(queue[r]) : r \in Refs}

\* A message that a call returned Ok for has reached the handler or is still
\* on its way as long as the peer is there, and one that was refused or given
\* up has not (the comment on the spawn in Outbox::build; TrySendError hands
\* a refused message back so that the caller can retry it).
NothingLostNothingKept ==
  /\ up => accepted \subseteq Range(delivered) \cup Waiting
  /\ Range(delivered) \cup Waiting \subseteq accepted

\* Closed is reported only by a ref that cannot reach its node any more: "the
\* only thing it can report is a peer that is actually gone" (Ref::send),
\* "the peer is gone" (SendError::Closed, TrySendError::Closed).
ClosedMeansGone ==
  \A s \in Senders :
    result[s] = "Closed" /\ msg[s].kind # "manyfds" => ~up

\* The link that the refs of one capability implement together.
Offered == [from : Senders, seq : 1 .. MaxSends, kind : Kinds]
Link == INSTANCE FifoLink WITH
          Message  <- Offered,
          linkUp   <- up,
          inFlight <- IF up THEN Waiting ELSE {},
          handled  <- Range(delivered)

\* Sending is sending on a reliable link that is FIFO for each sender, until
\* the peer goes: the fast path, the queue and the drain task behind it are
\* invisible (lib.rs: a Ref is a handle one just sends to).
ImplementsLink == Link!Spec

\* A message that a call returned Ok for reaches the handler, also when the
\* last ref is dropped while it is queued (the comment in Outbox::build on
\* why the drain task is not aborted), unless the node goes first.  That the
\* node does not go of itself before is NothingLostNothingKept: as long as it
\* is up the message is on its way, and EndOfFile finds nothing on its way.
\* Stated of all messages at once: calls are bounded by MaxSends, so a last
\* one is accepted, and from then on one left behind would stay so.
AcceptedIsHandled == []<>(~up \/ accepted \subseteq Range(delivered))

\* Every call returns: a `send' that waits for a slot gets one or learns that
\* the channel closed.
SendReturns == \A s \in Senders : pc[s] # "idle" ~> pc[s] = "idle"

\* A backlog ends, and with it the detour through the queue: the fast path
\* opens again unless the peer is gone.
FastPathReopens ==
  \A r \in Refs : pending[r] # 0 ~> (pending[r] = 0 \/ ~up)

\* Once no ref is left the queued messages are sent, the drain tasks end and
\* the node behind the capability learns that nobody can reach it.
LastDropHangsUp == live = {} ~> ~up
=============================================================================
