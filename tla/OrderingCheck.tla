--------------------------- MODULE OrderingCheck ----------------------------
(***************************************************************************)
(* examples/ordering.rs: a sender numbers MESSAGES messages, each with a   *)
(* capability and a payload made from its number; the handler SeqChecker   *)
(* counts what arrives and what is wrong with it, in shared atomics; main  *)
(* waits until enough has been counted, reads the counters one after       *)
(* another and passes its verdict on the library.                          *)
(*                                                                         *)
(* The link is the library that is judged: it may misplace a message,      *)
(* spoil its payload or strip its capability, once (Blunders).             *)
(***************************************************************************)
EXTENDS Integers, Sequences

CONSTANTS
  MESSAGES,   \* messages sent
  QueueLen,   \* messages the Ref accepts before try_send answers Full
  Blunders    \* what the link may do wrong

ASSUME OrderingAssumption ==
  /\ MESSAGES \in Nat /\ QueueLen \in Nat
  /\ Blunders \subseteq {"swap", "lose", "spoil", "strip"}

VARIABLES
  queue,      \* accepted and not yet handled: [seq, intact, cap]
  next,       \* the number of the next message
  fine,       \* the link has made no blunder yet
  checking,   \* the message in the handler, or <<>>
  at,         \* where the handler is
  next_expected, received, fds_seen, out_of_order, payload_corrupt,
  main,       \* where main is: off, sending, waiting, loading, verdict
  loads,      \* what main has read of the counters
  history     \* what has been handed to the handler

counters == <<next_expected, received, fds_seen, out_of_order, payload_corrupt>>
checkVars == <<queue, next, fine, checking, at, counters, main, loads, history>>

OrderingInit(first) ==
  /\ queue = <<>> /\ next = 0 /\ fine = TRUE
  /\ checking = <<>> /\ at = "idle"
  /\ next_expected = 0 /\ received = 0 /\ fds_seen = 0
  /\ out_of_order = 0 /\ payload_corrupt = 0
  /\ main = first /\ loads = <<>> /\ history = <<>>

\* try_send: Ok, or Full, when main yields and tries again.
TrySends ==
  /\ main = "sending" /\ next < MESSAGES /\ Len(queue) < QueueLen
  /\ queue' = Append(queue, [seq |-> next, intact |-> TRUE, cap |-> 1])
  /\ next' = next + 1
  /\ UNCHANGED <<fine, checking, at, counters, main, loads, history>>

Blunder ==
  /\ fine /\ queue # <<>> /\ fine' = FALSE
  /\ \/ "swap" \in Blunders /\ Len(queue) > 1
        /\ queue' = <<queue[2], queue[1]>> \o SubSeq(queue, 3, Len(queue))
     \/ "lose" \in Blunders /\ queue' = Tail(queue)
     \/ "spoil" \in Blunders /\ queue' = [queue EXCEPT ![1].intact = FALSE]
     \/ "strip" \in Blunders /\ queue' = [queue EXCEPT ![1].cap = 0]
  /\ UNCHANGED <<next, checking, at, counters, main, loads, history>>

-----------------------------------------------------------------------------
(* SeqChecker::handle: the counters move one at a time.                    *)

Counts ==
  /\ at = "idle" /\ queue # <<>>
  /\ checking' = <<Head(queue)>> /\ history' = Append(history, Head(queue))
  /\ queue' = Tail(queue)
  /\ received' = received + 1
  /\ at' = "fds"
  /\ UNCHANGED <<next, fine, next_expected, fds_seen, out_of_order, payload_corrupt, main, loads>>
CountsFds ==
  /\ at = "fds"
  /\ fds_seen' = fds_seen + checking[1].cap
  /\ at' = "order"
  /\ UNCHANGED <<queue, next, fine, checking, next_expected, received, out_of_order,
                 payload_corrupt, main, loads, history>>
ChecksOrder_NeverCounts ==
  /\ at = "order"
  /\ next_expected' = checking[1].seq + 1
  /\ at' = "payload"
  /\ UNCHANGED <<queue, next, fine, checking, received, fds_seen, out_of_order,
                 payload_corrupt, main, loads, history>>
ChecksOrder ==
  /\ at = "order"
  /\ next_expected' = checking[1].seq + 1
  /\ out_of_order' = out_of_order + (IF checking[1].seq = next_expected THEN 0 ELSE 1)
  /\ at' = "payload"
  /\ UNCHANGED <<queue, next, fine, checking, received, fds_seen,
                 payload_corrupt, main, loads, history>>
ChecksPayload ==
  /\ at = "payload"
  /\ payload_corrupt' = payload_corrupt + (IF checking[1].intact THEN 0 ELSE 1)
  /\ checking' = <<>> /\ at' = "idle"
  /\ UNCHANGED <<queue, next, fine, next_expected, received, fds_seen, out_of_order,
                 main, loads, history>>

-----------------------------------------------------------------------------
(* main.                                                                   *)

\* It waits for the last message to be counted, for 30 s at most.
Sent == /\ main = "sending" /\ next = MESSAGES
        /\ main' = "waiting"
        /\ UNCHANGED <<queue, next, fine, checking, at, counters, loads, history>>
WaitEnds ==
  /\ main = "waiting"
  /\ main' = "loading"
  /\ UNCHANGED <<queue, next, fine, checking, at, counters, loads, history>>

\* The counters are read in this order.
Loads ==
  /\ main = "loading"
  /\ LET values == <<received, out_of_order, payload_corrupt, fds_seen>> IN
     loads' = Append(loads, values[Len(loads) + 1])
  /\ main' = IF Len(loads) = 3 THEN "verdict" ELSE "loading"
  /\ UNCHANGED <<queue, next, fine, checking, at, counters, history>>

Passes == /\ main = "verdict"
          /\ loads[1] = MESSAGES /\ loads[2] = 0 /\ loads[3] = 0 /\ loads[4] = loads[1]

OrderingStep ==
  \/ TrySends \/ Counts \/ CountsFds \/ ChecksOrder \/ ChecksPayload
  \/ Sent \/ WaitEnds \/ Loads
=============================================================================
