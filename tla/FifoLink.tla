------------------------------ MODULE FifoLink ------------------------------
(***************************************************************************)
(* What a capability promises the tasks that send through it: a link that  *)
(* is up until the node behind it goes, that keeps every message it        *)
(* accepted while it is up, and that hands the messages of any one sender  *)
(* to the handler in the order in which they were sent.  Messages of       *)
(* different senders are not ordered.                                      *)
(*                                                                         *)
(* A message is a record with a sender (from) and a number (seq) that      *)
(* grows with every call that sender makes.  There is no queue in this     *)
(* module: the order is in the guards of Accept and Deliver.               *)
(***************************************************************************)
EXTENDS Naturals

CONSTANT Message   \* the messages that can ever be offered

VARIABLES
  linkUp,     \* the node behind the capability still receives
  inFlight,   \* accepted and not yet handled
  handled     \* given to the handler

linkVars == <<linkUp, inFlight, handled>>

Earlier(m, n) == m.from = n.from /\ m.seq < n.seq

Init ==
  /\ linkUp = TRUE
  /\ inFlight = {}
  /\ handled = {}

\* A sender's new message is later than all it sent before.
Accept(m) ==
  /\ linkUp
  /\ \A n \in inFlight \cup handled : n.from = m.from => Earlier(n, m)
  /\ inFlight' = inFlight \cup {m}
  /\ UNCHANGED <<linkUp, handled>>

\* Only the earliest message of a sender can be handled next.
Deliver(m) ==
  /\ linkUp
  /\ m \in inFlight
  /\ ~ \E n \in inFlight : Earlier(n, m)
  /\ inFlight' = inFlight \ {m}
  /\ handled' = handled \cup {m}
  /\ UNCHANGED linkUp

\* The node goes: what it had not handled is lost with it.
GoDown ==
  /\ linkUp
  /\ linkUp' = FALSE
  /\ inFlight' = {}
  /\ UNCHANGED handled

Next ==
  \/ \E m \in Message : Accept(m) \/ Deliver(m)
  \/ GoDown

Spec == Init /\ [][Next]_linkVars
=============================================================================
