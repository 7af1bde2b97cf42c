\* Every kind of message, every fault, and refs that are acquired again.
SPECIFICATION Spec
CONSTANTS
  Senders = {s1, s2}
  Refs = {r1, r2}
  DEPTH = 1
  SocketRoom = 1
  MaxSends = 2
  Kinds = {"plain", "large", "manyfds", "empty"}
  Faults = {"peer", "build", "abort", "reacquire"}
SYMMETRY Symmetry
INVARIANTS
  TypeOK
  PendingExact
  SlotsConserved
