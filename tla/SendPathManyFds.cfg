\* One message with more descriptors than a control message carries.
SPECIFICATION Spec
CONSTANTS
  Senders = {s1, s2}
  Refs = {r1}
  DEPTH = 1
  SocketRoom = 1
  MaxSends = 2
  Kinds = {"plain", "manyfds"}
  Faults = {}
INVARIANT
  ClosedMeansGone
