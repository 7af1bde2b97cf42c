\* One or two processes; the peer may go, and a caller that waits may give up.
SPECIFICATION FairSpec
CONSTANTS
  Senders = {s1, s2}
  Refs = {r1, r2}
  DEPTH = 1
  SocketRoom = 1
  MaxSends = 2
  Kinds = {"plain"}
  Faults = {"peer", "abort"}
INVARIANTS
  ClosedMeansGone
  NothingLostNothingKept
  SenderFifo
PROPERTIES
  ImplementsLink
  SendReturns
  FastPathReopens
  AcceptedIsHandled
  LastDropHangsUp
