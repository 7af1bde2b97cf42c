\* One process loses and regains the capability while its old outbox drains.
SPECIFICATION Spec
CONSTANTS
  Senders = {s1}
  Refs = {r1, r2}
  DEPTH = 1
  SocketRoom = 1
  MaxSends = 4
  Kinds = {"plain"}
  Faults = {"reacquire"}
INVARIANT
  SenderFifo
