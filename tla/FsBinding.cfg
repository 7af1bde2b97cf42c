\* Everything that can befall two binders while two clients connect.
SPECIFICATION FairSpec
CONSTANTS
  Binders = {b1, b2}
  Clients = {c1, c2}
  LockFiles = {f1, f2, f3}
  BACKLOG = 1
  None = None
  Events = {"crash", "drop", "accept", "build", "leave"}
INVARIANTS
  OneOwner
  BoundIsReachable
  BindFindsPathFree
  WaitingIsHeld
PROPERTY
  ConnectReturns
