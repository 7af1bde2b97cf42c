\* A binding is dropped while another is made at the same path.
SPECIFICATION Spec
CONSTANTS
  Binders = {b1, b2}
  Clients = {c1}
  LockFiles = {f1, f2, f3}
  BACKLOG = 1
  None = None
  Events = {"drop"}
SYMMETRY Symmetry
INVARIANT
  DropSparesOthers
