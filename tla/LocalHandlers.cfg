\* Nodes with a handler of their own and foreign sockets share the numbers.
SPECIFICATION Spec
CONSTANTS
  Slots = {n1, n2, n3}
  Handlers = {h1, h2, h3}
  Inodes = {i1, i2, i3}
  None = None
  Situations = {"fstat", "foreign"}
SYMMETRY Symmetry
INVARIANTS
  FoundWhileReceiving
  NeverAnothers
  EntryHasLoop
