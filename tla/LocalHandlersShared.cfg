\* One handler behind several nodes.
SPECIFICATION Spec
CONSTANTS
  Slots = {n1, n2, n3}
  Handlers = {h1, h2, h3}
  Inodes = {i1, i2}
  None = None
  Situations = {"shared"}
SYMMETRY Symmetry
INVARIANT
  FoundWhileReceiving
