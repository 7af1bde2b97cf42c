\* Two threads, two sockets that can come back under either number.
SPECIFICATION Spec
CONSTANTS
  Threads = {t1, t2}
  Sockets = {s1, s2}
  Inodes = {i1, i2}
  Cells = {c1, c2, c3}
  None = None
  Faults = {"fstat"}
SYMMETRY Symmetry
INVARIANTS
  OneRefPerSocket
  LiveIsFiled
  EntryNamesItsSocket
PROPERTY
  WrapsItsSocket
