\* Every example program; the server process may die at any time.
SPECIFICATION Spec
CONSTANTS
  Programs <- MCPrograms
  Room = 1
  Window = 2
  Faults = {"serverDies"}
  Warm = 2
  Ticks = 2
  Rounds = 2
  FloodMax = 4
  Budget = 3
  ITERS = 2
  MESSAGES = 5
  QueueLen = 2
  Blunders = {"swap", "lose", "spoil", "strip"}
INVARIANTS
  RepliesAreOwn
  AlwaysAnswerable
  ReclaimsCaps
  SoundVerdict
PROPERTIES
  ProgramsEnd
\* The programs end.
CHECK_DEADLOCK FALSE
