\* A 32 bit process without privilege; others move either limit and nr_open.
SPECIFICATION Spec
CONSTANTS
  Threads = {t1, t2}
  Infinity = 3
  USIZE_MAX = 2
  Privileged = FALSE
  Others = {"lower", "raise", "nropen"}
PROPERTIES
  CeilingIsAsRead
  ReportIsTrue
  SavedIsRestored

