\* Two holders, two waiters, and everything that can go wrong around them; the
\* runtime of one of the holders may shut down.
SPECIFICATION FairSpec
CONSTANTS
  Holders = {h1, h2}
  Waiters = {w1, w2}
  Fragile = {h1}
  MaxSends = 2
  Faults = {"panic", "io", "register", "poll"}
INVARIANTS
  HangupIsComplete
  DeadMeansHungUp
  NoFalseDeath
PROPERTIES
  DeadIsQuiet
  DeathReachesWaiters
  HangupReachesWatchers
  SentIsHandled
  LastRefEndsNode
  DropEndsNode
