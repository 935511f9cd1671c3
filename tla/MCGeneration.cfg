\* Two generations of one selection; failed calls, outages of MongoDB, crashes,
\* shutdowns and restarts are not bounded.
SPECIFICATION AppFairSpec
CONSTANTS
  Generations = {g1, g2}
  Selections = {s1}
  NoSelection = NoSelection
INVARIANT StatusDescribesRecord
INVARIANT NoSilentStall
PROPERTY CasesAreKept
PROPERTY AcceptedResolves
PROPERTY BecomesReady
PROPERTY WorksOnceReachable
CHECK_DEADLOCK FALSE
