\* Four requests of two clients, a limit of two in a window of three ticks.
SPECIFICATION LimiterSpec
CONSTANTS
  Keys = {k1, k2}
  Requests = {r1, r2, r3, r4}
  Limit = 2
  Window = 3
  MaxTime = 4
  MaxRestarts = 1
SYMMETRY Symmetry
INVARIANTS WindowBound GrantsInWindow RefusalsAreEarned
CHECK_DEADLOCK FALSE
