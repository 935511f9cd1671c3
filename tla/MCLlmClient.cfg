\* Two clients with two retries each; thresholds of two; the clock is set once.
SPECIFICATION FairSpec
CONSTANTS
  Clients = {c1, c2}
  MaxAttempts = 3
  MaxSettings = 1
  FailureThreshold = 2
  SuccessThreshold = 2
  Timeout = 2
PROPERTIES ClosesOnGoodStreak RecoversWhenUp OpensWhenDown CompletionEnds
