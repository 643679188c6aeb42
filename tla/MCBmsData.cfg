SPECIFICATION FairSpec
CONSTANTS
  Limits <- LimitKinds
  QueryAttempts = 2
  ReadAttempts = 2
  MaxConns = 2
  MaxInFlight = 2
INVARIANT PromptLimitsAreOwn
PROPERTY AskedThenOwn
PROPERTY SilenceGoesStale
PROPERTY FaultSounds
