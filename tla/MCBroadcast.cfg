SPECIFICATION Spec
CONSTANTS
  MaxRefreshes = 2
  TooWide <- WideReadings
INVARIANTS
  FrameIsCurrent
  FreshIsSent
PROPERTIES
  SilenceClears
CHECK_DEADLOCK FALSE
