SPECIFICATION DaySpec
CONSTANTS
  Wrap = 7
  Second = 2
  TickGap = 2
  SaveGates = 2
  SaveEvery = 3
  Arrows <- TheArrows
  Epochs <- TheEpochs
  Hours = 1
  Minutes = 2
  Seconds = 2
  kMinYear = 2024
  kMaxYear = 2099
  NoEdit = NoEdit
  MaxTime = 12
  NoMinute = NoMinute
INVARIANT HonestClock
INVARIANT CutCostsAtMost
INVARIANT DayIsWhole
INVARIANT DatesAreReal
