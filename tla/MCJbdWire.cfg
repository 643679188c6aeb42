SPECIFICATION WireSpec
CONSTANTS
  Frames <- TheFrames
  N = 12
  RequestBytes = 2
  MaxConns = 2
INVARIANTS
  OwnFramesInOrder
  NoFrameLost
  RequestsWhole
CHECK_DEADLOCK FALSE
