SPECIFICATION FairSpec
CONSTANTS
  over = over
  short = short
  cold = cold
  Ids <- MCIds
  N = 3
  Order <- MCOrder
  SevOf <- MCSevOf
  KMax = 3
  NoId = NoId
INVARIANT SlotsPublishedWhole
INVARIANT PanelMatchesFaults
PROPERTY ImplementsPanel
PROPERTY SoundSettles
PROPERTY QuietUnmutes
