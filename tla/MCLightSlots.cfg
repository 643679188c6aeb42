SPECIFICATION FairSlotsSpec
CONSTANTS
  Lamps = {la, lb}
  NoLamp = NoLamp
  NSlots = 2
INVARIANT SavedIsBound
PROPERTY BoundIsSaved
PROPERTY EveryLampServed
