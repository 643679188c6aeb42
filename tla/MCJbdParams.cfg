SPECIFICATION Spec
CONSTANTS
  Registers <- TheRegisters
  Order <- TheOrder
  Values <- TheValues
  Percents <- ThePercents
  Images <- TheImages
  Stored <- TheStored
  Attempts = 2
  MaxCalls = 2
  MaxInFlight = 1
INVARIANTS
  SetIsWhole
  SetIsRead
PROPERTIES
  CallsReturn
CHECK_DEADLOCK FALSE
