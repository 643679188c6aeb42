SPECIFICATION FairSpec
CONSTANTS
  bms = bms
  light = light
  Owners = {bms, light}
  NFixtures = 2
  MaxAttempts = 2
INVARIANT LightHoldsScanner
INVARIANT BmsConnectsInSilence
PROPERTY HeardIsTried
PROPERTY ScanAlwaysReturns
