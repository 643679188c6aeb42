SPECIFICATION LinkFairSpec
CONSTANTS
  Macs = {pa, pb}
  NoMac = NoMac
  CfgMac = NoMac
  MaxAttempts = 2
PROPERTY LostPackDetached
