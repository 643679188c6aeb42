SPECIFICATION LinkFairSpec
CONSTANTS
  Macs = {pa, pb}
  NoMac = NoMac
  CfgMac = NoMac
  MaxAttempts = 2
INVARIANT AddressesWhole
INVARIANT PinnedPack
PROPERTY HandoverCommitted
PROPERTY AttachFollowsLink
