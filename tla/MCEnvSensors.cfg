SPECIFICATION Spec
CONSTANTS
  Macs = {ma, mb, mc}
  NoMac = NoMac
  NSlots = 1
  Names = {camp}
  NoName = NoName
  Zero = Zero
  KSamples = 2
  Gap = Gap
SYMMETRY Symmetry
INVARIANT ExtremesAreOwn
INVARIANT NamesFollow
PROPERTY ImplementsClimate
