SPECIFICATION FairFixtureSpec
CONSTANTS
  Colours = {warm, red}
  Default = warm
  None = None
  MaxAir = 2
INVARIANT QuietIsTrue
PROPERTY NeverFlashes
PROPERTY RequestsLand
PROPERTY LossNoticed
