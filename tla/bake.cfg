SPECIFICATION FairSpec
CONSTANTS
  MaxServers = 2
  MaxImages = 2
  MaxStarts = 3
  MaxTries = 2
  Posts = {h1, h2}
CHECK_DEADLOCK FALSE
INVARIANT BakeTypeOK
INVARIANT BootImagePulled
INVARIANT NoBakeLeak
INVARIANT OneBakedImage
PROPERTY RefusedOnlyWhenOver
PROPERTY BakeServerEnds
PROPERTY KeepsContract
