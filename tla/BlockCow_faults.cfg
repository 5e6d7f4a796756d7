SPECIFICATION FairSpec
CONSTANTS
  BS = 2
  LowerSize = 3
  LowerData <- MCLowerData
  MaxPos = 5
  Data = {101}
  Readers = {}
  Env = {"sparse", "short", "copyfail", "writefail", "truncate", "evict"}
PROPERTY CopyUpNeverUndone
PROPERTY WritesReturn
