SPECIFICATION Spec
CONSTANTS
  BS = 2
  LowerSize = 3
  LowerData <- MCLowerData
  MaxPos = 4
  Data = {101}
  Readers = {}
  Env = {"evict"}
INVARIANT CowOffMeansDone
