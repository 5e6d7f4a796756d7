SPECIFICATION FairSpec
CONSTANTS
  BS = 2
  LowerSize = 3
  LowerData <- MCLowerData
  MaxPos = 4
  Data = {101}
  Readers = {r1}
  Env = {}
PROPERTY ReadsReturn
