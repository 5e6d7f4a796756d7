SPECIFICATION Spec
CONSTANTS
  BS = 2
  LowerSize = 5
  LowerData <- MCLowerData
  MaxPos = 7
  Data = {101, 102}
  Readers = {}
  Env = {"sparse", "copyfail", "writefail"}
INVARIANT MergedView
INVARIANT CopyCountExact
INVARIANT AppendAtEnd
PROPERTY CopyNeverClobbers
