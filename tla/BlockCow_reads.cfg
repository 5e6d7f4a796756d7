SPECIFICATION Spec
CONSTANTS
  BS = 2
  LowerSize = 3
  LowerData <- MCLowerData
  MaxPos = 5
  Data = {101}
  Readers = {r1}
  Env = {"copyfail", "writefail", "readfail"}
INVARIANT ReadsRegular
INVARIANT SameAsPlainFile
INVARIANT EofRegular
INVARIANT IInv
INVARIANT TypeOK
