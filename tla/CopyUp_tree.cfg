SPECIFICATION Spec
CONSTANTS
  R = R D = D E = E F = F G = G X = X r = r de = de dd = dd f = f None = None
  Threads = {t1, t2}
  Root = R Files = {f} Empty = {} 
  Dentries <- TreeDentries
  Inodes <- TreeInodes
  InodeOf <- TreeInodeOf
  Parent0 <- TreeParent
  HardLinked = {}
  Disconnected = {}
  Index = FALSE IndexAll = FALSE MetaCopy = FALSE TmpFile = TRUE Faults = TRUE
  Ops = {"read", "write", "trunc", "meta", "rename"}
  Moves <- TreeMoves
INVARIANTS
  WorkOnce
  UpperMirrorsTree
  ImpureMarked
  DataReachable
  ReadTakesData
