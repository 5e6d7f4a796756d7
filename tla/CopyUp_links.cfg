SPECIFICATION FairSpec
CONSTANTS
  R = R D = D E = E F = F G = G X = X r = r de = de dd = dd f = f None = None
  Threads = {t1, t2}
  Root = R Files = {f} Empty = {} 
  Dentries <- LinkDentries
  Inodes <- LinkInodes
  InodeOf <- LinkInodeOf
  Parent0 <- LinkParent
  HardLinked = {f}
  Disconnected = {X}
  Index = TRUE IndexAll = TRUE MetaCopy = TRUE TmpFile = TRUE Faults = TRUE
  Ops = {"write", "rename"}
  Moves <- LinkMoves
PROPERTIES
  CallsReturn
INVARIANTS
  ProtoInv
  UpperReachable
  SuccessMeansUp
