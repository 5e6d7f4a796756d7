SPECIFICATION Spec
CONSTANTS
  NameSeq <- MCNameSeq
  Fds = {f1, f2}
  Kinds = {"lower", "merge", "upper"}
  LowerDir <- MCLowerDir
  UpperDir <- MCUpperDir
  FirstIno = 100
  SeekTo = {0, 2}
  MaxChanges = 2
  CacheIds = {1, 2, 3}
  None = None
SYMMETRY FdSymmetry
INVARIANTS CachesAccounted ListingComplete 
