SPECIFICATION Spec
CONSTANTS
  Top = {"a", "b"}
  Sub = {"c"}
  Mounts <- AllMounts
  NewIds = {1, 2, 3, 4}
  Calls = {"create", "mkdir", "unlink", "rmdir", "rename", "exchange"}
  MaxCalls = 4 MaxTroubles = 1
INVARIANTS
  TypeOK
  CacheCoherent
  WorkEmpty
  ErrorsAreReal
PROPERTIES
  IsPlainTree
CHECK_DEADLOCK FALSE
