SPECIFICATION Spec
CONSTANTS
  Mounts = {m1, m2}
  Scenarios <- MCScenarios
  Handles <- MCHandles
  Uuid <- MCUuid
  NoXattrs = {"o"}
  ReadOnly = {"r"}
  RedirectDef = "off"
  AlwaysFollow = TRUE
  MetacopyDef = TRUE
  HighBits = 8
  OVL_MAX_STACK = 2
  MaxMounts = 3
  MaxTroubles = 1
SYMMETRY Symmetry
INVARIANTS InUseMatched TrapsReleased ExclusiveUpper NoNestedUse NoOverlap
  ConfigSound IndexBelongs 
CHECK_DEADLOCK FALSE
