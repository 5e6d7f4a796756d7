SPECIFICATION Spec
CONSTANTS
  Names = {"a", "b", "c", "d"}
  LowerNames = {"a", "b", "c"}
  Procs = {p1, p2}
  MaxCalls = 5
  MaxTroubles = 2
SYMMETRY Symmetry
INVARIANTS NlinkPersistent NlinkUnion IndexCovers
CHECK_DEADLOCK FALSE
