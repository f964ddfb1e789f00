SPECIFICATION Spec
CONSTANTS
  bare = bare
  full = full
  Ids = {p1, p2}
  Definitions = {full}
  PlacesOf <- AllOrNone
  MaxTicks = 2
  Outcomes = {"READY", "STOPPED", "PENDING", "raised"}
  None = None
SYMMETRY Symmetry
INVARIANTS TypeOK RefusalHolds TruthHomeBlocks ReadyIsGrounded  
CHECK_DEADLOCK FALSE
