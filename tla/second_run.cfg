SPECIFICATION Spec
CONSTANTS
  MaxCandidates = 1
  MaxRefusals = 1
INVARIANTS
  SecondRunChangesNothing
CHECK_DEADLOCK FALSE
