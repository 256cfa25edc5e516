SPECIFICATION Spec
CHECK_DEADLOCK FALSE
CONSTANTS
  MaxRuns = 2
  MaxEvents = 1
  MaxHolds = 1
INVARIANTS
  PanelInv
PROPERTIES
  ProgressNeverFalls
  OperationEnds
