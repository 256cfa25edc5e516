SPECIFICATION Spec
CHECK_DEADLOCK FALSE
CONSTANTS
  MaxSaves = 2
  MaxActs = 2
  MaxEvents = 1
INVARIANTS
  SetupInv
PROPERTIES
  DraftKept
  SaveEnds
