SPECIFICATION Spec
CONSTANTS
  Ids <- MCIds
  Levels = {0, 1, 2}
  Bad = 3
  Default <- MCDefault
  Theirs <- MCTheirs
  MaxEdits = 2
  MaxWrites = 2
  MaxMounts = 2
  MaxEvents = 2
INVARIANTS
  CalibrationInv
PROPERTIES
  DraftKept
  SyncsAgain
CHECK_DEADLOCK FALSE
