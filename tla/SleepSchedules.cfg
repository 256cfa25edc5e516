SPECIFICATION Spec
CONSTANTS
  MaxRequests = 1
  MaxGen = 2
  MaxSlot = 0
  FirstOn = {TRUE}
  Faults = {"save"}
INVARIANTS
  AckedSurvives
  DueIsFresh
