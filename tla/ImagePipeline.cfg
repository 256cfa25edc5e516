SPECIFICATION Spec
CHECK_DEADLOCK FALSE
CONSTANTS
  Full = 15
  One = 32
  Pictures <- MCPictures
  Palettes <- MCPalettes
  Changes <- MCChanges
  InitSettings <- MCInitSettings
  FirstPicture <- MCFirstPicture
  Panel <- MCPanel
  MaxEntries = 4
  MaxBytes = 15
  MaxChanges = 1
  MaxLoads = 1
  MaxFailures = 1
  MaxRuns = 2
INVARIANTS
  PipelineInv
PROPERTIES
  ResultIsFresh
  ErrorGoesForward
