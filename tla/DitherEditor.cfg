SPECIFICATION EditorSpec
CHECK_DEADLOCK FALSE
CONSTANTS
  MaxLoads = 2
  MaxChanges = 1
  MaxRevisions = 1
  Pictures <- MCPictures
  PanelRatios <- MCPanelRatios
  Asks <- MCAsks
  CropTools <- MCCropTools
  Lengths = {0, 1, 2, 3, 480, 800, 4095, 4096, 5000}
  Fingers = {1, 2, 3}
  Places = {0, 1}
INVARIANTS
  EditorInv
  ProjectsOpen
  CropInv
PROPERTIES
  FreshCommit
  OperationReleased
