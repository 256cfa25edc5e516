SPECIFICATION Spec
CHECK_DEADLOCK FALSE
CONSTANTS
  MaxActs = 4
PROPERTIES
  SettingsGuarded
  SnapshotAdvances
