SPECIFICATION Spec
CONSTANTS
  None = None
  Values = {d, v, w}
  Default = d
  ReadFaults = {}
PROPERTIES
  RecordSpec
  Acknowledged
