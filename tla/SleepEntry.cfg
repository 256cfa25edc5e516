SPECIFICATION Spec
CONSTANTS
  MaxRequests = 1
  MaxGen = 2
  MaxSlot = 0
  FirstOn = {TRUE}
  Faults = {"arm", "hold", "led", "wifi", "pins", "mount", "services"}
INVARIANTS
  SleepsQuiet
  KeepAwakeHonoured
  OpenIsWhole
  WakeIsRecognised
PROPERTIES
  EntryEnds
