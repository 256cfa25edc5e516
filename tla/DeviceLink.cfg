SPECIFICATION Spec
CONSTANTS
  MaxEvents = 2
INVARIANTS
  LinkInv
PROPERTIES
  LinkSettles
