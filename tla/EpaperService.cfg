SPECIFICATION RestSpec
CONSTANTS
  Clients = {c1, c2}
  MaxOps = 2
  FirstImages = {"none", "good", "bad"}
  UploadDrain = 1
  RestartDrain = 2
  Cool = 2
  ClockMod = 4
SYMMETRY Symmetry
INVARIANTS
  ServiceInv
  AcceptedWorkOwned
  MarkerCoversPower
  IdleMeansRested
  ApprovedIsSafe
PROPERTIES
  CompletesItsDraw
  ProtectionSpec
