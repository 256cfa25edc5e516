SPECIFICATION FairSpec
CONSTANTS
    Clients = {c1}
    MaxOps = 1
    FirstImages = {"good"}
    UploadDrain = 1
    RestartDrain = 2
    Cool = 1
    ClockMod = 2
PROPERTIES
  DrawCompletes
  DrainEnds
  CooldownEnds
