SPECIFICATION Spec
CONSTANTS
  A = A
  B = B
  Configs <- TwoConfigs
  FactoryConfig = A
  None = None
  MaxIds = 2
  MaxReloads = 0
  MaxEdits = 0
  MaxFaults = 0
  MaxStops = 0
  MaxTotal = 0
INVARIANTS
  AcceptedPushWins
