SPECIFICATION FairSpec
CONSTANTS
  A = A
  B = B
  Configs <- TwoConfigs
  FactoryConfig = A
  None = None
  MaxIds = 3
  MaxReloads = 1
  MaxEdits = 1
  MaxFaults = 1
  MaxStops = 1
  MaxTotal = 2
INVARIANTS
  FileLeads
PROPERTIES
  IsMailbox
  StopCompletes
  SettlesOnDisk
