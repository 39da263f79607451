SPECIFICATION Spec
CONSTANTS
  p1 = p1
  p2 = p2
  Procs <- TwoProcs
  Faults <- AllFaults
  MaxSaves = 3
  MaxFails = 1
  MaxKills = 1
  MaxLosses = 1
SYMMETRY Symmetry
CHECK_DEADLOCK FALSE
INVARIANTS
  LiveIsSound
  BackupIsPrevious
