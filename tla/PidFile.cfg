SPECIFICATION Spec
CONSTANTS
  a = a
  b = b
  c = c
  Pids <- ThreePids
  N = 2
  MaxStarts = 4
  MaxCrashes = 2
  MaxStops = 1
  MaxFails = 1
SYMMETRY Symmetry
CHECK_DEADLOCK FALSE
INVARIANTS
  OneDaemon
PROPERTIES
  StaleFilesDoNotBrick
