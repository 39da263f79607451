SPECIFICATION Spec
CONSTANTS
  QMax = 2
  MaxEvents = 7
  MaxDrops = 1
  MaxSwitches = 1
  MaxFails = 1
INVARIANTS
  Conserved
  OrderKept
