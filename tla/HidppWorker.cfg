SPECIFICATION Spec
CONSTANTS
  Mice <- OneMouse
  Shell = "receiver"
  Dpis = {1, 2}
  Default = 1
  MaxApplies = 2
  MaxTrouble = 1
  MaxNotif = 1
CHECK_DEADLOCK FALSE
INVARIANTS
  HandedIsWritten
  PaintedForOwner
PROPERTIES
  FollowsHardware
  ThreadsEnd
