SPECIFICATION Spec
CONSTANTS
  Requests <- SomeCalls
  Regs <- Registers
  RegNibble <- Nibble
  EventDev = 1
  EventSub = "dpi"
  SwMax = 2
  SwFirst = 2
  StashCap = 1
  DrainMax = 2
  RxCap = 2
  MaxReq = 2
  MaxEvents = 3
CHECK_DEADLOCK FALSE
INVARIANTS
  AnswersAreOwn
  DrainedInOrder
  NotificationsKept
PROPERTIES
  EveryRequestEnds
