SPECIFICATION Spec
CONSTANTS
  Daemons = {"d1", "d2"}
  Conns <- MCConns
  Request <- MCRequest
  Strangers = {"out"}
  Deaf = {"deaf"}
  Scenarios <- MCScenarios
  Backlog = 2
  RecvTimeout = 2
  SendTimeout = 1
  Deadline = 3
  BodyDeadline = 2
  Cli = {"cli"}
  ReloadOf <- MCReloadOf
  Gui <- MCGui
  Eager = {"cli", "clir", "gui1", "gui2"}
INVARIANTS ClaimIsHonest AckedIsSaved ServiceBounded LiveSocketKept
PROPERTIES EveryoneServed StatusIsNewest
CHECK_DEADLOCK FALSE
