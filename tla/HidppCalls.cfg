SPECIFICATION CallsSpec
CONSTANTS
  Candidates <- Indices
  Topologies <- Plugged
  RegistersOf <- Registers
  Identity <- Identities
  Legacy = {"00"}
  NameChunks = 1
  FwRecords = 2
  ListChunks <- Chunks
  DpiX = 800
  DpiY = 1600
  ChunkMax = 8
  Rates <- Rated
  RateCode <- Coded
  TableSlots <- Table
  Bolts <- Boltlike
  Slots = 3
  Occupied = {1, 3}
  Sectors = 2
  Controls = 2
  Calls <- SomeCalls
  Timeout = 2
  Budget = 3
  Streak = 2
  MaxCalls = 2
  MaxTrouble = 2
  MaxButtons = 1
CHECK_DEADLOCK FALSE
INVARIANTS
  TrueIsDone
  OthersKept
  TargetsKeptApart

  
