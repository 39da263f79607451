SPECIFICATION FairSpec
CONSTANTS
  p1 = p1
  p2 = p2
  p3 = p3
  d1 = d1
  d2 = d2
  Main = Main
  Editor = Editor
  AnyId = AnyId
  NoFocus = NoFocus
  NoProfile = NoProfile
  Names <- OneName
  Apps <- OneApp
  Ids <- TwoIds
  Paths <- ThreePaths
  IdOf <- Mixed
  Rdevs <- TwoRdevs
  Configs <- AllConfigs
  DenyTicks = 2
  PeriodTicks = 1
  StartFaults <- NoEpoll
  ScanFaults <- AllFaults
  MaxPlugs = 2
  MaxFaults = 1
  MaxChanges = 1
INVARIANTS
  HoldsAreSound
  ConfigObeyed
  NoMouseForgotten
PROPERTIES
  LiveUpdateKeepsGrabs
  MiceComeBack
