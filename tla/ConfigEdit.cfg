SPECIFICATION EditSpec
CONSTANTS
  Absent = absent
  Wrong = wrong
  Inf = inf
  Bad = bad
  Missing = missing
  Garbage = garbage
  absent = absent
  wrong = wrong
  inf = inf
  bad = bad
  missing = missing
  garbage = garbage
  Cut <- MCCut
  Trim <- MCTrim
  CopyNames <- MCCopyNames
  make_preset <- preset
  Clis = {c1, c2}
  Scenes <- MCScenes
CHECK_DEADLOCK FALSE
INVARIANTS SavedIsSound LoadIsStable WindowIsHonest
PROPERTIES OthersUntouched NothingSilent GuiKeepsOthers
