CONSTANTS
  three = three
  mixed = mixed
  two = two
  rival = rival
  one = one
  other = other
  pair = pair
  r = r
  r1 = r1
  r2 = r2
  Plans = {one, other}
  Recoveries = {}
  Procs = {p1, p2}
  Steps <- MCSteps
  Target <- MCTarget
  NoLock = NoLock
  NoSnapshot = NoSnapshot
  MaxFaults = 0
  MaxCrashes = 1
  Scenes <- ContendScenes
SPECIFICATION MCFairSpec
CHECK_DEADLOCK FALSE
PROPERTIES
  EveryApplyEnds
