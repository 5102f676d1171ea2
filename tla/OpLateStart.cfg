CONSTANTS
  three = three
  mixed = mixed
  two = two
  rival = rival
  one = one
  other = other
  pair = pair
  r = r
  r1 = r1
  r2 = r2
  Plans = {three}
  Recoveries = {}
  Procs = {p1, p2}
  Steps <- MCSteps
  Target <- MCTarget
  NoLock = NoLock
  NoSnapshot = NoSnapshot
  MaxFaults = 0
  MaxCrashes = 0
  Scenes <- PlainScenes
SPECIFICATION MCSpec
CHECK_DEADLOCK FALSE
SYMMETRY MCSymmetry
PROPERTIES
  ExpiredPlanCallsNoHandler
