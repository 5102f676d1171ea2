CONSTANTS
  three = three
  mixed = mixed
  two = two
  rival = rival
  one = one
  other = other
  pair = pair
  r = r
  r1 = r1
  r2 = r2
  Plans = {three, mixed, two, rival}
  Recoveries = {}
  Procs = {p1, p2}
  Steps <- MCSteps
  Target <- MCTarget
  NoLock = NoLock
  NoSnapshot = NoSnapshot
  MaxFaults = 2
  MaxCrashes = 1
  Scenes <- ApplyScenes
SPECIFICATION MCSpec
CHECK_DEADLOCK FALSE
SYMMETRY MCSymmetry
INVARIANTS
  TypeOK
  HandlerCalledOnceAndJournaled
  ReportsOwnAttempt
  WriteSetExclusion
  ApprovedBeforeHandler
  PlanFollowsOperation
PROPERTIES
  CompensatedInReverse
  ReplayNeverHidesMutation
