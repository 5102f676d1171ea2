CONSTANTS
  three = three
  mixed = mixed
  two = two
  rival = rival
  one = one
  other = other
  pair = pair
  r = r
  r1 = r1
  r2 = r2
  Plans = {pair, one}
  Recoveries = {r, r1, r2}
  Procs = {p1, p2, p3}
  Steps <- MCSteps
  Target <- MCTarget
  NoLock = NoLock
  NoSnapshot = NoSnapshot
  MaxFaults = 2
  MaxCrashes = 2
  Scenes <- RecoverScenes
SPECIFICATION MCSpec
CHECK_DEADLOCK FALSE
SYMMETRY MCSymmetry
INVARIANTS
  LocksFollowOperations
  OutcomeTellsEffect
  InterruptedIsRecoverable
  OwnerNotOvertaken
PROPERTIES
  RecoveredAsPlanned
  ClosedStaysClosed
  ImplementsLedger
