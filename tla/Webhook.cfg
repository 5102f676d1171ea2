CONSTANTS
  Deliveries = {d1, d2}
  Events = {v1, v2}
  Payloads = {p1, p2}
  Workers = {w1, w2}
  Limits = {1, 2}
  Timeout = 2
  RetainAge = 2
  Delay = 1
  NoRow = NoRow
  MaxClock = 5
  MaxFaults = 1
  MaxCrashes = 1
  MaxSetbacks = 1
  Scenes <- SafetyScenes
SPECIFICATION MCSpec
CHECK_DEADLOCK FALSE
SYMMETRY WebhookSymmetry
VIEW View
INVARIANTS
  TypeOK
  AcceptedIsKept
  ClaimIdentity
PROPERTIES
  DuplicatesComeFromErrors
  LatestAttemptSettles
  TerminalIsFinal
