CONSTANTS
  Deliveries = {d1}
  Events = {v1}
  Payloads = {p1}
  Workers = {w1, w2}
  Limits = {2}
  Timeout = 2
  RetainAge = 2
  Delay = 1
  NoRow = NoRow
  MaxClock = 5
  MaxFaults = 0
  MaxCrashes = 0
  MaxSetbacks = 0
  Scenes <- ReclaimScenes
SPECIFICATION MCSpec
CHECK_DEADLOCK FALSE
SYMMETRY WebhookSymmetry
VIEW View
PROPERTIES
  ReclaimedOnlyWhenStale
