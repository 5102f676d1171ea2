CONSTANTS
  Deliveries = {d1, d2}
  Events = {v1, v2}
  Payloads = {p1, p2}
  Workers = {w1}
  Limits = {2}
  Timeout = 2
  RetainAge = 2
  Delay = 1
  NoRow = NoRow
  MaxClock = 2
  MaxFaults = 1
  MaxCrashes = 0
  MaxSetbacks = 0
  Scenes <- DuplicateScenes
SPECIFICATION MCSpec
CHECK_DEADLOCK FALSE
SYMMETRY WebhookSymmetry
VIEW View
INVARIANTS
  OneLiveRowPerPayload
