CONSTANTS
  Deliveries = {d1}
  Events = {v1}
  Payloads = {p1}
  Workers = {w1}
  Limits = {1, 2}
  Timeout = 2
  RetainAge = 2
  Delay = 1
  NoRow = NoRow
  MaxClock = 7
  MaxFaults = 1
  MaxCrashes = 1
  MaxSetbacks = 1
SPECIFICATION LiveSpec
CHECK_DEADLOCK FALSE
PROPERTIES
  EveryDeliveryEnds
