SPECIFICATION Spec
CONSTANTS
  MINUTE = 3
  HOUR = 6
  DAY = 12
  DAY_SLOTS = 2
  c1 = c1
  c2 = c2
  Ids = {c1, c2}
  AfterDelays <- MCAfterDelays
  EveryDelays <- MCEveryDelays
INVARIANTS
  OnTime
  KeptOnce
