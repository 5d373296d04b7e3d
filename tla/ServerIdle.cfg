SPECIFICATION Spec
CONSTANTS
  f1 = f1
  f2 = f2
  Fds = {f1, f2}
  Reported = 1
  Period = 2
  MINUTE = 3
  HOUR = 3
  DAY = 3
  DAY_SLOTS = 2
CHECK_DEADLOCK FALSE
INVARIANT IdleDropped
