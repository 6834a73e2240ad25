SPECIFICATION BSpec
CONSTANTS
  Task = {t1, t2, t3}
  NoTask = NoTask
  MaxHeld = 2
INVARIANT Exclusion
CHECK_DEADLOCK FALSE
