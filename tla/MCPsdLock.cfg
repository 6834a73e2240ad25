SPECIFICATION Spec
CONSTANTS
  Task = {t1, t2, t3}
  NoTask = NoTask
  MaxHeld = 3
INVARIANTS
  TypeOK
  Exclusion
  UnlockHonoured
  NoLostWakeup
PROPERTIES
  WaitersServed
  ImplementsRWLock
CHECK_DEADLOCK FALSE
