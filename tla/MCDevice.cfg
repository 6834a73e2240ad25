SPECIFICATION Spec
CONSTANTS
  User = {u1, u2}
  Hub = Hub
  Remover = Remover
  Sweeper = Sweeper
  NoTask = NoTask
INVARIANTS
  TypeOK
  FreeOnlyUnused
  NoReentry
  FreedOnceUnlessRaced
CHECK_DEADLOCK FALSE
