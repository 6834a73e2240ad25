SPECIFICATION Spec
CONSTANTS
  c1 = c1
  c2 = c2
  Client <- MCClient
  Sweep = Sweep
  User = User
  Hub = Hub
  Relay = Relay
  NoTask = NoTask
  Kinds <- MCKinds
  MaxSends = 2
  MaxSuspends = 2
  MaxFaults = 1
INVARIANTS
  TypeOK
  CountsRight
  NotHalfSuspended
PROPERTY EveryTransferEnds
CHECK_DEADLOCK FALSE
