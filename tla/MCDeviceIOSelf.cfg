SPECIFICATION Spec
CONSTANTS
  c1 = c1
  c2 = c2
  Client <- MCClient
  Sweep = Sweep
  User = User
  Hub = Hub
  Relay = Relay
  NoTask = NoTask
  Kinds <- MCSelfKinds
  MaxSends = 2
  MaxSuspends = 1
  MaxFaults = 0
PROPERTY SuspendedTransferEnds
CHECK_DEADLOCK FALSE
