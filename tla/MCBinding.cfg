SPECIFICATION Spec
CONSTANTS
  Class = {hub, hid}
  Parent = {hub}
  Iface = {if1}
  User = {u1, u2}
  Dev = dev
  None = none
  MaxCalls = 3
INVARIANTS
  TypeOK
  BindingsAccounted
  ClosedUnused
PROPERTIES
  LeakedOnlyIfReleased
  EveryTaskEnds
CHECK_DEADLOCK FALSE
