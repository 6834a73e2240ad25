SPECIFICATION Spec
CONSTANTS
  e1 = e1
  e2 = e2
  Device <- MCDevice
  Ep <- MCEp
  DevOf <- MCDevOf
  NoDevice = 0
  NoEp = NoEp
  MaxUpsets = 1
INVARIANTS
  TypeOK
  MarkAnnounced
PROPERTIES
  OneClearUnlessLate
  MarksAndHaltsEnd
CHECK_DEADLOCK FALSE
