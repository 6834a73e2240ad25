SPECIFICATION Spec
CONSTANTS
  NumClients = 2
  NumTags = 2
  MaxSends = 2
  MaxReleases = 1
INVARIANTS
  TypeOK
  HeldOnce
  StatusIsOwn
  IdleMeansQuiet
  StrandedOnlyIfOvertaken
PROPERTIES
  EveryRequestAnswered
CHECK_DEADLOCK FALSE
