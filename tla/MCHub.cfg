SPECIFICATION Spec
CONSTANTS
  NumPorts = 2
  Tries = 2
  MaxPlugs = 2
  MaxCalls = 2
  MaxErrors = 1
  MaxEvents = 3
INVARIANTS
  TypeOK
  NoSleepOverWork
  AnswerReachesCaller
  SlotsFollowPorts
  NothingLeft
PROPERTIES
  OneSubmitter
  EveryoneGoesOn
CHECK_DEADLOCK FALSE
