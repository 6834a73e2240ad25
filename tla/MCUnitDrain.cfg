SPECIFICATION Spec
CONSTANTS
  NumClients = 2
  NumTags = 2
  MaxSends = 2
  MaxReleases = 1
PROPERTIES
  DrainEnds
CHECK_DEADLOCK FALSE
