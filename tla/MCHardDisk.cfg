SPECIFICATION FairSpec
CONSTANTS
  NR_SECTS = 5
  MAX_ERRORS = 7
  MaxQueue = 2
INVARIANTS TypeOK CommandIsCurrent SuccessIsComplete
PROPERTIES RequestEnds
