SPECIFICATION FairSpec
CONSTANTS
  Proc = {p1}
  NBuf = 3
  NR_REQUEST = 3
  MaxFailed = 0
  None = None
PROPERTIES RequestEnds
