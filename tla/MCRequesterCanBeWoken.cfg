SPECIFICATION Spec
CONSTANTS
  Proc = {p1, p2}
  NBuf = 3
  NR_REQUEST = 3
  MaxFailed = 0
  None = None
SYMMETRY Symmetry
INVARIANTS RequesterCanBeWoken
