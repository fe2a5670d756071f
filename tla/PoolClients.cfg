SPECIFICATION ClientSpec
CONSTANTS
  Threads = {t1, t2}
  Ptrs = {p1, p2}
  Leases = {l1}
  None = None
  ClassSizes <- MCClassSizes
  RequestSizes <- MCRequestSizes
  Alignment = 2
  MaxSize = 7
  MaxGeneration = 1
  MaxUses = 3
  AsyncAlloc = FALSE
  HasStream = FALSE
  CaptureAnytime = FALSE
SYMMETRY Symmetry
INVARIANTS
  UseCountIsOwnership
  OwnedIsUsable
CHECK_DEADLOCK FALSE
