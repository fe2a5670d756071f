SPECIFICATION FairSpec
CONSTANTS
  Threads = {t1, t2}
  Ptrs = {p1}
  Leases = {l1, l2}
  None = None
  ClassSizes <- MCClassSizes
  RequestSizes <- MCRequestSizes
  Alignment = 2
  MaxSize = 7
  MaxGeneration = 1
  MaxUses = 1
  AsyncAlloc = TRUE
  HasStream = TRUE
  CaptureAnytime = FALSE
PROPERTIES
  CallsReturn
  LastOwnerTearsDown
CHECK_DEADLOCK FALSE
