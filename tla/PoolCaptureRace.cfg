SPECIFICATION Spec
CONSTANTS
  Threads = {t1, t2}
  Ptrs = {p1, p2}
  Leases = {l1}
  None = None
  ClassSizes <- MCClassSizes
  RequestSizes <- MCFewSizes
  Alignment = 2
  MaxSize = 7
  MaxGeneration = 2
  MaxUses = 2
  AsyncAlloc = TRUE
  HasStream = TRUE
  CaptureAnytime = TRUE
PROPERTIES
  CaptureReusesOnly
CHECK_DEADLOCK FALSE
