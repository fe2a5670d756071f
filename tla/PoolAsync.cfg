SPECIFICATION Spec
CONSTANTS
  Threads = {t1, t2}
  Ptrs = {p1, p2}
  Leases = {l1, l2}
  None = None
  ClassSizes <- MCClassSizes
  RequestSizes <- MCFewSizes
  Alignment = 2
  MaxSize = 7
  MaxGeneration = 2
  MaxUses = 2
  AsyncAlloc = TRUE
  HasStream = TRUE
  CaptureAnytime = FALSE
SYMMETRY Symmetry
INVARIANTS
  TypeOK
  PinAccounting
  PinnedStaysMapped
  FreeListExact
  NoDanglingNoLeak
  TransactionClean
  TransactionCapturesOwn
  OwnersKeepOpen
PROPERTIES
  TeardownOrder
  CaptureReusesOnly
  ImplementsPinnedHeap
CHECK_DEADLOCK FALSE
