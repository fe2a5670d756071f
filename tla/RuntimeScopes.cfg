SPECIFICATION DispatchSpec
CONSTANTS
  cpu = cpu
  accelerator = accelerator
  Threads = {t1, t2}
  Backends <- MCBackends
  Unsupported = {other}
  Accelerator = accelerator
  DefaultType = accelerator
  DeviceCount <- MCDeviceCount
  MaxGuards = 2
  NotReady = 600
  VendorError = 700
  NDEBUG = FALSE
SYMMETRY Symmetry
VIEW Lasting
INVARIANTS
  InitializedBeforeUse
  FreedWhenUnused
PROPERTIES
  GuardSelects
  ScopeRestores
  PollTruthful
