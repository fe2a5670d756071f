SPECIFICATION DispatchSpec
CONSTANTS
  cpu = cpu
  accelerator = accelerator
  Threads = {t1}
  Backends <- MCBackends
  Unsupported = {other}
  Accelerator = accelerator
  DefaultType = accelerator
  DeviceCount <- MCDeviceCount
  MaxGuards = 2
  NotReady = 600
  VendorError = 700
  NDEBUG = FALSE
INVARIANTS
  GraphCallsReturn
