SPECIFICATION Spec
CONSTANTS
  Streams = {s1, s2}
  Models = {m1, m2}
  Execs = {e1, e2}
  None = None
  Environments <- MCEnvironments
  ExecsBeforeGraph = TRUE
SYMMETRY Symmetry
INVARIANTS
  NoNullCall
  ModelsOwned
  ExecutableStaysLive
