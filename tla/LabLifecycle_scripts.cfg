SPECIFICATION Spec
CONSTANTS
  manager = manager
  win = win
  linux = linux
  Order <- FullOrder
  Windows = {win}
  Lean = {manager, linux}
  Backends = {"hyperv", "virtualbox"}
  Foreign = TRUE
  MaxRuns = 5
  MaxFaults = 3
INVARIANTS BuiltWhole RebuildsOnHyperV
PROPERTIES InstalledDisksKept NetworkGoesLast
CHECK_DEADLOCK FALSE
