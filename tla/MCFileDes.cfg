SPECIFICATION Spec
CONSTANTS
  ProcFds = 2
  Machines <- BothMachines
INVARIANTS
  OwnedOnce
  OpenIsKept
PROPERTIES
  ParentKeepsFiles
  SizesAreFresh
VIEW View
