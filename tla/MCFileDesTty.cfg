SPECIFICATION Spec
CONSTANTS
  ProcFds = 1
  Machines <- LaunchMachines
PROPERTIES LaunchesUseTty
