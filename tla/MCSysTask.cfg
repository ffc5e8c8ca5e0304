SPECIFICATION Spec
CONSTANTS
  NProcs = 2
  MaxPend = 2
  Asked <- Served
  Wrecks <- Wreck
INVARIANTS FlagsInStep CallersAreSending
