SPECIFICATION Spec
CONSTANTS
  NProcs = 2
  Callers = {"fs"}
  Ops = {"SET_ALARM"}
  Deltas = {1, 3}
  Times = {0}
  HZ = 2
  SCHED_RATE = 2
  MaxTicks = 6
  MaxDelta = 3
INVARIANT DelaysOneTick
