SPECIFICATION FairSpec
CONSTANTS
  NProcs = 2
  Callers = {"fs"}
  Ops = {"SET_SYNC_AL", "SET_TIME", "GET_TIME"}
  Deltas = {0, 1}
  Times = {0}
  HZ = 2
  SCHED_RATE = 2
  MaxTicks = 2
  MaxDelta = 1
INVARIANT NeverEarly
PROPERTIES NoAlarmOverlooked AlarmsGoOff
