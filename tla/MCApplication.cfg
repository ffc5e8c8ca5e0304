SPECIFICATION FairSpec
CONSTANTS
  NSlots = 2
  PidMin = 1
  PidMax = 3
  NWaits = 2
  CP32_APP_TEXT <- Text
  CP32_APP_TEXT_END <- TextEnd
  CP32_APP_DATA <- Data
  CP32_APP_STACK <- Stack
  CP32_APP_TOP <- Top
  StackArea = 512
  VectorMax = 32
  Environment <- EnvLengths
  Images <- ProgramFiles
  Arguments <- ArgLengths
  Increments <- Steps
  NBlocks = 2
  Ops <- AllOps
  MaxTicks = 0
INVARIANTS
  BlocksAreAccounted
  StatusesAreKept
  NoPanic
  MemoryIsDivided
PROPERTIES
  ParentIsRestored
  RequestsEnd
