SPECIFICATION FairSpec
CONSTANTS
  Clients = {"fs"}
  BufLen = 2
  MaxCount = 2
  Batch = 1
  MaxOpens = 1
  MaxTicks = 1
  Sessions <- LiveSessions
PROPERTIES RequestsAreAnswered InputReachesReader
