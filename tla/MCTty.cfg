SPECIFICATION Spec
CONSTANTS
  Clients = {"fs", "mm"}
  BufLen = 3
  MaxCount = 2
  Batch = 1
  MaxOpens = 1
  MaxTicks = 1
  Sessions <- AllSessions
INVARIANT OneAnswer
PROPERTY ImplementsLine
VIEW View
