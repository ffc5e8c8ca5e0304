SPECIFICATION Spec
CONSTANTS
  Clients = {"fs"}
  BufLen = 2
  MaxCount = 1
  Batch = 1
  MaxOpens = 1
  MaxTicks = 1
  Sessions <- RawSessions
PROPERTY RawInputIsKept
VIEW View
