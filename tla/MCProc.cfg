SPECIFICATION Spec
CONSTANTS
  IDLE = IDLE
  HARDWARE = HARDWARE
  CLOCK = CLOCK
  TTY = TTY
  MM = MM
  FS = FS
  ANY = ANY
  NIL = NIL
  U1 = U1
  U2 = U2
  Tasks <- MCTasks
  Servers <- MCServers
  Users = {}
  Reserved = {}
  Calls <- MCCalls
  BootQueue <- MCBootQueue
VIEW View
INVARIANTS
  ReadyQueueOK
  OwnerOK
  CallerQueueOK
  NoSendCycle
  NoMissedRendezvous
  BlockedFrameOK
PROPERTIES
  CallsEndWithTheirMessage
  CallerQueueFifo
