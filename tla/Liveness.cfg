SPECIFICATION FairSpec
CONSTANTS
  c1 = c1
  c2 = c2
  f1 = f1
  f2 = f2
  w1 = w1
  w2 = w2
  NoJob = NoJob
  NoClient = NoClient
  NoConn = NoConn
  Client <- TwoClients
  Fd <- TwoFds
  Worker <- OneWorker
  Scripts <- Get
  Faults <- None
  MaxRequest = 3
  MaxOutput = 2
  SendBuffer = 1
  IdleTimeout = FALSE
  MaxQueue = 1
  MaxConnections = 2
  AcceptBatch = 1
  MaxSignals = 1
PROPERTIES
  EveryRequestAnswered
  ShutdownTerminates
