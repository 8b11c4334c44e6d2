SPECIFICATION Spec
CONSTANTS
  c1 = c1
  c2 = c2
  f1 = f1
  f2 = f2
  w1 = w1
  w2 = w2
  NoJob = NoJob
  NoClient = NoClient
  NoConn = NoConn
  Client <- OneClient
  Fd <- OneFd
  Worker <- TwoWorkers
  Scripts <- Closings
  Faults <- Leaves
  MaxRequest = 3
  MaxOutput = 2
  SendBuffer = 1
  IdleTimeout = FALSE
  MaxQueue = 1
  MaxConnections = 1
  AcceptBatch = 1
  MaxSignals = 2
INVARIANTS
  OutputNotStranded
  OnlyDetachedOutlive
PROPERTIES
  CloseIsClean
  DrainTakesNoWork
