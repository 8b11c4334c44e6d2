SPECIFICATION Spec
CONSTANTS
  c1 = c1
  c2 = c2
  f1 = f1
  f2 = f2
  w1 = w1
  w2 = w2
  NoJob = NoJob
  NoClient = NoClient
  NoConn = NoConn
  Client <- TwoClients
  Fd <- TwoFds
  Worker <- TwoWorkers
  Scripts <- Get
  Faults <- AcceptFaults
  MaxRequest = 3
  MaxOutput = 1
  SendBuffer = 1
  IdleTimeout = FALSE
  MaxQueue = 1
  MaxConnections = 2
  AcceptBatch = 1
  MaxSignals = 0
INVARIANTS
  ResponsesInOrder
  InFlightIsExact
  CompletionNotStranded
  EventsReachTheirConnection
  ReapIsExact
  ListenerNotQuiet
  OnlyDetachedOutlive
