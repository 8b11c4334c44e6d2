SPECIFICATION MessageSpec
CONSTANTS
  MaxLine = 3
  MaxHeader = 9
  MaxBody = 3
  MaxRequest = 52
  MaxFields = 2
  MaxNumber = 40
  Streams <- AllStreams
  Inputs <- AllInputs
INVARIANTS
  TypeOK
  LimitsHold
  NothingSkipped
  StateIsConsistent
  RequestsAsSent
PROPERTIES
  ParseReturns
