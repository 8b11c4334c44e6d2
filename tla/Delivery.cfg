CONSTANTS
  NumberCap = 5
  SizeMax = 16
  Least <- MCLeast
  Most <- MCMost
  Defaults <- MCDefaults
  CommandLines <- MCCommandLines
  Junk = Junk
  NaN = NaN
  Good = Good
  Bad = Bad
  Scripts <- MCScripts
  SendRoom = 2
SPECIFICATION Spec
INVARIANTS
  MismatchIsLast
  PersistenceAgreed
  OutputBounded
  
  PortFileIsWhole
  AcceptedConfigIsValid
  ConfigAsAsked
PROPERTIES
  ImplementsChannel
  EveryResponseDelivered
