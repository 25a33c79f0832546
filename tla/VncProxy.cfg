CONSTANTS
  c1 = c1
  c2 = c2
  c3 = c3
  Connections = {c1, c2, c3}
  Silent = {c2, c3}
  Kinds <- AllKinds
  Pieces = 2
  MaxMessages = 2
SPECIFICATION FairSpec
INVARIANTS
  TypeOK
  StreamsAreExact
PROPERTIES
  HandshakesEnd
  MessagesArrive
  ClosedIsDeleted
CHECK_DEADLOCK FALSE
