CONSTANTS
  small = small
  NoSize = NoSize
  Sizes = {small}
  MaxClients = 2
  MaxScreens = 2
  MaxEvents = 2
SPECIFICATION FairSpec
INVARIANTS
  TypeOK
  ClientsAreClosed
  FailureIsExplained
PROPERTIES
  StopEnds
  EventsAreSent
  RestartReconnects
  ScaledScreenCatchesUp
CHECK_DEADLOCK FALSE
