SPECIFICATION Spec
CONSTANTS
  Sessions = {s1, s2}
  NoSession = NoSession
  Graphical = {s1, s2}
  Processes = {1, 2, 3, 4}
  NoProcess = 0
  SessionIdMax = 1
  MaxKills = 1
CHECK_DEADLOCK FALSE
PROPERTY StopsOwnServerOnly
