CONSTANTS
  dialog = dialog
  tray = tray
  p1 = p1
  p2 = p2
  NoProcess = NoProcess
  Features = {dialog, tray}
  ManagedFeatures = {dialog}
  Processes = {p1, p2}
  MaxMessages = 3
  MaxRetries = 2
SPECIFICATION FairSpec
INVARIANTS
  TypeOK
  SocketsAreOwn
  OneWorkerPerFeature
PROPERTIES
  KeepsChannel
  PendingIsHandled
  NoProcessLeftBehind
