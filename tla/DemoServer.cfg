CONSTANTS
  c1 = c1
  Clients = {c1}
  Width = 3
  MemoryLimit = 2
  MaxUnread = 2
  MaxMoved = 1
  MaxChanges = 2
  MaxBreaks = 1
SPECIFICATION FairSpec
INVARIANTS
  TypeOK
  PictureIsExact
PROPERTY
  PictureCatchesUp
CHECK_DEADLOCK FALSE
