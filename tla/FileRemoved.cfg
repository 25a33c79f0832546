CONSTANTS
  m1 = m1
  c1 = c1
  essay = essay
  empty = empty
  NoFile = NoFile
  Masters = {m1}
  Computers = {c1}
  Selections <- OneOrBoth
  Options <- NoneOrAll
  Size <- MCSize
  Existing = {essay}
  MaxFiles = 2
  MaxLosses = 1
  MaxRetries = 0
SPECIFICATION Spec
INVARIANT UnwrittenFilesAreKept
CHECK_DEADLOCK FALSE
