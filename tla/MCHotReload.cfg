CONSTANTS
  p1 = p1
  p2 = p2
  Paths <- MCPaths
  Stem <- MCStem
  Texts <- MCTexts
  Broken = Broken
  Absent = Absent
  NoLayout = NoLayout
  NoId = NoId
  NoPath = NoPath
  NoWrite = NoWrite
  DefaultId = "a"
  Initial <- MCInitial
  MaxTime = 4
SPECIFICATION Spec
INVARIANTS
  TypeOK
  UpToDateIsFresh
PROPERTIES
  LayoutNeverLost
  SavedEditsArrive
