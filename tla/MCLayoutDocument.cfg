CONSTANTS
  NoClip = NoClip
  kMaxHistory = 2
  NewMeta = "new"
  Opened <- MCOpened
  KeyVks <- MCKeyVks
  KeyActions <- MCKeyActions
  Metas = {"meta"}
  CapsModes = {"Invert"}
  Normalizes = {FALSE}
  DeadKeyDefs <- MCDeadKeyDefs
  ComposeLists <- MCComposeLists
  LigatureLists <- MCLigatureLists
  MaxEdits = 3
SPECIFICATION Spec
INVARIANTS
  HistoryBounded
  CleanMeansSaved
  EditedLayoutsWellFormed
PROPERTIES
  UndoIsACursor
  EditsLeaveNoEmptyKey
