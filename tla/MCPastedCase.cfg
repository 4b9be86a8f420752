CONSTANTS
  NoClip = NoClip
  kMaxHistory = 1
  NewMeta = "new"
  Opened <- MCOpened
  KeyVks = {49, 65}
  KeyActions = {}
  Metas = {"copy"}
  CapsModes = {}
  Normalizes = {}
  DeadKeyDefs = {}
  ComposeLists = {}
  LigatureLists = {}
  MaxEdits = 5
  Paths = {p1}
  NoPath = NoPath
  DialogEntries <- MCDialogEntries
  CopyOf <- MCCopyOf
  NoTyping = NoTyping
  kMaxRecent = 1
  MaxFaults = 0
  MaxWrites = 1
VIEW WithoutSaved
SPECIFICATION DesignerSpec
PROPERTIES
  SavedTextReadsBack
