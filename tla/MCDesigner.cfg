CONSTANTS
  NoClip = NoClip
  kMaxHistory = 1
  NewMeta = "new"
  Opened <- MCOpened
  KeyVks <- MCKeyVks
  KeyActions = {}
  Metas = {"copy"}
  CapsModes = {}
  Normalizes = {}
  DeadKeyDefs = {}
  ComposeLists = {}
  LigatureLists = {}
  MaxEdits = 4
  Paths = {p1, p2}
  NoPath = NoPath
  DialogEntries <- MCDialogEntries
  CopyOf <- MCCopyOf
  NoTyping = NoTyping
  kMaxRecent = 1
  MaxFaults = 1
  MaxWrites = 2
SYMMETRY PathSymmetry
VIEW WithoutSaved
SPECIFICATION DesignerSpec
INVARIANTS
  TypeOK
  OneFaultLosesNothing
  CleanMeansOnDisk
  PreviewIsCurrent
