CONSTANTS
  Layouts <- MCLayouts
  NoLayout = NoLayout
  Code <- MCCode
  Outputs <- MCOutputs
  DeadIds <- MCDeadIds
  NFC <- toNFC
  KWindow = 2
  Events <- MCEvents
  Foreign = 0
  OtherDocs <- MCOtherDocs
  MaxDoc = 3
VIEW WithoutOp
SPECIFICATION Spec
INVARIANTS
  TypeOK
  SyncedWindow
  ModesExclusive
  ComposeBufferLive
  IdleWhenDisabled
  WindowNormalized
PROPERTIES
  TypingKeepsForeignText
  LigaturesSettled
