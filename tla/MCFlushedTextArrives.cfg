CONSTANTS
  Layouts <- TsfLayouts
  NoLayout = NoLayout
  Code <- TsfCode
  Outputs <- TsfOutputs
  DeadIds <- TsfDeadIds
  NFC <- toNFC
  KWindow = 2
  Events <- TsfEvents
  Foreign = 0
  OtherDocs <- TsfDocs
  MaxDoc = 3
  Wide <- TsfWide
  Trail = 1
VIEW WithoutOp
SPECIFICATION Spec
PROPERTY FlushedTextArrives
