\* The caret moves only by keys the hook sees.
CONSTANTS
  Layouts <- ShippedLayouts
  NoLayout = NoLayout
  Code <- ShippedCode
  Outputs <- ShippedOutputs
  DeadIds <- ShippedDeadIds
  NFC <- toNFC
  KWindow = 3
  Events <- ShippedEvents
  Foreign = 0
  OtherDocs <- NoDocs
  MaxDoc = 4
SPECIFICATION Spec
PROPERTY NoForeignTextLost
