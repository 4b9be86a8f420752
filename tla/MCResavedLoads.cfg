CONSTANTS
  Scalar <- MCScalar
  fromName <- MCFromName
  toName <- MCToName
  NoVk = 0
  Templates <- MCTemplates
  KeyNodes <- MCKeyNodes
  DeadNodes <- MCDeadNodes
  LigatureNodes <- MCLigatureNodes
  ComposeNodes <- MCComposeNodes
  Behaviors <- MCBehaviors
  Buffers <- Strings
  MaxEntries = 3
SPECIFICATION FileSpec
PROPERTY ResavedLoads
