CONSTANTS
  Versions = {1, 2}
  Ids = {"a", "b"}
  Bundled <- MCBundled
  Defaults <- MCDefaults
  Values = {0, 1}
  OldKey = "enable"
  NewKey = "enabled"
  Unknown = {"future"}
  SessionKeys = {"enabled"}
  NoFile = NoFile
  NoVersion = NoVersion
  Absent = Absent
  Torn = Torn
  Shipped = Shipped
  Edited = Edited
  NotRun = NotRun
SPECIFICATION Spec
PROPERTIES
  NewLayoutsAreSeeded
