CONSTANTS
  Handlers = {h1}
  Writers = {w1, w2}
  Enabled = TRUE
  MaxEvents = 1
  Duration = 1
  MaxTime = 2
  MaxDatagrams = 1
  HTTPServers = {"data", "control"}
  PluginDisk <- MCPluginDisk
  EnabledLists <- MCEnabledLists
  ErrChCap = 3
  MaxBytes = 1
SPECIFICATION Spec
CHECK_DEADLOCK FALSE
INVARIANTS
  ReturnsReleased
  CleanEndDelivers
  RecordedWithinLimits
PROPERTIES
  EngineStops
  HandlerEnds
