SPECIFICATION Spec
CONSTANTS
  Contents <- MCContents
  Flags <- MCPortFlag
  Handlers = {h1, h2}
  MaxEdits = 1
  MaxSignals = 2
INVARIANTS CleanExit OnlyCheckedApplied
PROPERTIES AppliedForward SignalEnds ReloadAnswered
CHECK_DEADLOCK FALSE
