SPECIFICATION SafetySpec
CONSTANTS
  Contents <- MCContents
  Flags <- MCNoFlags
  Handlers = {h1}
  MaxEdits = 1
  MaxSignals = 0
INVARIANT UnappliedFlagged
CHECK_DEADLOCK FALSE
