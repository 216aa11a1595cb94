SPECIFICATION CSpec
CONSTANTS
  Queues = {1}
  ChanCap = 1
  Callers = {main}
  Configs <- MCConfigs
  Contents = {"order"}
  MaxMsgs = 1
  MaxGen = 1
  MayDrop = TRUE
  RequestedSize = 2
  MaxSeq = 3
  Watchers = {c1}
  Requests <- MCRequests
INVARIANT TriggerBeforeResponse
PROPERTIES CaptureComplete ResponseServed WaitServed
CHECK_DEADLOCK FALSE
