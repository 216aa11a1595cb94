SPECIFICATION Spec
CONSTANTS
  Queues = {1}
  ChanCap = 1
  Callers = {c1}
  Configs <- MCEchoConfigs
  Contents = {"order"}
  MaxMsgs = 2
  MaxGen = 2
  MayDrop = TRUE
PROPERTIES
  StopCompletes EveryMessageRecorded EveryDispatchEnds
