SPECIFICATION SafetySpec
CONSTANTS
  Queues = {1, 2}
  ChanCap = 1
  Callers = {c1}
  Configs <- MCConfigs
  Contents = {"order"}
  MaxMsgs = 0
  MaxGen = 2
  MayDrop = FALSE
INVARIANT StaysSubscribed
