SPECIFICATION SafetySpec
CONSTANTS
  Queues = {1, 2}
  ChanCap = 1
  Callers = {c1, c2}
  Configs <- MCConfigs
  Contents = {"order"}
  MaxMsgs = 2
  MaxGen = 2
  MayDrop = TRUE
INVARIANTS
  DriverUsedOpen DrainedBeforeClose NoMessageLost RecordedInOrder
  NeverAnswersChitchat OneRuleSetPerMessage HitsExact OneConsumerPerQueue
PROPERTY QuietAfterStop
SYMMETRY MCSymmetry
