SPECIFICATION Spec
CONSTANTS
  Queues = {1}
  ChanCap = 1
  Callers = {c1, c2, c3}
  MaxConsumers = 1
  MaxQueued = 1
INVARIANT AddedBeforeWait
PROPERTIES KeepsContract EveryCallReturns
