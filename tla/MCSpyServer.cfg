SPECIFICATION Spec
CONSTANTS
  RequestedSize = 1
  Messages <- MCTwoMessages
  MaxSeq = 2
  Watchers = {c1, c2}
  Requests <- MCRequests
INVARIANTS TypeOK WindowContiguous ParkedNotEnough
PROPERTIES EveryRequestEnds ShutdownCompletes
CHECK_DEADLOCK FALSE
