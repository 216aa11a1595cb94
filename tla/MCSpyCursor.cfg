SPECIFICATION Spec
CONSTANTS
  RequestedSize = 2
  Messages <- MCMessages
  MaxSeq = 5
  Watchers = {"all", "some"}
  PollQuery <- MCPollQuery
INVARIANT GivenAsRecorded
PROPERTY CaptureLogSpec
