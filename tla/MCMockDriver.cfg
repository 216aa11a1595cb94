SPECIFICATION Spec
CONSTANTS
  Callers = {h1, h2, h3}
  Queues = {q}
  Channels = {c}
  ChanCap = 1
  MaxPublished = 1
PROPERTY CloseReleases
