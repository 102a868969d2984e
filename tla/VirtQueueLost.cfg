SPECIFICATION Spec
CONSTANTS
  Tasks = {t1, t2}
  QueueSize = 4
  IndexSpan = 8
  ChainLens = {2}
  None = None
PROPERTY AwaitedRequestCompletes
