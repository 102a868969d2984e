SPECIFICATION Spec
CONSTANTS
  RingSize = 4
  RxLen = 3
  TxLen = 2
  QueueSize = 2
  RX_BUFFER_SIZE = 32
  CaprGap = 16
  Sizes = {1, 4, 9}
  Packets = {p, q}
  Frames = {p}
  NoPacket = NoPacket
  EIO = EIO
  Tasks = {t1}
  TableSize = 4
  IndexSpan = 8
  ChainLens = {2, 3}
  None = None
  Speeds = {100, 1000}
  MaxChanges = 2
  MaxFaults = 2
INVARIANTS Ownership NeverReadTwice LinkFollowed
PROPERTIES Receives Transmits WritesReturn
CHECK_DEADLOCK FALSE
