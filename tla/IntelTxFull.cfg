SPECIFICATION TxSpec
CONSTANTS
  RingSize = 4
  Chip = "e1000"
  NoPacket = NoPacket
  Packets = {p}
PROPERTIES WriteReturns
CHECK_DEADLOCK FALSE
