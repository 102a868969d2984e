SPECIFICATION Spec
CONSTANTS
  None = None
  Ports = {1}
  Slots = {1, 2}
  Addrs = {1}
  RingLen = 8
  Budgets <- MCBudgets
  TrbRingLen = 4
  Trbs = {"a", "b"}
  NoTrb = "none"
  EventRingLen = 4
  Events = {"a", "b"}
  NoEvent = "none"
  Devices <- MCDevices
  BufLens = {1, 4}
  MaxOpens = 1
  MaxConfigures = 2
  MaxAttaches = 2
  BlockSize = 2
  Sizes = {0, 1, 2, 4}
  MaxCommands = 2
  MaxFaults = 1
  
PROPERTIES InOrder  
CHECK_DEADLOCK FALSE
