SPECIFICATION Spec
CONSTANTS
  vesa = vesa
  gpu = gpu
  fbcond = fbcond
  bootlog = bootlog
  Devices = {vesa, gpu}
  EarlyDevice = vesa
  Consoles = {bootlog}
  Bootlogs = {bootlog}
  VtOf <- BootlogVt
  NoVt = NoVt
  NoDevice = NoDevice
  NoHandle = NoHandle
  NumVts = 2
  MaxVts = 2
  MaxPending = 3
  Typed <- JustKey
  MaxUser = 0
  MaxDraws = 0
PROPERTY HandoffReachesBootlog
CHECK_DEADLOCK FALSE
