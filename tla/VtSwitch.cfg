SPECIFICATION Spec
CONSTANTS
  vesa = vesa
  gpu = gpu
  fbcond = fbcond
  bootlog = bootlog
  Devices = {vesa, gpu}
  EarlyDevice = vesa
  Consoles = {fbcond}
  Bootlogs = {}
  VtOf <- FbcondVt
  NoVt = NoVt
  NoDevice = NoDevice
  NoHandle = NoHandle
  NumVts = 2
  MaxVts = 2
  MaxPending = 3
  Typed <- SwitchKeys
  MaxUser = 1
  MaxDraws = 1
INVARIANTS NoLostWakeup DriverFollowsActiveVt ScreenIsFresh
PROPERTIES  ActiveVtIsShown
CHECK_DEADLOCK FALSE
