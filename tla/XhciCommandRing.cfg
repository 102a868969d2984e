SPECIFICATION CommandSpec
CONSTANTS
  RingLen = 4
  Trbs = {"a", "b"}
  NoTrb = "none"
  Overwrites = TRUE
  EventRingLen = 2
  Events = {"a"}
  NoEvent = "none"
PROPERTY InOrder
