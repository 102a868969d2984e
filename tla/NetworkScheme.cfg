SPECIFICATION Spec
CONSTANTS
  Calls = {1, 2, 3}
  IrqSubscribed = TRUE
  MaxPackets = 2
INVARIANTS TypeOK AnsweredOnce NoCallLost NoReaderLeftBehind HandlesAreNotified
PROPERTIES OthersAreAnswered ReadersAreServed
CHECK_DEADLOCK FALSE
