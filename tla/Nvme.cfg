SPECIFICATION FairSpec
CONSTANTS
  SqLen = 2
  CqLen = 2
  Blocks = 2
  Namespaces = 1
  Data = {d1, d2}
  MaxChunks = 2
  None = None
INVARIANTS FreshIsPosted SlotIsFree DoneWhenReady OkMeansMoved IInv
PROPERTIES CommandsComplete
