SPECIFICATION Spec
CONSTANTS
  Writers = {w1, w2}
  Tags = {status, chat}
  Status = status
  Sizes = {z1, z2}
  MaxVersion = 3
  MaxErrors = 1
  MaxResizes = 1
INVARIANTS TypeOK NoSleepWhileDirty MarkedIsDrawn
PROPERTIES ScreenCatchesUp
CHECK_DEADLOCK FALSE
