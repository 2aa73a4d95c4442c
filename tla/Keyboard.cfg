SPECIFICATION FairSpec
CONSTANTS
  Size = 2
  MaxKeys = 5
  ShiftKeys = {left, right}
INVARIANTS
  NoPhantom
  InOrder
  NoStuckShift
PROPERTIES
  LagIsLost
