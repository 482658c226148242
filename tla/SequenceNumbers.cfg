SPECIFICATION NumbersSpec
CONSTANTS
  SeqSize = 8
  MaxAbs = 26
INVARIANTS
  UnwrapIsClosest
  UnwrapUndoesWrap
