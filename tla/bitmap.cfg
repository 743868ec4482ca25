CONSTANTS
  BitSize = 7
  RunSizes = {1, 2, 3}
SPECIFICATION BitsSpec
INVARIANT BitsTypeOK
PROPERTY OnePageIsFirstFit
PROPERTY OnlyTheEndIsUnchecked
