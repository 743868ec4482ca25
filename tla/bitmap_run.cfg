CONSTANTS
  BitSize = 7
  RunSizes = {1, 2, 3}
SPECIFICATION BitsSpec
PROPERTY RunWasFree
