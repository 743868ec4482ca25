CONSTANTS
  NoFile = NoFile
  Tasks = {t1, t2}
  Names = {a, b}
  NClus = 7
  NEnt = 4
  Bps = 4
  Sizes = {1, 4, 5}
  Offsets = {0, 5}
  MaxCalls = 3
SPECIFICATION Spec
SYMMETRY Alike
INVARIANT TypeOK
INVARIANT ChainsSound
 
PROPERTY EntriesKept
CHECK_DEADLOCK FALSE
