CONSTANTS
  Tasks = {t1, t2}
  NDev = 3
  NFd = 2
  NTty = 3
  NFs = 2
  MaxOpens = 2
  MaxOpc = 3
SPECIFICATION Spec
INVARIANT TypeOK
INVARIANT RightTerminal
INVARIANT InitialisedOnce
CHECK_DEADLOCK FALSE
