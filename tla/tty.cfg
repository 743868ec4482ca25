CONSTANTS
  program = program
  shell = shell
  Nobody = nobody
  Tasks = {program, shell}
  Ttys = {1}
  Keys = {"x", "y"}
  Writes <- MCWrites
  ReadSizes <- MCReadSizes
  Home <- MCHome
  IBUF = 2
  OBUF = 5
  MaxPermits = 2
SPECIFICATION FairSpec
INVARIANT TypeOK
INVARIANT SlotsConserved
INVARIANT EveryByteHasAPermit
PROPERTY ServedInOrder
INVARIANT LostOnlyWhenShared
 
PROPERTY OutputIsDrawn
CHECK_DEADLOCK FALSE
