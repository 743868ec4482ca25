CONSTANTS
  Tasks = {t1, t2, t3}
  None = none
  ReadSizes = {1, 2}
  WriteSizes = {1}
  Direct = {t3}
  LoadSize = 2
  MaxDirect = 2
SPECIFICATION FairSpec
INVARIANT TypeOK
INVARIANT CommandIsOwners
INVARIANT InterruptIsToCome
INVARIANT PermitsStayBounded
 
PROPERTY CallsEnd
