CONSTANTS
  NPages = 20
  NTasks = 2
  NImage = 2
  NHeap = 3
  PageSize = 3
  MemSize = 1
  Sizes = {1, 4}
  MaxBlocks = 2
  MaxCalls = 4
SPECIFICATION Spec
INVARIANT PagesAccounted
INVARIANT HeapSound
CHECK_DEADLOCK FALSE
