\* 8-byte units: the header is 2, the least split remainder 1.
CONSTANTS
  KERNEL_HEAP_START = 1
  KERNEL_HEAP_SIZE = 20
  HeaderSize = 2
  SplitSlack = 1
  Sizes = {0, 1, 2, 4, 19}
SPECIFICATION FairSpec
INVARIANTS TypeOK HeapTiled Coalesced FirstFit
PROPERTIES  ImplementsAllocator
CHECK_DEADLOCK FALSE
