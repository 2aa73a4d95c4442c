\* 20 frames, of which memset reaches 16; 5 tables of 5 pages, a header of one
\* word: the kernel's pages end in the third table, the frames with the fourth.
CONSTANTS
  total_blocks = 20
  kernel_blocks = 12
  Image = {0}
  SLOTS = 5
  ENTRIES = 5
  HeaderWords = 1
  HeapPage = 20
  HeapPages = 2
  MaxDirs = 1
  MaxTables = 5
  Slots <- MCSlots
  Entries <- MCEntries
  Pages <- MCPages
SPECIFICATION BootFairSpec
INVARIANTS IdentityMapped KernelUnseen
PROPERTIES BootPanics
CHECK_DEADLOCK FALSE
