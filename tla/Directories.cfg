\* 9 frames: one whole byte of the bitmap and a bit memset does not reach;
\* 3 free frames at most, 3 directories, 4 tables.
CONSTANTS
  total_blocks = 9
  kernel_blocks = 2
  MaxDirs = 3
  MaxTables = 4
  Slots = {1, 2}
  Entries = {1}
  Pages <- MCPages
  Image = {0}
SPECIFICATION DirSpec
INVARIANTS FramesExact PrivateTables KernelInherited
PROPERTIES CopyAliases
CHECK_DEADLOCK FALSE
