\* Two tasks, two descriptors; "/tmp" exists and is not found.
CONSTANTS
  MaxTasks = 2
  Priorities = {1}
  Ticks = {}
  FS_MAX_FDS = 2
  Paths = {"/", "/tmp"}
  Addrs = {0, 1}
  InitialBrk = 2
SPECIFICATION SysSpec
INVARIANTS HandlesExact
PROPERTIES ZombieKeepsFd
CHECK_DEADLOCK FALSE
