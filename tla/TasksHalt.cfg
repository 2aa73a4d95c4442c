CONSTANTS
  MaxTasks = 3
  Priorities = {1, 2}
  Ticks = {0, 1, 3}
SPECIFICATION Spec
INVARIANTS HaltOnlyWhenIdle
CHECK_DEADLOCK FALSE
