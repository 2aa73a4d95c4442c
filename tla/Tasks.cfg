CONSTANTS
  MaxTasks = 3
  Priorities = {1, 2}
  Ticks = {0, 1, 3}
SPECIFICATION FairSpec
INVARIANTS TaskTypeOK OneRunning SleepNeverLate NoLostWakeup PickIsBest
PROPERTIES SleeperWakes
CHECK_DEADLOCK FALSE
