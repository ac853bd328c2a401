SPECIFICATION Spec
CONSTANTS
  Calls = {"c1", "c2"}
  Tasks = {"c1", "c2"}
  TaskOf <- OwnTask
  KeyOf <- OwnKey
  MaxActive = 1
  MaxQueued = 2
  MaxRetries = 0
  MaxCrashes = 1
CHECK_DEADLOCK FALSE
INVARIANT NeverDuplicate
