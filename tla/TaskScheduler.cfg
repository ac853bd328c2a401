SPECIFICATION FairSpec
CONSTANTS
  Calls = {"c1", "c2"}
  Tasks = {"c1", "c2"}
  TaskOf <- OwnTask
  KeyOf <- OwnKey
  MaxActive = 1
  MaxQueued = 1
  MaxRetries = 1
  MaxCrashes = 1
CHECK_DEADLOCK FALSE
INVARIANTS OwnedAndStored
PROPERTY QueuedIsTaken
