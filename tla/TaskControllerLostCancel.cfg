SPECIFICATION Spec
CONSTANTS
  Tasks <- MCTasks
  Checks <- MCChecks
CHECK_DEADLOCK FALSE
INVARIANT CancelledNeverCompletes
