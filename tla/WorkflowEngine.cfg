SPECIFICATION FairSpec
CONSTANTS
  Calls = {"c1", "c2"}
  Workflows = {"a", "b"}
  Submissions <- MCSubmissions
  Node = {"m", "n", "k"}
  Dags <- MCDags
  Compensable = {"m", "n"}
  Authorised = {"a", "b"}
  MaxWorkflows = 1
  MaxCrashes = 1
CHECK_DEADLOCK FALSE
INVARIANTS OneExecutor TiersInOrder
PROPERTY RunningEnds
