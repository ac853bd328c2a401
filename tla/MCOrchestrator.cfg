SPECIFICATION MCSpec
CONSTANTS
  Executions = {"ask", "plain", "again"}
  Tasks = {"t"}
  TaskOf <- MCTaskOf
  KeyOf <- MCKeyOf
  Approval <- MCApproval
  Submitters = {"user", "second"}
  MaxConcurrency = 2
  MaxReplayCacheSize = 2
  EvictedKeys = 1
  MaxLapses = 1
CHECK_DEADLOCK FALSE
INVARIANTS ResourcesExact RunsOnceTruthfully DecisionsAreSound
PROPERTY ExecutionEnds
