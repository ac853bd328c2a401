SPECIFICATION FairSpec
CONSTANTS
  Tasks <- MCTasks
  Checks <- MCChecks
CHECK_DEADLOCK FALSE
INVARIANTS FailClosed CompletedOnEvidence SettledOnce
PROPERTIES TerminalIsFinal ReportSettles
