SPECIFICATION LocalAiSpec
CONSTANTS
  Models = {"m1", "m2"}
  Acquisitions = {"c1", "c2"}
  FileSizeOf <- MCFileSizeOf
  MaxCacheBytes = 10
  MaxRedirects = 1
  Inferences = {"c1", "c2"}
  MaxConcurrentInferences = 2
  Profiles <- MCProfiles
  Budgets <- MCBudgets
  FormatOf <- MCFormatOf
  KvCacheBytes = 2
  TotalLayers = 4
  DefaultBytes = 8
CHECK_DEADLOCK FALSE
PROPERTY ActiveIsSpared
