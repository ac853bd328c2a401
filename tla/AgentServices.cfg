SPECIFICATION Spec
CONSTANTS
  \* the lifecycle and the endpoint
  Starts = {"c1", "c2"}
  Stops = {"c1", "c2"}
  MaxBeats = 2
  Requests = {"c1", "c2"}
  Conns = {"c1", "c2"}
  Methods = {"filesystem.writeFile", "filesystem.readFile", "device.execute", "task.execute", "ping", "unknown"}
  Scopes = {"write"}
  MaxConnections = 1
  MaxRequestsPerWindow = 1
  GlobalMaxRequestsPerWindow = 2
  \* the execution queue
  Tasks = {"k", "a", "b", "c"}
  Tenants = {"A", "B", "C"}
  TenantOf <- MCTenantOf
  LaneOf <- MCLaneOf
  Flaky = {"c"}
  MaxCapacity = 3
  MaxPerTenantQuota = 2
  EmergencyReserve = 1
  \* the state store
  Keys = {"k", "l"}
  MaxWrites = 3
  MaxCrashes = 2
  MaxFaults = 1
  \* the runtimes
  FsCalls = {"c1", "c2"}
  Locations = {"in", "out", "key", "home", "attic", "far"}
  Names = {"in", "link", "secret", "home", "attic"}
  CanonicalPath <- MCCanonicalPath
  Sensitive = {"key"}
  Workspaces = {"w"}
  RootOf <- MCRootOf
  Directories = {"home", "attic"}
  Entries = {"f"}
  Under <- MCUnder
  StoredIn <- MCStoredIn
  Commands = {"c1", "c2"}
  MaxOutputSize = 1
  MaxEmitted = 2
  BrowserCalls = {"c1", "c2", "c3"}
  Callers = {"t1", "t2"}
  SessionTaskOf <- MCSessionTaskOf
  SessionTenantOf <- MCSessionTenantOf
  SessionWorkspaceOf <- MCSessionWorkspaceOf
  Urls = {"ok", "local"}
  Blocked = {"local"}
  Covers <- MCCovers
  SessionLimits = {1, 2}
  Plugins = {"p"}
  PluginCalls = {"c1", "c2", "c3"}
  Capabilities = {"net"}
  MaxConcurrentHosts = 1
  DeviceCalls = {"c1", "c2", "c3"}
  MaxConcurrentOperations = 1
  MaxDeviceStops = 2
  ClipWrites = {"a", "b", "c", "d"}
  ClipTextOf <- MCClipTextOf
  ClipSensitive = {"a", "b", "c"}
  \* the local models
  Models = {"m1", "m2"}
  Acquisitions = {"c1", "c2"}
  FileSizeOf <- MCFileSizeOf
  MaxCacheBytes = 10
  MaxRedirects = 1
  Inferences = {"c1", "c2", "c3"}
  MaxConcurrentInferences = 2
  Profiles <- MCProfiles
  Budgets <- MCBudgets
  FormatOf <- MCFormatOf
  KvCacheBytes = 2
  TotalLayers = 4
  DefaultBytes = 8
  \* the other services
  UpdateCalls = {"c1", "c2", "c3", "c4"}
  Releases = {"r1", "r2"}
  ReleaseVersion <- MCReleaseVersion
  AgentVersion = 1
  SecretCalls = {"c1", "c2", "c3"}
  SecretRefs = {"db", "api", "copy"}
  FingerprintOf <- MCFingerprintOf
  MaxActiveSecrets = 1
  ConfigCalls = {"c1", "c2", "c3"}
  Settings = {"x", "y"}
  EnvelopeRevisions = {0, 2, 3}
  Notices = {"n", "c", "d", "h"}
  PriorityOf <- MCPriorityOf
  CategoryOf <- MCCategoryOf
  CoalesceKeyOf <- MCCoalesceKeyOf
  Expiring = {"d"}
  MaxNotices = 1
  Events = {"a", "b", "x", "y", "z"}
  CriticalEvents = {"x", "y", "z"}
  MaxSpool = 1
  SpoolWarning = 2
  MaxBatch = 1
  CacheKeys = {"k", "l"}
  CachePuts = {"p1", "p2", "p3", "p4"}
  CacheKeyOf <- MCCacheKeyOf
  SizeBytesOf <- MCSizeBytesOf
  CacheTags = {"t", "w"}
  TagsOf <- MCTagsOf
  CacheClears = {"c1", "c2"}
  MaxMemoryBytes = 3
  MaxEntries = 2
  LinkStarts = {"c1", "c2"}
  LinkEvents = {"a"}
  DrainBatch = 1
  RejectionEvent = "rejected"
  Frames = {"f", "g"}
  FrameDeliveries = {"c1", "c2", "c3"}
  MaxProcessed = 1
VIEW View
CHECK_DEADLOCK FALSE
INVARIANTS
  TransitionsOwned
  EndpointIsGuarded
  QueueIsFair
  StoreIsDurable
  ReplacedIsKept
  ChildrenSupervised
  SessionsContained
  QuarantineHolds
  ClipboardsContained
  ModelsAccounted
  UpdatesCanBeUndone
  SecretsEnd
  ConfigIsSerial
  UrgentIsKept
  CacheIsBounded
  LinkHolds
