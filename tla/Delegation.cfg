CONSTANTS
  Tenants = {t1}
  AgentIds = {a1}
  Workspaces = {w1}
  MaxAgentsPerTenant = 1
  Roots = {r1}
  Children = {c1, c2}
  DelegationIds = {d1, d2}
  IdempotencyKeys = {k1, k2}
  Scopes = {s1, s2}
  Ttls = {1, 2}
  MaxDepth = 2
  IssuerMaxDepth = 3
  MaxFanOut = 1
  MaxTime = 2
  DirectoryHorizon = 1
SYMMETRY Symmetry
CONSTRAINT DirectoryBound
SPECIFICATION DelegationSpec
INVARIANTS
  AuthorityShrinks
  RetryMintsOnce
  NothingRunsUnderRevoked
PROPERTIES
  NoLateReceipt
