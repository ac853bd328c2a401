--------------------------- MODULE AgentDirectory ---------------------------
(***************************************************************************)
(* The in-memory directory of logical agents                               *)
(* (services/backend/src/agents/agent-directory.ts).  An agent is known    *)
(* under the composite key <<tenant, agent>>.  The age of its last         *)
(* heartbeat is kept as the two comparisons the code makes with it:        *)
(* "fresh" (within heartbeatTtlMs), "stale" (beyond it) and "old" (beyond  *)
(* the age at which pruneStaleAgents forgets the agent).                   *)
(***************************************************************************)
EXTENDS Naturals, FiniteSets

CONSTANTS Tenants,             \* tenant identifiers
          AgentIds,            \* agent identifiers
          Workspaces,          \* workspace identifiers
          MaxAgentsPerTenant   \* AgentDirectoryOptions.maxAgentsPerTenant

ASSUME DirectoryAssumption == MaxAgentsPerTenant \in Nat \ {0}

VARIABLE agents   \* the map agents: composite key -> AgentRecord

Ages == {"fresh", "stale", "old"}

\* AgentStatusSchema as the directory tells its values apart: REGISTERED is read
\* like AVAILABLE, and BUSY like UNHEALTHY.
AgentStatus == {"AVAILABLE", "UNHEALTHY", "RETIRED"}

AgentKey == Tenants \X AgentIds

WorkspaceScope == SUBSET Workspaces \ {{}}

AgentRecord == [workspaceScope : WorkspaceScope, status : AgentStatus, age : Ages]

\* Map.set: f with the value v under the key k.
Put(f, k, v) == [x \in DOMAIN f \union {k} |-> IF x = k THEN v ELSE f[x]]

listAgents(tenant) == {k \in DOMAIN agents : k[1] = tenant}

DirectoryInit == agents = << >>

(***************************************************************************)
(* Registering again replaces the description and keeps what heartbeats    *)
(* and retirement left: a retired agent stays retired.  The registration's *)
(* own timestamp stands in for the first heartbeat.                        *)
(***************************************************************************)
registerAgent(k, scope, age) ==
  /\ k \in DOMAIN agents \/ Cardinality(listAgents(k[1])) < MaxAgentsPerTenant
  /\ agents' = Put(agents, k,
       IF k \in DOMAIN agents
       THEN [agents[k] EXCEPT !.workspaceScope = scope]
       ELSE [workspaceScope |-> scope, status |-> "AVAILABLE", age |-> age])

\* The sender chooses the status and the timestamp; a retired agent that still
\* beats is taken back.
recordHeartbeat(k, status, age) ==
  /\ k \in DOMAIN agents
  /\ agents' = [agents EXCEPT ![k].status = status, ![k].age = age]

\* Discovery marks the tenant's agents whose heartbeat is too old.
findEligibleAgents(tenant, w) ==
  agents' = [k \in DOMAIN agents |->
    IF k[1] = tenant /\ w \in agents[k].workspaceScope /\ agents[k].age # "fresh"
    THEN [agents[k] EXCEPT !.status = "UNHEALTHY"]
    ELSE agents[k]]

retireAgent(k) ==
  /\ k \in DOMAIN agents
  /\ agents' = [agents EXCEPT ![k].status = "RETIRED"]

pruneStaleAgents ==
  LET kept == {k \in DOMAIN agents : agents[k].status # "RETIRED" /\ agents[k].age # "old"}
  IN  agents' = [k \in kept |-> agents[k]]

\* Time passes without a heartbeat.
HeartbeatAges(k) ==
  /\ k \in DOMAIN agents
  /\ agents[k].age # "old"
  /\ agents' = [agents EXCEPT ![k].age = IF @ = "fresh" THEN "stale" ELSE "old"]

DirectoryNext ==
  \/ \E k \in AgentKey, age \in Ages :
        \/ \E scope \in WorkspaceScope : registerAgent(k, scope, age)
        \/ \E status \in AgentStatus : recordHeartbeat(k, status, age)
  \/ \E k \in AgentKey : retireAgent(k) \/ HeartbeatAges(k)
  \/ \E t \in Tenants, w \in Workspaces : findEligibleAgents(t, w)
  \/ pruneStaleAgents

DirectoryTypeOK ==
  /\ DOMAIN agents \subseteq AgentKey
  /\ \A k \in DOMAIN agents : agents[k] \in AgentRecord
=============================================================================
