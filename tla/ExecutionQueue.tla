---------------------------- MODULE ExecutionQueue ----------------------------
(***************************************************************************)
(* The scheduler's in-memory queue                                         *)
(* (apps/desktop-agent/src/scheduler/execution-queue.ts, priority-         *)
(* policy.ts): five priority lanes, round-robin over tenants inside a lane, *)
(* capacity and per-tenant quota, promotion of aged items, pruning.        *)
(*                                                                         *)
(* An item is its task; nothing stops a task from being queued twice.      *)
(* Time is what the environment says it is: maintenance finds any queued   *)
(* items aged or expired, and a backoff ends at any moment.                *)
(***************************************************************************)
EXTENDS Naturals, Sequences, FiniteSets, FiniteSetsExt, SequencesExt, SeqSelection

CONSTANTS Tasks, Tenants,
          TenantOf,          \* [Tasks -> Tenants]: item.tenantId
          LaneOf,            \* [Tasks -> Lanes]: derivePriorityLane of its request
          Flaky,             \* tasks whose execution fails with a retryable error
          MaxCapacity,       \* maxCapacity (100 in the program)
          MaxPerTenantQuota, \* maxPerTenantQuota (20)
          EmergencyReserve   \* what CRITICAL may use beyond maxCapacity (10)

LaneOrder == <<"CRITICAL", "INTERACTIVE", "NORMAL", "RETRY", "BACKGROUND">>
Lanes == {"CRITICAL", "INTERACTIVE", "NORMAL", "RETRY", "BACKGROUND"}
\* The lanes in which tenants take turns and which no item leaves by growing old.
FairLanes == {"CRITICAL", "INTERACTIVE", "BACKGROUND"}
NoTenant == "none"

ASSUME QueueAssumption ==
  /\ TenantOf \in [Tasks -> Tenants] /\ NoTenant \notin Tenants /\ IsFiniteSet(Tenants)
  /\ LaneOf \in [Tasks -> Lanes \ {"RETRY"}]
  /\ Flaky \subseteq Tasks
  /\ {MaxCapacity, MaxPerTenantQuota, EmergencyReserve} \subseteq Nat

VARIABLES lanes,             \* per lane, the queued items in order of entry
          lastServedTenant,  \* per lane, the tenant served last
          backoff,           \* tasks whose nextRetryAt has not come
          served,            \* history, of the fair lanes: [lane][waiting][other],
                             \* how often other was served from the lane while the
                             \* oldest item of waiting has been in it
          disturbed          \* history: an item was canceled or has expired; served
                             \* is not kept up from then on

queueVars == <<lanes, lastServedTenant, backoff, served, disturbed>>

Unserved == [l \in FairLanes |-> [w \in Tenants |-> [o \in Tenants |-> 0]]]

QueueInit ==
  /\ lanes = [l \in Lanes |-> <<>>]
  /\ lastServedTenant = [l \in Lanes |-> NoTenant]
  /\ backoff = {}
  /\ served = Unserved
  /\ disturbed = FALSE

\* The lanes other than CRITICAL, and all of them.
OrdinarySize == Len(lanes["INTERACTIVE"]) + Len(lanes["NORMAL"]) + Len(lanes["RETRY"]) + Len(lanes["BACKGROUND"])
GetSize == Len(lanes["CRITICAL"]) + OrdinarySize

Of(items, tenant) == {i \in DOMAIN items : TenantOf[items[i]] = tenant}
CountIn(lane, tenant) == Cardinality(Of(lanes[lane], tenant))
OrdinaryCount(tenant) == CountIn("INTERACTIVE", tenant) + CountIn("NORMAL", tenant)
                         + CountIn("RETRY", tenant) + CountIn("BACKGROUND", tenant)
GetTenantCount(tenant) == CountIn("CRITICAL", tenant) + OrdinaryCount(tenant)

-----------------------------------------------------------------------------
\* History: tenant was served from lane, and if it has more items there it starts
\* to wait anew.
Counted(lane, tenant) ==
  IF disturbed \/ lane \notin FairLanes THEN served ELSE
  [served EXCEPT ![lane] = [w \in Tenants |-> [o \in Tenants |->
     IF w = tenant \/ Of(lanes[lane], w) = {} THEN 0
     ELSE IF o = tenant THEN served[lane][w][o] + 1 ELSE served[lane][w][o]]]]

\* CRITICAL bypasses capacity up to the reserve, and the quota altogether.
Accepts(task, lane) ==
  IF lane = "CRITICAL" THEN GetSize < MaxCapacity + EmergencyReserve
  ELSE GetSize < MaxCapacity /\ GetTenantCount(TenantOf[task]) < MaxPerTenantQuota

\* The lane an item carries: derived, promoted, or given by scheduleRetry.
LaneChoices(task) ==
  {LaneOf[task]} \cup (IF LaneOf[task] = "NORMAL" THEN {"INTERACTIVE"} ELSE {})
                 \cup (IF task \in Flaky THEN {"RETRY"} ELSE {})

\* enqueue returns true.  A task enters RETRY once: its second execution is
\* rejected as a replay, which is not retried.
Enqueue(task, lane) ==
  /\ Accepts(task, lane)
  /\ lane = "RETRY" => ~Contains(lanes["RETRY"], task)
  /\ lanes' = [lanes EXCEPT ![lane] = Append(@, task)]
  /\ backoff' = IF lane = "RETRY" THEN backoff \cup {task} ELSE backoff
  /\ UNCHANGED <<lastServedTenant, served, disturbed>>

BackoffEnds(task) ==
  /\ task \in backoff
  /\ backoff' = backoff \ {task}
  /\ UNCHANGED <<lanes, lastServedTenant, served, disturbed>>

\* A plausible slip: the rotation is remembered but never moved past its end.
NoWrapRoundRobinIndex(lane) ==
  LET items == lanes[lane]
      Oldest(t) == Min(Of(items, t))
      last == lastServedTenant[lane]
  IN IF last # NoTenant /\ Of(items, last) # {} THEN Oldest(last) ELSE 1

\* findRoundRobinIndex of a lane that is not empty: the oldest item of the
\* tenant that follows the last served one in order of first entry, cyclically.
FindRoundRobinIndex(lane) ==
  LET items == lanes[lane]
      oldest == {Min(Of(items, t)) : t \in {u \in Tenants : Of(items, u) # {}}}
      last == Of(items, lastServedTenant[lane])
      later == {i \in oldest : last # {} /\ i > Min(last)}
  IN IF later # {} THEN Min(later) ELSE 1

\* The item of a lane that dequeue would take, 0 for none.
NextIndex(lane) ==
  IF lanes[lane] = <<>> THEN 0
  ELSE IF lane = "RETRY" THEN LET due == {i \in DOMAIN lanes[lane] : lanes[lane][i] \notin backoff}
                              IN  IF due = {} THEN 0 ELSE Min(due)
  ELSE FindRoundRobinIndex(lane)

\* The first lane in that order with an item to take, and the item.
NextLanes == {n \in DOMAIN LaneOrder : NextIndex(LaneOrder[n]) # 0}
NextLane == LaneOrder[Min(NextLanes)]
Peek == lanes[NextLane][NextIndex(NextLane)]

\* dequeue returns an item.
Dequeue ==
  LET tenant == TenantOf[Peek] IN
  /\ NextLanes # {}
  /\ lanes' = [lanes EXCEPT ![NextLane] = Without(@, NextIndex(NextLane))]
  /\ lastServedTenant' = [lastServedTenant EXCEPT ![NextLane] = tenant]
  /\ served' = Counted(NextLane, tenant)
  /\ UNCHANGED <<backoff, disturbed>>

\* remove returns an item: the first one of the task, if it is the tenant's.
RemoveItem(task, tenant) ==
  LET places(l) == {i \in DOMAIN lanes[l] : lanes[l][i] = task}
      holding == {n \in DOMAIN LaneOrder : places(LaneOrder[n]) # {}}
      lane == LaneOrder[Min(holding)] IN
  /\ holding # {}
  /\ tenant \in {NoTenant, TenantOf[task]}
  /\ lanes' = [lanes EXCEPT ![lane] = Without(@, Min(places(lane)))]
  /\ disturbed' = TRUE /\ served' = Unserved
  /\ UNCHANGED <<lastServedTenant, backoff>>

PruneExpired(expired) ==
  /\ lanes' = [l \in Lanes |-> ItemsAt(lanes[l], {i \in DOMAIN lanes[l] : lanes[l][i] \notin expired})]
  /\ disturbed' = TRUE /\ served' = Unserved
  /\ UNCHANGED <<lastServedTenant, backoff>>

\* The items of the aged tasks go to INTERACTIVE, in their order.
ApplyAging(aged) ==
  /\ LET places == {i \in DOMAIN lanes["NORMAL"] : lanes["NORMAL"][i] \in aged} IN
     lanes' = [lanes EXCEPT !["INTERACTIVE"] = @ \o ItemsAt(lanes["NORMAL"], places),
                            !["NORMAL"] = ItemsAt(@, DOMAIN @ \ places)]
  /\ UNCHANGED <<lastServedTenant, backoff, served, disturbed>>

QueueNext ==
  \/ \E t \in Tasks : \E l \in LaneChoices(t) : Enqueue(t, l)
  \/ \E t \in Tasks : BackoffEnds(t)
  \/ Dequeue
  \/ \E t \in Tasks : RemoveItem(t, TenantOf[t])
  \/ \E s \in (SUBSET UNION {ToSet(lanes[l]) : l \in Lanes}) \ {{}} : PruneExpired(s)
  \/ \E s \in (SUBSET ToSet(lanes["NORMAL"])) \ {{}} : ApplyAging(s)

QueueSpec == QueueInit /\ [][QueueNext]_queueVars

-----------------------------------------------------------------------------
\* enqueue: the queue never holds more than its capacity and the emergency
\* reserve, its other lanes never more than the capacity, and a tenant never
\* more than its quota there, whatever was promoted, retried or removed between.
WithinLimits ==
  /\ GetSize <= MaxCapacity + EmergencyReserve /\ OrdinarySize <= MaxCapacity
  /\ \A t \in Tenants : OrdinaryCount(t) <= MaxPerTenantQuota

\* findRoundRobinIndex, as long as items leave a lane only to be served: while
\* the oldest item of a tenant waits, no other tenant is served as often as
\* there are tenants.  Two turns of one tenant while another waits do happen, and
\* once items are canceled or expire between the turns there is no bound at all:
\* the rotation follows the order of first entry, which every exit changes.
BoundedOvertaking ==
  \A l \in FairLanes : \A w, o \in Tenants : served[l][w][o] < Cardinality(Tenants)

\* The queue is bounded and fair at once: promotion, retry and removal between two
\* turns neither push a lane past its limits nor starve a waiting tenant.
QueueIsFair == WithinLimits /\ BoundedOvertaking
=============================================================================
