----------------------------- MODULE Delegation -----------------------------
(***************************************************************************)
(* Delegation of sub-tasks to agents under attenuated leases:              *)
(* the DelegationCoordinator                                               *)
(* (services/backend/src/agents/delegation-coordinator.ts), the LeaseIssuer*)
(* (services/backend/src/leases/lease-issuer.ts) and the scope check of    *)
(* agents/attenuation.ts, over the agent directory.                        *)
(*                                                                         *)
(* Every call of the coordinator runs to its end without giving way, so    *)
(* each is one action; what interleaves are the calls of parents, of their *)
(* children and of whoever cancels, with the clock.  Lease and task        *)
(* identifiers are minted by the backend and fresh; a task has one lease,  *)
(* so the task names it.  Delegation identifiers and idempotency keys come *)
(* with the request, and the code lets either be used again.               *)
(***************************************************************************)
EXTENDS AgentDirectory

CONSTANTS Roots,             \* tasks that hold a lease of issueLease
          Children,          \* the fresh identifiers of delegated tasks
          DelegationIds,     \* SubAgentDelegationRequest.delegationId
          IdempotencyKeys,   \* SubAgentDelegationRequest.idempotencyKey
          Scopes,            \* the scopes a lease may grant
          Ttls,              \* requested lifetimes, in ticks of the clock
          MaxDepth,          \* DelegationCoordinatorOptions.maxDepth
          IssuerMaxDepth,    \* the depth written into issueDelegatedLease
          MaxFanOut,         \* DelegationCoordinatorOptions.maxFanOut
          MaxTime,           \* bound: the clock stops here
          DirectoryHorizon   \* bound: the directory changes while at most this
                             \* many leases have been issued

AllTasks == Roots \union Children

ASSUME DelegationAssumption ==
  /\ Roots \intersect Children = {}
  /\ Ttls \subseteq Nat
  /\ MaxDepth \in Nat
  /\ IssuerMaxDepth \in Nat
  /\ MaxFanOut \in Nat
  /\ MaxTime \in Nat
  /\ DirectoryHorizon \in Nat
  /\ IsFiniteSet(DelegationIds)

VARIABLES leases,            \* task -> the lease issued for it
          sessions,          \* the map sessions: delegationId -> DelegationSession
          parentToChildren,  \* task -> the delegationIds it created
          childToSession,    \* child task -> delegationId
          idempotencyCache,  \* <<parent task, key>> -> delegationId
          revokedTasks,      \* the set revokedTasks
          now,               \* the clock
          minted,            \* history: <<parent, key, child>> of every child task
          accepted           \* history: every receipt that was settled, and when

coordinatorVars == <<leases, sessions, parentToChildren, childToSession,
                     idempotencyCache, revokedTasks, minted, accepted>>
delegationVars == <<agents, now, coordinatorVars>>

(***************************************************************************)
(* A lease.  root names the undelegated lease its chain starts from (kept  *)
(* for the properties; the code keeps parent_lease_id only).               *)
(***************************************************************************)
Lease == [task : AllTasks, parent : AllTasks, root : Roots, tenant : Tenants,
          depth : Nat, scopes : SUBSET Scopes, expires : Nat]

Status == {"ACCEPTED", "COMPLETED", "FAILED", "CANCELLED", "TIMED_OUT"}
Active == Status \ {"COMPLETED", "FAILED", "CANCELLED", "TIMED_OUT"}

Session == [parent : AllTasks, child : Children, status : Status]

-----------------------------------------------------------------------------
(***************************************************************************)
(* The lease issuer.                                                       *)
(***************************************************************************)

\* A signature verifies exactly when the issuer wrote the lease as it stands: the
\* signature is ideal, and so is the text of the lease it is computed from.
verifyLease(l) == l.task \in DOMAIN leases /\ leases[l.task] = l

\* childScopes are granted when every one is a scope of the parent.
verifyScopeAttenuation(parentScopes, childScopes) ==
  /\ parentScopes # {}
  /\ childScopes # {}
  /\ childScopes \subseteq parentScopes

issueLease(t, tenant, scopes, ttl) ==
  /\ t \notin DOMAIN leases
  /\ leases' = Put(leases, t,
       [task |-> t, parent |-> t, root |-> t, tenant |-> tenant, depth |-> 0,
        scopes |-> scopes, expires |-> now + ttl])

\* A plausible slip: the requested lifetime is not cut at the parent's expiry.
ExpiryAsRequested(parent, ttl) == now + ttl

childExpiry(parent, ttl) ==
  IF now + ttl < parent.expires THEN now + ttl ELSE parent.expires

(***************************************************************************)
(* issueDelegatedLease repeats the coordinator's checks and adds a depth   *)
(* limit of its own.                                                       *)
(***************************************************************************)
issueDelegatedLease(parent, p, c, tenant, scopes, depth, ttl) ==
  /\ verifyLease(parent)
  /\ now < parent.expires
  /\ tenant = parent.tenant
  /\ p = parent.task
  /\ depth \in 1..IssuerMaxDepth
  /\ parent.task # parent.root => depth = parent.depth + 1
  /\ verifyScopeAttenuation(parent.scopes, scopes)
  /\ leases' = Put(leases, c,
       [task |-> c, parent |-> p, root |-> parent.root, tenant |-> tenant,
        depth |-> depth, scopes |-> scopes, expires |-> childExpiry(parent, ttl)])

-----------------------------------------------------------------------------
(***************************************************************************)
(* The coordinator.                                                        *)
(***************************************************************************)

childrenOf(p) == IF p \in DOMAIN parentToChildren THEN parentToChildren[p] ELSE {}

\* The sessions that still count against the fan-out of p.
activeChildren(p) ==
  {d \in childrenOf(p) : d \in DOMAIN sessions /\ sessions[d].status \in Active}

\* A plausible slip: only a delegation that is still running answers a retry.
RecordedWhileActive(p, k) ==
  /\ <<p, k>> \in DOMAIN idempotencyCache
  /\ idempotencyCache[<<p, k>>] \in DOMAIN sessions
  /\ sessions[idempotencyCache[<<p, k>>]].status \in Active

\* The answer to a repeated request: the session recorded under its key.
recorded(p, k) ==
  /\ <<p, k>> \in DOMAIN idempotencyCache
  /\ idempotencyCache[<<p, k>>] \in DOMAIN sessions

\* The session of a new delegation, entered into all four indexes.
recordSession(d, p, k, c) ==
  /\ sessions' = Put(sessions, d, [parent |-> p, child |-> c, status |-> "ACCEPTED"])
  /\ parentToChildren' = Put(parentToChildren, p, childrenOf(p) \union {d})
  /\ childToSession' = Put(childToSession, c, d)
  /\ idempotencyCache' = Put(idempotencyCache, <<p, k>>, d)

(***************************************************************************)
(* What the holder of task p may hand in as its parent lease: the lease it *)
(* was given, or one that does not read as it was signed.                  *)
(***************************************************************************)
presentable(p) ==
  {leases[p], [leases[p] EXCEPT !.scopes = Scopes], [leases[p] EXCEPT !.expires = MaxTime]}

(***************************************************************************)
(* The checks stand in the order of the code; a request that fails one is  *)
(* refused and changes nothing, and so does a repeated one.  The target's  *)
(* entry in the directory is read for its workspaces only.                 *)
(***************************************************************************)
delegateSubTask(p, d, k) ==
  /\ p \notin revokedTasks
  /\ ~recorded(p, k)
  /\ \E parent \in presentable(p) :
       /\ verifyLease(parent)
       /\ now < parent.expires
       /\ \E tenant \in Tenants, depth \in 1..(MaxDepth + 1) :
            /\ tenant = parent.tenant
            /\ depth <= MaxDepth
            /\ depth = IF parent.task # parent.root THEN parent.depth + 1 ELSE 1
            /\ Cardinality(activeChildren(p)) < MaxFanOut
            /\ \E scopes \in SUBSET Scopes, a \in AgentIds, w \in Workspaces, ttl \in Ttls :
                 /\ verifyScopeAttenuation(parent.scopes, scopes)
                 /\ <<tenant, a>> \in DOMAIN agents
                 /\ w \in agents[<<tenant, a>>].workspaceScope
                 /\ \E c \in Children \ DOMAIN leases :
                      /\ issueDelegatedLease(parent, p, c, tenant, scopes, depth, ttl)
                      /\ recordSession(d, p, k, c)
                      /\ minted' = minted \union {<<p, k, c>>}
  /\ UNCHANGED <<agents, now, revokedTasks, accepted>>

-----------------------------------------------------------------------------
\* The session the coordinator finds for a child task.
sessionOf(c) == childToSession[c]

\* A plausible slip: the receipt's lease is not compared with the session's.
ReceiptForTask(c) ==
  /\ sessions[sessionOf(c)].parent \notin revokedTasks
  /\ sessions[sessionOf(c)].status # "CANCELLED"

(***************************************************************************)
(* The runtime of child task c sends a receipt under the lease of c.  It   *)
(* is looked at further when neither the parent nor the session was        *)
(* cancelled and that lease is the one the session issued.  (A receipt of  *)
(* another tenant, or an unsigned one, is refused and changes nothing.)    *)
(***************************************************************************)
receiptBelongs(c) ==
  /\ sessions[sessionOf(c)].parent \notin revokedTasks
  /\ sessions[sessionOf(c)].status # "CANCELLED"
  /\ sessions[sessionOf(c)].child = c

settleChildReceipt(c, outcome) ==
  LET d == sessionOf(c)
      expiresAt == leases[sessions[d].child].expires
  IN  /\ c \in DOMAIN childToSession
      /\ d \in DOMAIN sessions
      /\ receiptBelongs(c)
      /\ \/ /\ now > expiresAt
            /\ sessions' = [sessions EXCEPT ![d].status = "TIMED_OUT"]
            /\ UNCHANGED accepted
         \/ /\ now <= expiresAt
            /\ sessions' = [sessions EXCEPT ![d].status =
                              IF outcome = "SUCCESS" THEN "COMPLETED" ELSE "FAILED"]
            /\ accepted' = accepted \union {[child |-> c, at |-> now]}
      /\ UNCHANGED <<agents, now, leases, parentToChildren, childToSession,
                     idempotencyCache, revokedTasks, minted>>

\* The child's runtime reports a failure outside any receipt.
handleChildFailure(c) ==
  /\ c \in DOMAIN childToSession
  /\ sessionOf(c) \in DOMAIN sessions
  /\ sessions' = [sessions EXCEPT ![sessionOf(c)].status = "FAILED"]
  /\ UNCHANGED <<agents, now, leases, parentToChildren, childToSession,
                 idempotencyCache, revokedTasks, minted, accepted>>

-----------------------------------------------------------------------------
\* The sessions that a cancellation arriving at task t cancels.
cancellable(t) ==
  {d \in childrenOf(t) : d \in DOMAIN sessions /\ sessions[d].status \notin {"COMPLETED", "CANCELLED"}}

\* S holds the child of every session cancelled on the way.
closedUnderCancel(S) == \A t \in S : \A d \in cancellable(t) : sessions[d].child \in S

\* A plausible slip: the walk stops at the children of the cancelled task.
OneLevel(p) == {p}

(***************************************************************************)
(* The tasks the breadth-first walk of cancelDelegation visits: the least  *)
(* set that holds p and is closed.  A session is cancelled when the walk   *)
(* first meets it, so the order of the walk makes no difference.           *)
(***************************************************************************)
cascade(p) ==
  {t \in AllTasks : \A S \in SUBSET AllTasks : p \in S /\ closedUnderCancel(S) => t \in S}

cancelDelegation(p) ==
  LET visited == cascade(p)
      hit == {d \in DOMAIN sessions : \E t \in visited : d \in cancellable(t)}
  IN  /\ revokedTasks' = revokedTasks \union {p} \union {sessions[d].child : d \in hit}
      /\ sessions' = [d \in DOMAIN sessions |->
                        IF d \in hit THEN [sessions[d] EXCEPT !.status = "CANCELLED"]
                                     ELSE sessions[d]]
      /\ UNCHANGED <<agents, now, leases, parentToChildren, childToSession,
                     idempotencyCache, minted, accepted>>
-----------------------------------------------------------------------------
DelegationInit ==
  /\ DirectoryInit
  /\ leases = << >>
  /\ sessions = << >>
  /\ parentToChildren = << >>
  /\ childToSession = << >>
  /\ idempotencyCache = << >>
  /\ revokedTasks = {}
  /\ now = 0
  /\ minted = {}
  /\ accepted = {}

Tick ==
  /\ now < MaxTime
  /\ now' = now + 1
  /\ UNCHANGED <<agents, coordinatorVars>>

Directory ==
  /\ Cardinality(DOMAIN leases) <= DirectoryHorizon
  /\ DirectoryNext
  /\ UNCHANGED <<now, coordinatorVars>>

\* The task controller leases a task that was dispatched.
Lend ==
  /\ \E t \in Roots, tenant \in Tenants, scopes \in SUBSET Scopes, ttl \in Ttls :
       issueLease(t, tenant, scopes, ttl)
  /\ UNCHANGED <<agents, now, sessions, parentToChildren, childToSession,
                 idempotencyCache, revokedTasks, minted, accepted>>

DelegationNext ==
  \/ Tick
  \/ Directory
  \/ Lend
  \/ \E p \in DOMAIN leases, d \in DelegationIds, k \in IdempotencyKeys :
       delegateSubTask(p, d, k)
  \/ \E c \in DOMAIN childToSession, outcome \in {"SUCCESS", "FAILED"} :
       settleChildReceipt(c, outcome)
  \/ \E c \in DOMAIN childToSession : handleChildFailure(c)
  \/ \E p \in Roots \union DOMAIN leases : cancelDelegation(p)

DelegationSpec == DelegationInit /\ [][DelegationNext]_delegationVars
-----------------------------------------------------------------------------
DelegationTypeOK ==
  /\ DirectoryTypeOK
  /\ now \in 0..MaxTime
  /\ DOMAIN leases \subseteq AllTasks
  /\ \A t \in DOMAIN leases : leases[t] \in Lease /\ leases[t].task = t
  /\ DOMAIN sessions \subseteq DelegationIds
  /\ \A d \in DOMAIN sessions : sessions[d] \in Session
  /\ DOMAIN parentToChildren \subseteq AllTasks
  /\ \A t \in DOMAIN parentToChildren : parentToChildren[t] \subseteq DelegationIds
  /\ DOMAIN childToSession \subseteq Children
  /\ \A c \in DOMAIN childToSession : childToSession[c] \in DOMAIN sessions
  /\ DOMAIN idempotencyCache \subseteq AllTasks \X IdempotencyKeys
  /\ \A pk \in DOMAIN idempotencyCache : idempotencyCache[pk] \in DOMAIN sessions
  /\ revokedTasks \subseteq AllTasks
  /\ minted \subseteq AllTasks \X IdempotencyKeys \X Children
  /\ accepted \subseteq [child : Children, at : 0..MaxTime]

(***************************************************************************)
(* Authority only shrinks along a chain of delegations: whatever is        *)
(* delegated, and delegated again, stays within the scopes, the tenant and *)
(* the lifetime of the lease the chain started from and within the depth   *)
(* limits, and no receipt is settled after that first lease has run out.   *)
(***************************************************************************)
AuthorityShrinks ==
  /\ \A t \in DOMAIN leases :
       LET l == leases[t]
           r == leases[l.root]
       IN  /\ l.root \in DOMAIN leases
           /\ l.scopes \subseteq r.scopes
           /\ l.tenant = r.tenant
           /\ l.expires <= r.expires
           /\ l.depth <= MaxDepth /\ l.depth <= IssuerMaxDepth
  /\ \A a \in accepted :
       /\ a.child \in DOMAIN leases
       /\ a.at <= leases[leases[a.child].root].expires

(***************************************************************************)
(* A retried request never starts a second child: whatever has become of   *)
(* the first delegation, one (parent, idempotency key) mints one task.     *)
(***************************************************************************)
RetryMintsOnce ==
  \A a, b \in minted : a[1] = b[1] /\ a[2] = b[2] => a = b

(***************************************************************************)
(* Under a cancelled task nothing runs: no delegation whose parent was     *)
(* cancelled, directly or by the cascade from an ancestor, is active,      *)
(* whether it was there at the time or is asked for afterwards.            *)
(***************************************************************************)
NothingRunsUnderRevoked ==
  \A d \in DOMAIN sessions :
    sessions[d].parent \in revokedTasks => sessions[d].status \notin Active

(***************************************************************************)
(* A late receipt is refused: once a task is cancelled, no child that was  *)
(* leased under it settles a receipt, even when its delegation identifier  *)
(* has been taken over by another parent.                                  *)
(***************************************************************************)
NoLateReceipt ==
  [][\A a \in accepted' \ accepted : leases[a.child].parent \notin revokedTasks]_delegationVars

(***************************************************************************)
(* The fan-out limit: the active delegations of one parent.                *)
(***************************************************************************)
FanOutHeld ==
  \A p \in AllTasks :
    Cardinality({d \in DOMAIN sessions : sessions[d].parent = p /\ sessions[d].status \in Active})
      <= MaxFanOut
=============================================================================
