---------------------------- MODULE BackendProofs ----------------------------
(***************************************************************************)
(* Proofs about the backend's task controller, for every set of tasks and  *)
(* every number of policy evaluations, and its delegation coordinator, for *)
(* every set of tasks, tenants, agents and scopes, every depth and fan-out *)
(* limit and every clock.                                                  *)
(*                                                                         *)
(* The controller's inductive invariant is TypeOK, CreationOrder,          *)
(* CompletedOnEvidence and SettledOnce together.  The coordinator's ties   *)
(* its four indexes together: a session is indexed under the parent that   *)
(* its child's lease names (Indexed), and every child task that was minted *)
(* has its key in the idempotency cache (Keyed).                           *)
(***************************************************************************)
EXTENDS TaskController, Delegation, FiniteSetTheorems, TLAPS

-----------------------------------------------------------------------------
(* The task controller.                                                    *)

IInv == TypeOK /\ CreationOrder /\ CompletedOnEvidence /\ SettledOnce

USE ChecksAssumption

\* The initial states of the controller satisfy the invariant.
LEMMA InitInvariant == Init => IInv
  BY DEF Init, IInv, TypeOK, CreationOrder, CompletedOnEvidence, SettledOnce,
         States, Terminal, Pcs, Receipts, Statuses

\* Every segment of createTask, cancelTask and settleReceipt is well typed.
LEMMA TypeStep == TypeOK /\ [Next]_vars => TypeOK'
  <1> SUFFICES ASSUME TypeOK, [Next]_vars
               PROVE  TypeOK'
    OBVIOUS
  <1> USE DEF TypeOK, States, Terminal, Pcs
  <1>1. ASSUME NEW t \in Tasks, Submit(t) PROVE TypeOK'
    BY <1>1 DEF Submit, Store
  <1>2. ASSUME NEW t \in Tasks, PolicyDenies(t) PROVE TypeOK'
    BY <1>2 DEF PolicyDenies, Store
  <1>3. ASSUME NEW t \in Tasks, NodeAllowed(t) PROVE TypeOK'
    BY <1>3 DEF NodeAllowed
  <1>4. ASSUME NEW t \in Tasks, IssueLease(t) PROVE TypeOK'
    BY <1>4 DEF IssueLease, Store
  <1>5. ASSUME NEW t \in Tasks, MarkDispatched(t) PROVE TypeOK'
    BY <1>5 DEF MarkDispatched, Store
  <1>6. ASSUME NEW t \in Tasks, ReturnLeased(t) PROVE TypeOK'
    BY <1>6 DEF ReturnLeased
  <1>7. ASSUME NEW t \in Tasks, DispatchTask(t) PROVE TypeOK'
    BY <1>7 DEF DispatchTask
  <1>8. ASSUME NEW t \in Tasks, CreateThrows(t) PROVE TypeOK'
    BY <1>8 DEF CreateThrows
  <1>9. ASSUME NEW t \in Tasks, CancelTask(t) PROVE TypeOK'
    BY <1>9 DEF CancelTask
  <1>10. ASSUME NEW t \in Tasks, DamagedReceipt(t) PROVE TypeOK'
    BY <1>10 DEF DamagedReceipt, Receipts, Statuses
  <1>11. ASSUME NEW t \in Tasks, NEW status \in Statuses, AgentReports(t, status) PROVE TypeOK'
    BY <1>11 DEF AgentReports, Receipts
  <1>12. ASSUME NEW r \in receipts, AcceptReceipt(r) PROVE TypeOK'
    BY <1>12 DEF AcceptReceipt, Outcome, Receipts
  <1>13. ASSUME NEW r \in receipts, RefuseReceipt(r) PROVE TypeOK'
    BY <1>13 DEF RefuseReceipt, Receipts
  <1>15. ASSUME NEW t \in Tasks, LeaseThrows(t) PROVE TypeOK'
    BY <1>15 DEF LeaseThrows, Store
  <1>14. CASE UNCHANGED vars
    BY <1>14 DEF vars
  <1> QED
    BY <1>1, <1>2, <1>3, <1>4, <1>5, <1>6, <1>7, <1>8, <1>9, <1>10, <1>11, <1>12, <1>13, <1>14, <1>15
       DEF Next, CreateStep, SettleReceipt

\* Every step keeps the order of creation, the evidence and the count.
LEMMA OrderStep == IInv /\ [Next]_vars => (CreationOrder /\ CompletedOnEvidence /\ SettledOnce)'
  <1> DEFINE Rest == CreationOrder /\ CompletedOnEvidence /\ SettledOnce
  <1> SUFFICES ASSUME IInv, [Next]_vars
               PROVE  Rest'
    OBVIOUS
  <1> USE DEF IInv, TypeOK, CreationOrder, CompletedOnEvidence, SettledOnce, Pcs
  <1>1. ASSUME NEW t \in Tasks, Submit(t) PROVE Rest'
    BY <1>1 DEF Submit, Store
  <1>2. ASSUME NEW t \in Tasks, PolicyDenies(t) PROVE Rest'
    BY <1>2 DEF PolicyDenies, Store
  <1>3. ASSUME NEW t \in Tasks, NodeAllowed(t) PROVE Rest'
    BY <1>3 DEF NodeAllowed
  <1>4. ASSUME NEW t \in Tasks, IssueLease(t) PROVE Rest'
    BY <1>4 DEF IssueLease, Store
  <1>5. ASSUME NEW t \in Tasks, MarkDispatched(t) PROVE Rest'
    BY <1>5 DEF MarkDispatched, Store
  <1>6. ASSUME NEW t \in Tasks, ReturnLeased(t) PROVE Rest'
    BY <1>6 DEF ReturnLeased
  <1>7. ASSUME NEW t \in Tasks, DispatchTask(t) PROVE Rest'
    BY <1>7 DEF DispatchTask
  <1>8. ASSUME NEW t \in Tasks, CreateThrows(t) PROVE Rest'
    BY <1>8 DEF CreateThrows
  <1>9. ASSUME NEW t \in Tasks, CancelTask(t) PROVE Rest'
    BY <1>9 DEF CancelTask, CanTransition, AllowedTransitions
  <1>10. ASSUME NEW t \in Tasks, DamagedReceipt(t) PROVE Rest'
    BY <1>10 DEF DamagedReceipt
  <1>11. ASSUME NEW t \in Tasks, NEW status \in Statuses, AgentReports(t, status) PROVE Rest'
    BY <1>11 DEF AgentReports
  <1>12. ASSUME NEW r \in receipts, AcceptReceipt(r) PROVE Rest'
    <2>1. /\ r \in Receipts /\ r.task \in Tasks /\ r.check = "verifies"
          /\ r = [task |-> r.task, status |-> r.status, check |-> "verifies"]
      BY <1>12 DEF AcceptReceipt, Receipts
    <2>2. settled[r.task] = 0
      BY <1>12, <2>1 DEF AcceptReceipt, CanTransition, AllowedTransitions, Advanced
    <2>3. /\ Outcome(r.status) \in {"COMPLETED", "FAILED"}
          /\ Outcome(r.status) = "COMPLETED" => r.status = "SUCCESS"
      BY <1>12, <2>1
         DEF AcceptReceipt, CanTransition, AllowedTransitions, Outcome, Receipts, Statuses
    <2> QED
      BY <1>12, <2>1, <2>2, <2>3 DEF AcceptReceipt
  <1>13. ASSUME NEW r \in receipts, RefuseReceipt(r) PROVE Rest'
    <2>1. r.task \in Tasks
      BY DEF Receipts
    <2> QED
      BY <1>13, <2>1 DEF RefuseReceipt
  <1>15. ASSUME NEW t \in Tasks, LeaseThrows(t) PROVE Rest'
    BY <1>15 DEF LeaseThrows, Store
  <1>14. CASE UNCHANGED vars
    BY <1>14 DEF vars
  <1> QED
    BY <1>1, <1>2, <1>3, <1>4, <1>5, <1>6, <1>7, <1>8, <1>9, <1>10, <1>11, <1>12, <1>13, <1>14, <1>15
       DEF Next, CreateStep, SettleReceipt

\* The invariant is inductive.
LEMMA Inductive == Spec => []IInv
  <1>1. IInv /\ [Next]_vars => IInv'
    BY TypeStep, OrderStep DEF IInv
  <1> QED
    BY InitInvariant, <1>1, PTL DEF Spec

\* The tasks map, the local records and the receipts keep their types.
THEOREM Typing == Spec => []TypeOK
  BY Inductive, PTL DEF IInv

\* createTask and createTaskGraph issue a lease and send an envelope only for a
\* task that every policy evaluation allowed.
THEOREM PolicyFailsClosed == Spec => []FailClosed
  <1>1. IInv => FailClosed
    BY DEF IInv, CreationOrder, FailClosed
  <1> QED
    BY Inductive, <1>1, PTL

\* settleReceipt is the only way to COMPLETED, with a verified receipt of
\* success from the agent the task was sent to.
THEOREM CompletionNeedsEvidence == Spec => []CompletedOnEvidence
  BY Inductive, PTL DEF IInv

\* However often receipts are delivered, settleReceipt stores at most one.
THEOREM AtMostOneSettlement == Spec => []SettledOnce
  BY Inductive, PTL DEF IInv

\* No transition leaves a terminal state.
LEMMA NoExit == \A s \in Terminal : \A x : ~CanTransition(s, x) /\ ~CanTransition(Advanced(s), x)
  BY DEF Terminal, CanTransition, AllowedTransitions, Advanced

\* Once createTask is over no call changes a terminal record.
THEOREM TerminalRecordsAreFinal == Spec => TerminalIsFinal
  <1> DEFINE Final == \A t \in Tasks :
        (pc[t] \in {"returned", "threw"} /\ tasks[t] \in Terminal) => tasks'[t] = tasks[t]
  <1>1. ASSUME TypeOK, [Next]_vars PROVE Final
    <2> SUFFICES ASSUME NEW u \in Tasks,
                        pc[u] \in {"returned", "threw"}, tasks[u] \in Terminal
                 PROVE  tasks'[u] = tasks[u]
      OBVIOUS
    <2> USE DEF TypeOK
    <2>1. ASSUME NEW t \in Tasks, Submit(t) PROVE tasks'[u] = tasks[u]
      BY <2>1 DEF Submit, Store
    <2>2. ASSUME NEW t \in Tasks, CreateStep(t) PROVE tasks'[u] = tasks[u]
      <3>1. tasks' = tasks \/ (pc[t] \notin {"returned", "threw"} /\ \E s : Store(t, s))
        BY <2>2 DEF CreateStep, PolicyDenies, NodeAllowed, IssueLease, LeaseThrows, MarkDispatched,
                    ReturnLeased, DispatchTask, CreateThrows
      <3> QED
        BY <1>1, <3>1 DEF Store
    <2>3. ASSUME NEW t \in Tasks, CancelTask(t) PROVE tasks'[u] = tasks[u]
      BY <1>1, <2>3, NoExit DEF CancelTask
    <2>4. ASSUME NEW t \in Tasks, DamagedReceipt(t) PROVE tasks'[u] = tasks[u]
      BY <2>4 DEF DamagedReceipt
    <2>5. ASSUME NEW t \in Tasks, NEW status \in Statuses, AgentReports(t, status)
          PROVE tasks'[u] = tasks[u]
      BY <2>5 DEF AgentReports
    <2>6. ASSUME NEW r \in receipts, SettleReceipt(r) PROVE tasks'[u] = tasks[u]
      BY <1>1, <2>6, NoExit DEF SettleReceipt, AcceptReceipt, RefuseReceipt, Receipts
    <2>7. CASE UNCHANGED vars
      BY <2>7 DEF vars
    <2> QED
      BY <1>1, <2>1, <2>2, <2>3, <2>4, <2>5, <2>6, <2>7 DEF Next
  <1>2. TypeOK /\ [Next]_vars => [Final]_vars
    BY <1>1
  <1> QED
    BY Typing, <1>2, PTL DEF Spec, TerminalIsFinal

-----------------------------------------------------------------------------
(* The delegation coordinator.                                             *)

\* Every session is filed under its own parent, and its child is leased by it.
Indexed ==
  \A d \in DOMAIN sessions :
    /\ sessions[d].parent \in DOMAIN parentToChildren
    /\ d \in parentToChildren[sessions[d].parent]
    /\ sessions[d].child \in DOMAIN leases
    /\ leases[sessions[d].child].parent = sessions[d].parent

\* Every child task that was minted still has its key in the cache.
Keyed == \A m \in minted : <<m[1], m[2]>> \in DOMAIN idempotencyCache

DelegationIInv == /\ DelegationTypeOK
        /\ AuthorityShrinks
        /\ Indexed
        /\ Keyed
        /\ RetryMintsOnce
        /\ NothingRunsUnderRevoked

USE DirectoryAssumption, DelegationAssumption

-----------------------------------------------------------------------------
\* The empty maps, sets and the clock at zero satisfy the invariant.
LEMMA DelegationStarts == DelegationInit => DelegationIInv
  BY DEF DelegationInit, DirectoryInit, DelegationIInv, DelegationTypeOK, DirectoryTypeOK, AuthorityShrinks, Indexed, Keyed,
         RetryMintsOnce, NothingRunsUnderRevoked

\* Every operation of the directory leaves well-formed records under its keys.
LEMMA DirectoryStep == DirectoryTypeOK /\ DirectoryNext => DirectoryTypeOK'
  <1> SUFFICES ASSUME DirectoryTypeOK, DirectoryNext
               PROVE  DirectoryTypeOK'
    OBVIOUS
  <1> USE DEF DirectoryTypeOK, AgentRecord, AgentStatus, Ages
  <1>1. ASSUME NEW k \in AgentKey, NEW age \in Ages, NEW scope \in WorkspaceScope,
               registerAgent(k, scope, age)
        PROVE  DirectoryTypeOK'
    BY <1>1 DEF registerAgent, Put
  <1>2. ASSUME NEW k \in AgentKey, NEW age \in Ages, NEW status \in AgentStatus,
               recordHeartbeat(k, status, age)
        PROVE  DirectoryTypeOK'
    BY <1>2 DEF recordHeartbeat
  <1>3. ASSUME NEW k \in AgentKey, retireAgent(k) PROVE DirectoryTypeOK'
    BY <1>3 DEF retireAgent
  <1>4. ASSUME NEW k \in AgentKey, HeartbeatAges(k) PROVE DirectoryTypeOK'
    BY <1>4 DEF HeartbeatAges
  <1>5. ASSUME NEW t \in Tenants, NEW w \in Workspaces, findEligibleAgents(t, w)
        PROVE  DirectoryTypeOK'
    BY <1>5 DEF findEligibleAgents
  <1>6. CASE pruneStaleAgents
    BY <1>6 DEF pruneStaleAgents
  <1> QED
    BY <1>1, <1>2, <1>3, <1>4, <1>5, <1>6 DEF DirectoryNext

-----------------------------------------------------------------------------
\* What an accepted delegation leaves behind: one fresh child whose lease is
\* cut from the lease of p, and one session filed under p and its key.
Delegated(p, d, k, c, scopes, depth, ttl) ==
  /\ leases' = Put(leases, c,
       [task |-> c, parent |-> p, root |-> leases[p].root, tenant |-> leases[p].tenant,
        depth |-> depth, scopes |-> scopes, expires |-> childExpiry(leases[p], ttl)])
  /\ scopes \subseteq leases[p].scopes
  /\ depth <= MaxDepth /\ depth <= IssuerMaxDepth
  /\ recordSession(d, p, k, c)
  /\ minted' = minted \union {<<p, k, c>>}
  /\ UNCHANGED <<agents, now, revokedTasks, accepted>>

\* Only a lease that verifies is delegated from, and that is the lease of p.
LEMMA DelegateEffect ==
  ASSUME DelegationTypeOK, NEW p \in DOMAIN leases, NEW d \in DelegationIds,
         NEW k \in IdempotencyKeys, delegateSubTask(p, d, k)
  PROVE  \E c \in Children \ DOMAIN leases, scopes \in SUBSET Scopes, depth \in Nat, ttl \in Nat :
           Delegated(p, d, k, c, scopes, depth, ttl)
  <1>1. PICK parent \in presentable(p), tenant \in Tenants, depth \in 1..(MaxDepth + 1),
             scopes \in SUBSET Scopes, ttl \in Ttls, c \in Children \ DOMAIN leases :
          /\ verifyLease(parent)
          /\ tenant = parent.tenant
          /\ depth <= MaxDepth
          /\ issueDelegatedLease(parent, p, c, tenant, scopes, depth, ttl)
          /\ recordSession(d, p, k, c)
          /\ minted' = minted \union {<<p, k, c>>}
    BY DEF delegateSubTask
  <1>2. parent = leases[p]
    BY <1>1 DEF verifyLease, issueDelegatedLease
  <1>3. scopes \subseteq leases[p].scopes
    BY <1>1, <1>2 DEF issueDelegatedLease, verifyScopeAttenuation
  <1>4. depth \in Nat /\ depth <= IssuerMaxDepth /\ ttl \in Nat
    BY <1>1 DEF issueDelegatedLease
  <1>5. leases' = Put(leases, c,
          [task |-> c, parent |-> p, root |-> leases[p].root, tenant |-> leases[p].tenant,
           depth |-> depth, scopes |-> scopes, expires |-> childExpiry(leases[p], ttl)])
    BY <1>1, <1>2 DEF issueDelegatedLease
  <1>6. UNCHANGED <<agents, now, revokedTasks, accepted>>
    BY DEF delegateSubTask
  <1>7. Delegated(p, d, k, c, scopes, depth, ttl)
    BY <1>1, <1>3, <1>4, <1>5, <1>6 DEF Delegated
  <1> QED
    BY <1>1, <1>4, <1>7

\* A delegation keeps the invariant.
LEMMA DelegateStep ==
  ASSUME DelegationIInv, NEW p \in DOMAIN leases, NEW d \in DelegationIds,
         NEW k \in IdempotencyKeys, delegateSubTask(p, d, k)
  PROVE  DelegationIInv'
  <1> USE DEF DelegationIInv
  <1>1. PICK c \in Children \ DOMAIN leases, scopes \in SUBSET Scopes, depth \in Nat, ttl \in Nat :
          Delegated(p, d, k, c, scopes, depth, ttl)
    BY DelegateEffect
  <1> DEFINE new == [task |-> c, parent |-> p, root |-> leases[p].root,
                     tenant |-> leases[p].tenant, depth |-> depth, scopes |-> scopes,
                     expires |-> childExpiry(leases[p], ttl)]
             entry == [parent |-> p, child |-> c, status |-> "ACCEPTED"]
  <1>2. leases[p] \in Lease /\ leases[p].task = p /\ p \in AllTasks /\ now \in Nat
    BY DEF DelegationTypeOK
  <1>3. /\ childExpiry(leases[p], ttl) \in Nat
        /\ childExpiry(leases[p], ttl) <= leases[p].expires
    BY <1>2 DEF childExpiry, Lease
  <1>4. new \in Lease
    BY <1>2, <1>3 DEF Lease, AllTasks
  <1>5. /\ DOMAIN leases' = DOMAIN leases \union {c}
        /\ leases'[c] = new
        /\ \A x \in DOMAIN leases : x # c => leases'[x] = leases[x]
    BY <1>1 DEF Delegated, Put
  <1>6. /\ DOMAIN sessions' = DOMAIN sessions \union {d}
        /\ sessions'[d] = entry
        /\ \A x \in DOMAIN sessions : x # d => sessions'[x] = sessions[x]
    BY <1>1 DEF Delegated, recordSession, Put
  <1>7. /\ DOMAIN parentToChildren' = DOMAIN parentToChildren \union {p}
        /\ parentToChildren'[p] = childrenOf(p) \union {d}
        /\ \A x \in DOMAIN parentToChildren : x # p => parentToChildren'[x] = parentToChildren[x]
    BY <1>1 DEF Delegated, recordSession, Put
  <1>8. /\ DOMAIN childToSession' = DOMAIN childToSession \union {c}
        /\ childToSession'[c] = d
        /\ \A x \in DOMAIN childToSession : x # c => childToSession'[x] = childToSession[x]
    BY <1>1 DEF Delegated, recordSession, Put
  <1>9. /\ DOMAIN idempotencyCache' = DOMAIN idempotencyCache \union {<<p, k>>}
        /\ idempotencyCache'[<<p, k>>] = d
        /\ \A x \in DOMAIN idempotencyCache : x # <<p, k>> => idempotencyCache'[x] = idempotencyCache[x]
    BY <1>1 DEF Delegated, recordSession, Put
  <1>10. /\ UNCHANGED <<agents, now, revokedTasks, accepted>>
         /\ minted' = minted \union {<<p, k, c>>}
    BY <1>1 DEF Delegated
  <1>11. DelegationTypeOK'
    <2>1. DirectoryTypeOK' /\ now' \in 0..MaxTime
      BY <1>10 DEF DelegationTypeOK, DirectoryTypeOK
    <2>2. /\ DOMAIN leases' \subseteq AllTasks
          /\ \A t \in DOMAIN leases' : leases'[t] \in Lease /\ leases'[t].task = t
      BY <1>4, <1>5 DEF DelegationTypeOK, AllTasks
    <2>3. /\ DOMAIN sessions' \subseteq DelegationIds
          /\ \A x \in DOMAIN sessions' : sessions'[x] \in Session
      BY <1>2, <1>6 DEF DelegationTypeOK, Session, Status
    <2>4. /\ DOMAIN parentToChildren' \subseteq AllTasks
          /\ \A t \in DOMAIN parentToChildren' : parentToChildren'[t] \subseteq DelegationIds
      BY <1>2, <1>7 DEF DelegationTypeOK, childrenOf
    <2>5. /\ DOMAIN childToSession' \subseteq Children
          /\ \A x \in DOMAIN childToSession' : childToSession'[x] \in DOMAIN sessions'
      BY <1>6, <1>8 DEF DelegationTypeOK
    <2>6. /\ DOMAIN idempotencyCache' \subseteq AllTasks \X IdempotencyKeys
          /\ \A pk \in DOMAIN idempotencyCache' : idempotencyCache'[pk] \in DOMAIN sessions'
      BY <1>2, <1>6, <1>9 DEF DelegationTypeOK
    <2>7. /\ revokedTasks' \subseteq AllTasks
          /\ minted' \subseteq AllTasks \X IdempotencyKeys \X Children
          /\ accepted' \subseteq [child : Children, at : 0..MaxTime]
      BY <1>2, <1>10 DEF DelegationTypeOK
    <2> QED
      BY <2>1, <2>2, <2>3, <2>4, <2>5, <2>6, <2>7 DEF DelegationTypeOK
  <1>12. AuthorityShrinks'
    <2>1. \A t \in DOMAIN leases : leases'[t] = leases[t] /\ leases[t].root \in DOMAIN leases
                                   /\ leases'[leases[t].root] = leases[leases[t].root]
      BY <1>5 DEF AuthorityShrinks
    <2>2. /\ new.root = leases[p].root
          /\ new.scopes \subseteq leases[new.root].scopes
          /\ new.tenant = leases[new.root].tenant
          /\ new.depth <= MaxDepth /\ new.depth <= IssuerMaxDepth
      BY <1>1 DEF AuthorityShrinks, Delegated
    <2>3. new.expires <= leases[new.root].expires
      <3>1. leases[p].root \in DOMAIN leases /\ leases[p].expires <= leases[leases[p].root].expires
        BY DEF AuthorityShrinks
      <3>2. leases[leases[p].root] \in Lease
        BY <3>1 DEF DelegationTypeOK
      <3> QED
        BY <1>2, <1>3, <3>1, <3>2 DEF Lease
    <2> QED
      BY <1>5, <1>10, <2>1, <2>2, <2>3 DEF AuthorityShrinks
  <1>13. Indexed'
    BY <1>5, <1>6, <1>7 DEF Indexed, childrenOf
  <1>14. <<p, k>> \notin DOMAIN idempotencyCache
    BY DEF delegateSubTask, recorded, DelegationTypeOK
  <1>15. Keyed'
    <2>1. ASSUME NEW m \in minted PROVE <<m[1], m[2]>> \in DOMAIN idempotencyCache'
      BY <1>9 DEF Keyed
    <2>2. <<<<p, k, c>>[1], <<p, k, c>>[2]>> \in DOMAIN idempotencyCache'
      BY <1>9
    <2> QED
      BY <1>10, <2>1, <2>2 DEF Keyed
  <1>16. RetryMintsOnce'
    BY <1>10, <1>14 DEF RetryMintsOnce, Keyed
  <1>17. NothingRunsUnderRevoked'
    BY <1>6, <1>10 DEF NothingRunsUnderRevoked, delegateSubTask
  <1> QED
    BY <1>11, <1>12, <1>13, <1>15, <1>16, <1>17

-----------------------------------------------------------------------------
\* A step that leaves the leases, the indexes and the revocations alone, only
\* moves the status of one session away from ACCEPTED, keeps the invariant.
LEMMA StatusStep ==
  ASSUME DelegationIInv, NEW d \in DOMAIN sessions, NEW status \in Status \ Active,
         sessions' = [sessions EXCEPT ![d].status = status],
         UNCHANGED <<agents, now, leases, parentToChildren, childToSession,
                     idempotencyCache, revokedTasks, minted>>,
         accepted' \subseteq [child : Children, at : 0..MaxTime],
         \A a \in accepted' :
           a.child \in DOMAIN leases /\ a.at <= leases[leases[a.child].root].expires
  PROVE  DelegationIInv'
  <1> USE DEF DelegationIInv
  <1>1. /\ DOMAIN sessions' = DOMAIN sessions
        /\ \A x \in DOMAIN sessions : /\ sessions'[x].parent = sessions[x].parent
                                      /\ sessions'[x].child = sessions[x].child
                                      /\ sessions'[x].status \in {sessions[x].status, status}
                                      /\ sessions'[x] \in Session
    BY DEF DelegationTypeOK, Session
  <1>2. DelegationTypeOK'
    BY <1>1 DEF DelegationTypeOK, DirectoryTypeOK
  <1>3. AuthorityShrinks'
    BY DEF AuthorityShrinks
  <1>4. Indexed'
    BY <1>1 DEF Indexed
  <1>5. Keyed' /\ RetryMintsOnce'
    BY DEF Keyed, RetryMintsOnce
  <1>6. NothingRunsUnderRevoked'
    BY <1>1 DEF NothingRunsUnderRevoked
  <1> QED
    BY <1>2, <1>3, <1>4, <1>5, <1>6

\* A receipt is settled in the lifetime of its own lease and with its parent
\* not revoked, or it times the session out.
LEMMA SettleStep ==
  ASSUME DelegationIInv, NEW c \in DOMAIN childToSession, NEW outcome, settleChildReceipt(c, outcome)
  PROVE  /\ DelegationIInv'
         /\ \A a \in accepted' \ accepted : leases[a.child].parent \notin revokedTasks
  <1> USE DEF DelegationIInv
  <1> DEFINE d == sessionOf(c)
  <1>1. /\ d \in DOMAIN sessions
        /\ sessions[d].parent \notin revokedTasks
        /\ sessions[d].child = c
        /\ c \in DOMAIN leases
        /\ leases[c].parent = sessions[d].parent
    BY DEF settleChildReceipt, receiptBelongs, Indexed
  <1>2. c \in Children /\ now \in 0..MaxTime
    BY DEF DelegationTypeOK
  <1>3. UNCHANGED <<agents, now, leases, parentToChildren, childToSession,
                    idempotencyCache, revokedTasks, minted>>
    BY DEF settleChildReceipt
  <1>4. CASE /\ sessions' = [sessions EXCEPT ![d].status = "TIMED_OUT"]
             /\ UNCHANGED accepted
    <2>1. "TIMED_OUT" \in Status \ Active
      BY DEF Status, Active
    <2>2. /\ accepted' \subseteq [child : Children, at : 0..MaxTime]
          /\ \A a \in accepted' :
               a.child \in DOMAIN leases /\ a.at <= leases[leases[a.child].root].expires
      BY <1>4 DEF DelegationTypeOK, AuthorityShrinks
    <2> HIDE DEF d
    <2>3. DelegationIInv'
      BY <1>1, <1>3, <1>4, <2>1, <2>2, StatusStep
    <2> QED
      BY <1>4, <2>3
  <1>5. CASE /\ now <= leases[sessions[d].child].expires
             /\ sessions' = [sessions EXCEPT ![d].status =
                               IF outcome = "SUCCESS" THEN "COMPLETED" ELSE "FAILED"]
             /\ accepted' = accepted \union {[child |-> c, at |-> now]}
    <2> DEFINE status == IF outcome = "SUCCESS" THEN "COMPLETED" ELSE "FAILED"
    <2>1. status \in Status \ Active
      BY DEF Status, Active
    <2>2. accepted' \subseteq [child : Children, at : 0..MaxTime]
      BY <1>2, <1>5 DEF DelegationTypeOK
    <2>3. now <= leases[leases[c].root].expires
      <3>1. leases[c].root \in DOMAIN leases /\ leases[c].expires <= leases[leases[c].root].expires
        BY <1>1 DEF AuthorityShrinks
      <3>2. leases[c] \in Lease /\ leases[leases[c].root] \in Lease
        BY <1>1, <3>1 DEF DelegationTypeOK
      <3> QED
        BY <1>1, <1>2, <1>5, <3>1, <3>2 DEF Lease
    <2>4. \A a \in accepted' :
            a.child \in DOMAIN leases /\ a.at <= leases[leases[a.child].root].expires
      BY <1>1, <1>5, <2>3 DEF AuthorityShrinks
    <2>5. \A a \in accepted' \ accepted : leases[a.child].parent \notin revokedTasks
      BY <1>1, <1>5
    <2>6. sessions' = [sessions EXCEPT ![d].status = status]
      BY <1>5
    <2> HIDE DEF d, status
    <2>7. DelegationIInv'
      BY <1>1, <1>3, <2>1, <2>2, <2>4, <2>6, StatusStep
    <2> QED
      BY <2>5, <2>7
  <1> QED
    BY <1>4, <1>5 DEF settleChildReceipt

\* A reported failure keeps the invariant.
LEMMA FailureStep ==
  ASSUME DelegationIInv, NEW c \in DOMAIN childToSession, handleChildFailure(c)
  PROVE  DelegationIInv'
  <1>1. /\ sessionOf(c) \in DOMAIN sessions
        /\ "FAILED" \in Status \ Active
        /\ sessions' = [sessions EXCEPT ![sessionOf(c)].status = "FAILED"]
        /\ UNCHANGED <<agents, now, leases, parentToChildren, childToSession,
                       idempotencyCache, revokedTasks, minted>>
    BY DEF handleChildFailure, Status, Active
  <1>2. /\ accepted' \subseteq [child : Children, at : 0..MaxTime]
        /\ \A a \in accepted' :
             a.child \in DOMAIN leases /\ a.at <= leases[leases[a.child].root].expires
    BY DEF handleChildFailure, DelegationIInv, DelegationTypeOK, AuthorityShrinks
  <1> QED
    BY <1>1, <1>2, StatusStep

-----------------------------------------------------------------------------
\* The walk of cancelDelegation visits its start and, from every task it
\* visits, the child of every session it cancels.
LEMMA CascadeIsClosed ==
  ASSUME DelegationTypeOK, NEW p \in AllTasks
  PROVE  p \in cascade(p) /\ closedUnderCancel(cascade(p))
  <1>1. p \in cascade(p)
    BY DEF cascade
  <1>2. ASSUME NEW t \in cascade(p), NEW d \in cancellable(t)
        PROVE  sessions[d].child \in cascade(p)
    <2>1. sessions[d].child \in AllTasks
      BY DEF cancellable, DelegationTypeOK, Session, AllTasks
    <2>2. ASSUME NEW S \in SUBSET AllTasks, p \in S, closedUnderCancel(S)
          PROVE  sessions[d].child \in S
      BY <2>2 DEF cascade, closedUnderCancel
    <2> QED
      BY <2>1, <2>2 DEF cascade
  <1> QED
    BY <1>1, <1>2 DEF closedUnderCancel

\* A cancellation keeps the invariant: whatever is filed under a task it
\* revokes has been visited.
LEMMA CascadeStep ==
  ASSUME DelegationIInv, NEW p \in AllTasks, cancelDelegation(p)
  PROVE  DelegationIInv'
  <1> USE DEF DelegationIInv
  <1> DEFINE visited == cascade(p)
             hit == {d \in DOMAIN sessions : \E t \in visited : d \in cancellable(t)}
  <1>1. /\ revokedTasks' = revokedTasks \union {p} \union {sessions[d].child : d \in hit}
        /\ sessions' = [d \in DOMAIN sessions |->
                          IF d \in hit THEN [sessions[d] EXCEPT !.status = "CANCELLED"]
                                       ELSE sessions[d]]
        /\ UNCHANGED <<agents, now, leases, parentToChildren, childToSession,
                       idempotencyCache, minted, accepted>>
    BY DEF cancelDelegation
  <1>2. revokedTasks' \subseteq revokedTasks \union visited
    BY <1>1, CascadeIsClosed DEF closedUnderCancel
  <1>3. /\ DOMAIN sessions' = DOMAIN sessions
        /\ \A x \in DOMAIN sessions : /\ sessions'[x].parent = sessions[x].parent
                                      /\ sessions'[x].child = sessions[x].child
                                      /\ sessions'[x].status \in {sessions[x].status, "CANCELLED"}
                                      /\ sessions'[x] \in Session
    BY <1>1 DEF DelegationTypeOK, Session, Status
  <1>4. DelegationTypeOK'
    <2>1. revokedTasks' \subseteq AllTasks
      BY <1>2 DEF cascade, DelegationTypeOK
    <2> QED
      BY <1>1, <1>3, <2>1 DEF DelegationTypeOK, DirectoryTypeOK
  <1>5. AuthorityShrinks' /\ Indexed' /\ Keyed' /\ RetryMintsOnce'
    BY <1>1, <1>3 DEF AuthorityShrinks, Indexed, Keyed, RetryMintsOnce
  <1>6. NothingRunsUnderRevoked'
    <2> SUFFICES ASSUME NEW d \in DOMAIN sessions, sessions[d].parent \in revokedTasks'
                 PROVE  sessions'[d].status \notin Active
      BY <1>3 DEF NothingRunsUnderRevoked
    <2>1. "CANCELLED" \notin Active /\ "COMPLETED" \notin Active
      BY DEF Active
    <2>2. CASE sessions[d].parent \in revokedTasks
      BY <1>3, <2>1, <2>2 DEF NothingRunsUnderRevoked
    <2>3. CASE sessions[d].parent \in visited
      <3>1. d \in childrenOf(sessions[d].parent)
        BY DEF Indexed, childrenOf
      <3>2. CASE sessions[d].status \in {"COMPLETED", "CANCELLED"}
        BY <1>3, <2>1, <3>2
      <3>3. CASE sessions[d].status \notin {"COMPLETED", "CANCELLED"}
        <4>1. d \in hit
          BY <2>3, <3>1, <3>3 DEF cancellable
        <4>2. sessions'[d].status = "CANCELLED"
          BY <1>1, <4>1 DEF DelegationTypeOK, Session
        <4> QED
          BY <2>1, <4>2
      <3> QED
        BY <3>2, <3>3
    <2> QED
      BY <1>2, <2>2, <2>3
  <1> QED
    BY <1>4, <1>5, <1>6

\* A root lease is its own root and keeps the invariant.
LEMMA LendStep == DelegationIInv /\ Lend => DelegationIInv'
  <1> SUFFICES ASSUME DelegationIInv, Lend PROVE DelegationIInv'
    OBVIOUS
  <1> USE DEF DelegationIInv
  <1>1. PICK t \in Roots, tenant \in Tenants, scopes \in SUBSET Scopes, ttl \in Ttls :
          issueLease(t, tenant, scopes, ttl)
    BY DEF Lend
  <1> DEFINE new == [task |-> t, parent |-> t, root |-> t, tenant |-> tenant, depth |-> 0,
                     scopes |-> scopes, expires |-> now + ttl]
  <1>2. UNCHANGED <<agents, now, sessions, parentToChildren, childToSession,
                    idempotencyCache, revokedTasks, minted, accepted>>
    BY DEF Lend
  <1>3. /\ t \notin DOMAIN leases
        /\ DOMAIN leases' = DOMAIN leases \union {t}
        /\ leases'[t] = new
        /\ \A x \in DOMAIN leases : leases'[x] = leases[x]
    BY <1>1 DEF issueLease, Put
  <1>4. new \in Lease
    BY DEF Lease, AllTasks, DelegationTypeOK
  <1>5. DelegationTypeOK'
    BY <1>2, <1>3, <1>4 DEF DelegationTypeOK, DirectoryTypeOK, AllTasks
  <1>6. AuthorityShrinks'
    <2>1. \A x \in DOMAIN leases : leases[x].root \in DOMAIN leases
                                   /\ leases'[leases[x].root] = leases[leases[x].root]
      BY <1>3 DEF AuthorityShrinks
    <2>2. new.expires <= new.expires /\ new.depth <= MaxDepth /\ new.depth <= IssuerMaxDepth
      BY DEF DelegationTypeOK
    <2> QED
      BY <1>2, <1>3, <2>1, <2>2 DEF AuthorityShrinks
  <1>7. Indexed'
    BY <1>2, <1>3 DEF Indexed
  <1>8. Keyed' /\ RetryMintsOnce' /\ NothingRunsUnderRevoked'
    BY <1>2 DEF Keyed, RetryMintsOnce, NothingRunsUnderRevoked
  <1> QED
    BY <1>5, <1>6, <1>7, <1>8

\* Every step keeps the invariant.
LEMMA DelegationKeeps == DelegationIInv /\ [DelegationNext]_delegationVars => DelegationIInv'
  <1> SUFFICES ASSUME DelegationIInv, [DelegationNext]_delegationVars PROVE DelegationIInv'
    OBVIOUS
  <1>1. ASSUME UNCHANGED coordinatorVars, DirectoryTypeOK', now' \in 0..MaxTime
        PROVE  DelegationIInv'
    BY <1>1 DEF DelegationIInv, coordinatorVars, DelegationTypeOK, AuthorityShrinks, Indexed, Keyed, RetryMintsOnce,
                NothingRunsUnderRevoked
  <1>2. CASE Tick
    BY <1>1, <1>2 DEF Tick, DelegationIInv, DelegationTypeOK, DirectoryTypeOK
  <1>3. CASE Directory
    BY <1>1, <1>3, DirectoryStep DEF Directory, DelegationIInv, DelegationTypeOK
  <1>4. CASE Lend
    BY <1>4, LendStep
  <1>5. ASSUME NEW p \in DOMAIN leases, NEW d \in DelegationIds, NEW k \in IdempotencyKeys,
               delegateSubTask(p, d, k)
        PROVE  DelegationIInv'
    BY <1>5, DelegateStep
  <1>6. ASSUME NEW c \in DOMAIN childToSession, NEW outcome \in {"SUCCESS", "FAILED"},
               settleChildReceipt(c, outcome)
        PROVE  DelegationIInv'
    BY <1>6, SettleStep
  <1>7. ASSUME NEW c \in DOMAIN childToSession, handleChildFailure(c) PROVE DelegationIInv'
    BY <1>7, FailureStep
  <1>8. ASSUME NEW p \in Roots \union DOMAIN leases, cancelDelegation(p) PROVE DelegationIInv'
    <2>1. p \in AllTasks
      BY DEF AllTasks, DelegationIInv, DelegationTypeOK
    <2> QED
      BY <1>8, <2>1, CascadeStep
  <1>9. CASE UNCHANGED delegationVars
    BY <1>1, <1>9 DEF delegationVars, DelegationIInv, DelegationTypeOK, DirectoryTypeOK
  <1> QED
    BY <1>2, <1>3, <1>4, <1>5, <1>6, <1>7, <1>8, <1>9 DEF DelegationNext

LEMMA DelegationInvariance == DelegationSpec => []DelegationIInv
  BY DelegationStarts, DelegationKeeps, PTL DEF DelegationSpec

\* The maps of the coordinator and the directory stay well formed.
THEOREM DelegationTyping == DelegationSpec => []DelegationTypeOK
  BY DelegationInvariance, PTL DEF DelegationIInv

\* Whatever is delegated, to any depth, stays inside the lease its chain
\* started from: issueDelegatedLease and settleChildReceipt together.
THEOREM DelegationAttenuates == DelegationSpec => []AuthorityShrinks
  BY DelegationInvariance, PTL DEF DelegationIInv

\* A retried delegateSubTask mints no second child.
THEOREM RetryIsIdempotent == DelegationSpec => []RetryMintsOnce
  BY DelegationInvariance, PTL DEF DelegationIInv

\* cancelDelegation leaves nothing active under any task it revokes, and
\* delegateSubTask starts nothing there later.
THEOREM CancellationHolds == DelegationSpec => []NothingRunsUnderRevoked
  BY DelegationInvariance, PTL DEF DelegationIInv

\* settleChildReceipt refuses the receipt of a child whose parent was revoked.
THEOREM LateReceiptsAreRefused == DelegationSpec => NoLateReceipt
  <1>1. DelegationIInv /\ [DelegationNext]_delegationVars =>
          [\A a \in accepted' \ accepted : leases[a.child].parent \notin revokedTasks]_delegationVars
    <2> SUFFICES ASSUME DelegationIInv, DelegationNext
                 PROVE  \A a \in accepted' \ accepted : leases[a.child].parent \notin revokedTasks
      OBVIOUS
    <2>1. ASSUME UNCHANGED accepted
          PROVE  \A a \in accepted' \ accepted : leases[a.child].parent \notin revokedTasks
      BY <2>1
    <2>2. CASE Tick \/ Directory
      BY <2>1, <2>2 DEF Tick, Directory, coordinatorVars
    <2>3. CASE Lend
      BY <2>1, <2>3 DEF Lend
    <2>4. ASSUME NEW p \in DOMAIN leases, NEW d \in DelegationIds, NEW k \in IdempotencyKeys,
                 delegateSubTask(p, d, k)
          PROVE  UNCHANGED accepted
      BY <2>4 DEF delegateSubTask
    <2>5. ASSUME NEW c \in DOMAIN childToSession, NEW outcome \in {"SUCCESS", "FAILED"},
                 settleChildReceipt(c, outcome)
          PROVE  \A a \in accepted' \ accepted : leases[a.child].parent \notin revokedTasks
      BY <2>5, SettleStep
    <2>6. ASSUME NEW c \in DOMAIN childToSession, handleChildFailure(c) PROVE UNCHANGED accepted
      BY <2>6 DEF handleChildFailure
    <2>7. ASSUME NEW p \in Roots \union DOMAIN leases, cancelDelegation(p) PROVE UNCHANGED accepted
      BY <2>7 DEF cancelDelegation
    <2> QED
      BY <2>1, <2>2, <2>3, <2>4, <2>5, <2>6, <2>7 DEF DelegationNext
  <1> QED
    BY <1>1, DelegationInvariance, PTL DEF DelegationSpec, NoLateReceipt

-----------------------------------------------------------------------------
\* The active delegations of task p, as FanOutHeld counts them.
ActiveOf(p) == {d \in DOMAIN sessions : sessions[d].parent = p /\ sessions[d].status \in Active}

\* A set of delegations counts no less than its subsets.
LEMMA SmallerCount ==
  ASSUME NEW S \in SUBSET DelegationIds, NEW T \in SUBSET S
  PROVE  /\ IsFiniteSet(S) /\ Cardinality(S) \in Nat
         /\ Cardinality(T) \in Nat
         /\ Cardinality(T) <= Cardinality(S)
  <1>1. IsFiniteSet(S)
    BY FS_Subset
  <1>2. IsFiniteSet(T) /\ Cardinality(T) <= Cardinality(S)
    BY <1>1, FS_Subset
  <1> QED
    BY <1>1, <1>2, FS_CardinalityType

\* Only a delegation adds to the active delegations of a task, and it counts
\* them first.
LEMMA FanOutStep == DelegationIInv /\ FanOutHeld /\ [DelegationNext]_delegationVars => FanOutHeld'
  <1> SUFFICES ASSUME DelegationIInv, FanOutHeld, [DelegationNext]_delegationVars, NEW q \in AllTasks
               PROVE  Cardinality(ActiveOf(q)') <= MaxFanOut
    BY DEF FanOutHeld, ActiveOf
  <1>1. ActiveOf(q) \in SUBSET DelegationIds /\ Cardinality(ActiveOf(q)) <= MaxFanOut
    BY DEF DelegationIInv, DelegationTypeOK, ActiveOf, FanOutHeld
  <1>2. ASSUME ActiveOf(q)' \subseteq ActiveOf(q)
        PROVE  Cardinality(ActiveOf(q)') <= MaxFanOut
    BY <1>1, <1>2, SmallerCount
  <1>3. CASE Tick \/ Directory \/ Lend \/ UNCHANGED delegationVars
    <2>1. ActiveOf(q)' = ActiveOf(q)
      BY <1>3 DEF Tick, Directory, Lend, delegationVars, coordinatorVars, ActiveOf
    <2> QED
      BY <1>2, <2>1
  <1>4. ASSUME NEW p \in DOMAIN leases, NEW d \in DelegationIds, NEW k \in IdempotencyKeys,
               delegateSubTask(p, d, k)
        PROVE  Cardinality(ActiveOf(q)') <= MaxFanOut
    <2>1. PICK c \in Children : recordSession(d, p, k, c)
      BY <1>4 DEF delegateSubTask
    <2>2. /\ DOMAIN sessions' = DOMAIN sessions \union {d}
          /\ sessions'[d].parent = p
          /\ \A x \in DOMAIN sessions : x # d => sessions'[x] = sessions[x]
      BY <2>1 DEF recordSession, Put
    <2>3. CASE q # p
      <3>1. ActiveOf(q)' \subseteq ActiveOf(q)
        BY <2>2, <2>3 DEF ActiveOf
      <3> QED
        BY <1>2, <3>1
    <2>4. CASE q = p
      <3>1. activeChildren(p) \in SUBSET DelegationIds
        BY DEF activeChildren, DelegationIInv, DelegationTypeOK
      <3>2. Cardinality(activeChildren(p)) < MaxFanOut
        BY <1>4 DEF delegateSubTask
      <3>3. ActiveOf(p)' \subseteq activeChildren(p) \union {d}
        BY <2>2 DEF ActiveOf, activeChildren, DelegationIInv, Indexed, childrenOf
      <3>4. /\ activeChildren(p) \union {d} \in SUBSET DelegationIds
            /\ Cardinality(activeChildren(p) \union {d}) <= Cardinality(activeChildren(p)) + 1
            /\ Cardinality(activeChildren(p)) \in Nat
        <4>1. IsFiniteSet(activeChildren(p)) /\ Cardinality(activeChildren(p)) \in Nat
          BY <3>1, SmallerCount
        <4>2. Cardinality(activeChildren(p) \union {d})
                = IF d \in activeChildren(p) THEN Cardinality(activeChildren(p))
                                             ELSE Cardinality(activeChildren(p)) + 1
          BY <4>1, FS_AddElement
        <4> QED
          BY <3>1, <4>1, <4>2
      <3> QED
        BY <2>4, <3>2, <3>3, <3>4, SmallerCount
    <2> QED
      BY <2>3, <2>4
  <1>5. ASSUME NEW c \in DOMAIN childToSession, NEW outcome \in {"SUCCESS", "FAILED"},
               settleChildReceipt(c, outcome)
        PROVE  ActiveOf(q)' \subseteq ActiveOf(q)
    BY <1>5 DEF settleChildReceipt, ActiveOf, Active, DelegationIInv, DelegationTypeOK, Session
  <1>6. ASSUME NEW c \in DOMAIN childToSession, handleChildFailure(c)
        PROVE  ActiveOf(q)' \subseteq ActiveOf(q)
    BY <1>6 DEF handleChildFailure, ActiveOf, Active, DelegationIInv, DelegationTypeOK, Session
  <1>7. ASSUME NEW p \in Roots \union DOMAIN leases, cancelDelegation(p)
        PROVE  ActiveOf(q)' \subseteq ActiveOf(q)
    BY <1>7 DEF cancelDelegation, ActiveOf, Active, DelegationIInv, DelegationTypeOK, Session
  <1> QED
    BY <1>2, <1>3, <1>4, <1>5, <1>6, <1>7 DEF DelegationNext

\* No parent ever has more active delegations of its own than maxFanOut.
THEOREM FanOutIsBounded == DelegationSpec => []FanOutHeld
  <1>1. DelegationInit => FanOutHeld
    <2> SUFFICES ASSUME DelegationInit, NEW p \in AllTasks
                 PROVE  Cardinality(ActiveOf(p)) <= MaxFanOut
      BY DEF FanOutHeld, ActiveOf
    <2>1. ActiveOf(p) = {}
      BY DEF DelegationInit, ActiveOf
    <2> QED
      BY <2>1, FS_EmptySet
  <1> QED
    BY <1>1, FanOutStep, DelegationInvariance, PTL DEF DelegationSpec
=============================================================================
