------------------------- MODULE OrchestratorProofs -------------------------
(***************************************************************************)
(* Proofs about task execution on the desktop agent: for every set of      *)
(* calls, tasks and users, every concurrency limit and every interleaving  *)
(* of calls, cancellations, timeouts and decisions.                        *)
(***************************************************************************)
EXTENDS Orchestrator, FiniteSetTheorems, TLAPS

-----------------------------------------------------------------------------
(* Slots and the mutex.                                                    *)

SlotTypeOK ==
  /\ pc \in [Executions -> Pcs] /\ active \in Nat
  /\ lock \in Executions \cup {None, "cancel"}

Holders == {e \in Executions : pc[e] \in Reserved}
SlotIInv == SlotTypeOK /\ ResourcesExact

\* Moves within the slots, or outside of them, leave their number alone.
LEMMA HoldersKept ==
  ASSUME SlotTypeOK, NEW e \in Executions, NEW where \in Pcs, MoveTo(e, where),
         pc[e] \in Reserved <=> where \in Reserved
  PROVE  Holders' = Holders /\ pc' \in [Executions -> Pcs]
  BY DEF SlotTypeOK, MoveTo, Holders

LEMMA HolderAdded ==
  ASSUME SlotTypeOK, NEW e \in Executions, NEW where \in Reserved, MoveTo(e, where), pc[e] \notin Reserved
  PROVE  Cardinality(Holders') = Cardinality(Holders) + 1 /\ pc' \in [Executions -> Pcs]
  <1>1. Holders' = Holders \cup {e} /\ e \notin Holders /\ pc' \in [Executions -> Pcs]
    BY DEF SlotTypeOK, MoveTo, Holders, Pcs
  <1>2. IsFiniteSet(Holders)
    BY OrchestratorAssumption, FS_Subset DEF Holders
  <1>3. Cardinality(Holders \cup {e}) = Cardinality(Holders) + 1
    BY <1>1, <1>2, FS_AddElement
  <1> QED
    BY <1>1, <1>3

LEMMA HolderRemoved ==
  ASSUME SlotTypeOK, NEW e \in Executions, MoveTo(e, "done"), pc[e] \in Reserved
  PROVE  /\ Cardinality(Holders') = Cardinality(Holders) - 1 /\ pc' \in [Executions -> Pcs]
         /\ Cardinality(Holders) \in Nat /\ Cardinality(Holders) > 0
  <1>1. Holders' = Holders \ {e} /\ e \in Holders /\ pc' \in [Executions -> Pcs]
    BY DEF SlotTypeOK, MoveTo, Holders, Pcs, Reserved
  <1>2. IsFiniteSet(Holders)
    BY OrchestratorAssumption, FS_Subset DEF Holders
  <1>3. Cardinality(Holders \ {e}) = Cardinality(Holders) - 1
    BY <1>1, <1>2, FS_RemoveElement
  <1>4. Cardinality(Holders) \in Nat /\ Cardinality(Holders) # 0
    BY <1>1, <1>2, FS_CardinalityType, FS_EmptySet
  <1> QED
    BY <1>1, <1>3, <1>4

\* A call moves, with or without giving its slot back; the mutex stays as it is.
LEMMA SlotStep ==
  ASSUME SlotIInv, NEW e \in Executions, NEW where \in Pcs, MoveTo(e, where),
         pc[e] # "settling", where # "settling", UNCHANGED lock,
         \/ (pc[e] \in Reserved <=> where \in Reserved) /\ active' = active
         \/ pc[e] \in Reserved /\ where = "done" /\ active' = IF active > 0 THEN active - 1 ELSE 0
         \/ pc[e] \notin Reserved /\ where \in Reserved /\ active < MaxConcurrency /\ active' = active + 1
  PROVE  SlotIInv'
  <1> USE OrchestratorAssumption DEF SlotIInv, ResourcesExact
  <1>1. active = Cardinality(Holders) /\ active <= MaxConcurrency /\ LockIsHeld
    BY DEF SlotsExact, Holders
  <1>2. LockIsHeld' /\ lock' \in Executions \cup {None, "cancel"}
    BY <1>1 DEF LockIsHeld, MoveTo, SlotTypeOK
  <1>3. CASE (pc[e] \in Reserved <=> where \in Reserved) /\ active' = active
    BY <1>1, <1>2, <1>3, HoldersKept DEF SlotTypeOK, SlotsExact, Holders
  <1>4. CASE pc[e] \in Reserved /\ where = "done" /\ active' = IF active > 0 THEN active - 1 ELSE 0
    <2>1. /\ Cardinality(Holders') = Cardinality(Holders) - 1 /\ pc' \in [Executions -> Pcs]
          /\ Cardinality(Holders) \in Nat /\ Cardinality(Holders) > 0
      BY <1>4, HolderRemoved
    <2>2. active' = Cardinality(Holders') /\ active' \in Nat /\ active' <= MaxConcurrency
      BY <1>1, <1>4, <2>1
    <2> QED
      BY <1>2, <2>1, <2>2 DEF SlotTypeOK, SlotsExact, Holders
  <1>5. CASE pc[e] \notin Reserved /\ where \in Reserved /\ active < MaxConcurrency /\ active' = active + 1
    <2>1. Cardinality(Holders') = Cardinality(Holders) + 1 /\ pc' \in [Executions -> Pcs]
      BY <1>5, HolderAdded
    <2>2. active' = Cardinality(Holders') /\ active' \in Nat /\ active' <= MaxConcurrency
      BY <1>1, <1>5, <2>1 DEF SlotTypeOK
    <2> QED
      BY <1>2, <2>1, <2>2 DEF SlotTypeOK, SlotsExact, Holders
  <1> QED
    BY <1>3, <1>4, <1>5

LEMMA SlotsNext == SlotIInv /\ [Next]_vars => SlotIInv'
  <1> SUFFICES ASSUME SlotIInv, [Next]_vars PROVE SlotIInv'
    OBVIOUS
  <1>0. ASSUME UNCHANGED <<pc, active>>, lock' = lock \/ {lock, lock'} \subseteq {None, "cancel"} PROVE SlotIInv'
    BY <1>0, OrchestratorAssumption DEF SlotIInv, SlotTypeOK, ResourcesExact, SlotsExact, LockIsHeld, None
  <1>1. ASSUME NEW e \in Executions, Enter(e) \/ EnterDuplicate(e) \/ EnterReplay(e) \/ Deny(e) \/ Reserve(e) \/ ReserveFails(e)
        PROVE  SlotIInv'
    <2>1. pc[e] \in {"idle", "validating"} /\ UNCHANGED lock
      BY <1>1 DEF Enter, EnterDuplicate, EnterReplay, Deny, Reserve, ReserveFails, Refuse
    <2>2. \/ MoveTo(e, "validating") /\ active' = active
          \/ MoveTo(e, "done") /\ active' = active
          \/ MoveTo(e, "reserved") /\ active < MaxConcurrency /\ active' = active + 1
      BY <1>1 DEF Enter, EnterDuplicate, EnterReplay, Deny, Reserve, ReserveFails, Refuse
    <2> QED
      BY <2>1, <2>2, SlotStep DEF Pcs, Reserved
  <1>2. ASSUME NEW e \in Executions, MarkRunning(e) \/ Start(e) \/ MarkAwaiting(e) \/ Present(e) \/ Await(e) \/ Throw(e)
                                     \/ Approved(e) \/ Refused(e) \/ WaitRejected(e)
        PROVE  SlotIInv'
    <2>1. pc[e] \in Reserved /\ pc[e] # "settling" /\ UNCHANGED lock
      BY <1>2 DEF MarkRunning, Start, MarkAwaiting, Present, Await, Throw, Approved, Refused, WaitRejected, Reserved
    <2>2. \/ MoveTo(e, "done") /\ active' = IF active > 0 THEN active - 1 ELSE 0
          \/ /\ \E where \in {"starting", "asking", "executing", "presenting", "presented", "waiting"} : MoveTo(e, where)
             /\ active' = active
      BY <1>2 DEF MarkRunning, Start, MarkAwaiting, Present, Await, Throw, Approved, Refused, WaitRejected, Release
    <2> QED
      BY <2>1, <2>2, SlotStep DEF Pcs, Reserved
  <1>3. ASSUME NEW e \in Executions, NEW outcome, RuntimeEnds(e, outcome) PROVE SlotIInv'
    BY <1>3, SlotStep DEF RuntimeEnds, Pcs, Reserved
  <1>4. ASSUME NEW e \in Executions, Resolve(e) PROVE SlotIInv'
    <2>1. MoveTo(e, "settling") /\ pc[e] = "resolving" /\ lock = None /\ lock' = e /\ active' = active
      BY <1>4 DEF Resolve
    <2>2. Holders' = Holders /\ pc' \in [Executions -> Pcs]
      BY <2>1, HoldersKept DEF SlotIInv, Pcs, Reserved
    <2>3. LockIsHeld'
      BY <2>1, OrchestratorAssumption DEF SlotIInv, SlotTypeOK, ResourcesExact, LockIsHeld, MoveTo, None
    <2> QED
      BY <2>1, <2>2, <2>3 DEF SlotIInv, SlotTypeOK, ResourcesExact, SlotsExact, Holders
  <1>5. ASSUME NEW e \in Executions, Settle(e) PROVE SlotIInv'
    <2>1. /\ MoveTo(e, "done") /\ pc[e] = "settling" /\ lock' = None /\ lock = e
          /\ active' = IF active > 0 THEN active - 1 ELSE 0
      BY <1>5 DEF Settle, Release, SlotIInv, ResourcesExact, LockIsHeld
    <2>2. /\ Cardinality(Holders') = Cardinality(Holders) - 1 /\ pc' \in [Executions -> Pcs]
          /\ Cardinality(Holders) \in Nat /\ Cardinality(Holders) > 0
      BY <2>1, HolderRemoved DEF SlotIInv, Reserved
    <2>3. active' = Cardinality(Holders') /\ active' \in Nat /\ active' <= MaxConcurrency
      BY <2>1, <2>2, OrchestratorAssumption DEF SlotIInv, ResourcesExact, SlotsExact, Holders
    <2>4. LockIsHeld'
      BY <2>1, OrchestratorAssumption DEF SlotIInv, SlotTypeOK, ResourcesExact, LockIsHeld, MoveTo, None
    <2> QED
      BY <2>1, <2>2, <2>3, <2>4 DEF SlotIInv, SlotTypeOK, ResourcesExact, SlotsExact, Holders
  <1>6. ASSUME NEW e \in Executions, Timeout(e) PROVE SlotIInv'
    BY <1>0, <1>6 DEF Timeout
  <1>7. ASSUME NEW t \in Tasks, CancelTask(t) PROVE SlotIInv'
    BY <1>0, <1>7 DEF CancelTask
  <1>8. CASE CancelReturns \/ (UserStep /\ UNCHANGED orchVars) \/ UNCHANGED vars
    BY <1>0, <1>8 DEF CancelReturns, orchVars, vars
  <1> QED
    BY <1>1, <1>2, <1>3, <1>4, <1>5, <1>6, <1>7, <1>8 DEF Next, Step

(***************************************************************************)
(* executeTask gives back what it borrows on every exit: activeCount is    *)
(* the number of calls that hold a slot, within the limit, and the state   *)
(* mutex is held by the call that settles and by no other                  *)
(* (agent-orchestrator.ts).                                                *)
(***************************************************************************)
THEOREM ResourcesAlwaysExact == Spec => []ResourcesExact
  <1>1. Init => SlotIInv
    <2> SUFFICES ASSUME Init PROVE SlotIInv
      OBVIOUS
    <2>1. \A e \in Executions : pc[e] = "idle"
      BY DEF Init, Started
    <2>2. Holders = {}
      BY <2>1 DEF Holders, Reserved
    <2>3. SlotTypeOK
      BY DEF Init, Started, SlotTypeOK, Pcs
    <2>4. SlotsExact
      <3>1. active = 0 /\ 0 <= MaxConcurrency
        BY OrchestratorAssumption DEF Init, Started
      <3> QED
        BY <2>2, <3>1, FS_EmptySet DEF SlotsExact, Holders
    <2>5. LockIsHeld
      BY <2>1, OrchestratorAssumption DEF Init, Started, LockIsHeld, None
    <2> QED
      BY <2>3, <2>4, <2>5 DEF SlotIInv, ResourcesExact
  <1>2. SlotIInv => ResourcesExact
    BY DEF SlotIInv
  <1> QED
    BY <1>1, <1>2, SlotsNext, PTL DEF Spec

-----------------------------------------------------------------------------
(* A message runs once while its key is remembered.                        *)

\* The replay map has lost the oldest part of the admitted calls: records that
\* had lapsed, or that so many calls followed.
KeyIInv ==
  /\ admitted \in Seq(Executions) /\ lapsed \in Nat /\ forgotten \in 0..Len(admitted)
  /\ \A i \in 1..forgotten : i <= lapsed \/ Len(admitted) - i >= MaxReplayCacheSize - EvictedKeys
  /\ KeyRunsOnce

\* pruneOldProcessedMessages keeps to that.
LEMMA PruneForgetsOld ==
  ASSUME KeyIInv, NEW n \in 0..Len(admitted), Prune(n)
  PROVE  /\ n \in Nat /\ lapsed <= n /\ Forgotten(n) \in 0..Len(admitted)
         /\ \A i \in 1..Forgotten(n) : i <= n \/ Len(admitted) - i >= MaxReplayCacheSize - EvictedKeys
  <1> DEFINE size == Len(admitted)
             old == IF n > forgotten THEN n ELSE forgotten
  <1>1. size \in Nat /\ lapsed \in Nat /\ forgotten \in 0..size /\ n \in 0..size /\ lapsed <= n
    BY DEF KeyIInv, Prune
  <1>2. MaxReplayCacheSize \in Nat /\ EvictedKeys \in 1..MaxReplayCacheSize
    BY OrchestratorAssumption
  <1>3. old \in 0..size /\ \A i \in 1..old : i <= n \/ size - i >= MaxReplayCacheSize - EvictedKeys
    BY <1>1 DEF KeyIInv
  <1>4. Forgotten(n) = IF size - old >= MaxReplayCacheSize THEN old + EvictedKeys ELSE old
    BY DEF Forgotten
  <1> HIDE DEF size, old
  <1>5. Forgotten(n) \in 0..size
    BY <1>1, <1>2, <1>3, <1>4
  <1>6. ASSUME NEW i \in 1..Forgotten(n) PROVE i <= n \/ size - i >= MaxReplayCacheSize - EvictedKeys
    <2>1. CASE i <= old
      BY <1>3, <1>5, <2>1
    <2>2. CASE ~(i <= old)
      BY <1>1, <1>2, <1>3, <1>4, <1>5, <2>2
    <2> QED
      BY <2>1, <2>2
  <1> QED
    BY <1>1, <1>5, <1>6 DEF size

LEMMA KeysNext == KeyIInv /\ [Next]_vars => KeyIInv'
  <1> SUFFICES ASSUME KeyIInv, [Next]_vars PROVE KeyIInv'
    OBVIOUS
  <1>1. ASSUME UNCHANGED replayMap PROVE KeyIInv'
    BY <1>1 DEF replayMap, KeyIInv, KeyRunsOnce
  <1>2. ASSUME NEW e \in Executions, Enter(e) PROVE KeyIInv'
    <2>1. PICK n \in 0..Len(admitted) : Prune(n) /\ KeyOf[e] \notin KeysAfter(Forgotten(n))
      BY <1>2 DEF Enter
    <2>2. admitted' = Append(admitted, e) /\ lapsed' = n /\ forgotten' = Forgotten(n)
      BY <1>2, <2>1 DEF Enter, Prune
    <2>3. /\ admitted' \in Seq(Executions) /\ Len(admitted) \in Nat /\ Len(admitted') = Len(admitted) + 1
          /\ admitted'[Len(admitted) + 1] = e /\ \A i \in 1..Len(admitted) : admitted'[i] = admitted[i]
      BY <2>2 DEF KeyIInv
    <2>4. /\ n \in Nat /\ lapsed \in Nat /\ lapsed <= n /\ Forgotten(n) \in 0..Len(admitted)
          /\ \A i \in 1..Forgotten(n) : i <= n \/ Len(admitted) - i >= MaxReplayCacheSize - EvictedKeys
      BY <2>1, PruneForgetsOld DEF KeyIInv
    <2>5. MaxReplayCacheSize - EvictedKeys \in Nat
      BY OrchestratorAssumption
    <2>6. ASSUME NEW j \in 1..Len(admitted'), NEW i \in 1..(j - 1), KeyOf[admitted'[i]] = KeyOf[admitted'[j]]
          PROVE  i <= lapsed' \/ j - i > MaxReplayCacheSize - EvictedKeys
      <3>1. CASE j = Len(admitted) + 1
        <4>1. i \in 1..Len(admitted) /\ KeyOf[admitted[i]] = KeyOf[e]
          BY <2>3, <2>6, <3>1
        <4>2. i \in 1..Forgotten(n)
          BY <2>1, <2>3, <2>4, <4>1 DEF KeysAfter
        <4> QED
          BY <2>2, <2>3, <2>4, <2>5, <3>1, <4>2
      <3>2. CASE j # Len(admitted) + 1
        <4>1. j \in 1..Len(admitted) /\ KeyOf[admitted[i]] = KeyOf[admitted[j]]
          BY <2>3, <2>6, <3>2
        <4>2. i <= lapsed \/ j - i > MaxReplayCacheSize - EvictedKeys
          BY <4>1 DEF KeyIInv, KeyRunsOnce
        <4> QED
          BY <2>2, <2>4, <4>1, <4>2
      <3> QED
        BY <3>1, <3>2
    <2>7. KeyRunsOnce'
      BY <2>6 DEF KeyRunsOnce
    <2>8. \A i \in 1..forgotten' : i <= lapsed' \/ Len(admitted') - i >= MaxReplayCacheSize - EvictedKeys
      BY <2>2, <2>3, <2>4, <2>5
    <2> QED
      BY <2>2, <2>3, <2>4, <2>7, <2>8 DEF KeyIInv
  <1>3. ASSUME NEW e \in Executions, EnterReplay(e) PROVE KeyIInv'
    <2>1. PICK n \in 0..Len(admitted) : Prune(n) /\ admitted' = admitted /\ lapsed' = n /\ forgotten' = Forgotten(n)
      BY <1>3 DEF EnterReplay, Prune
    <2>2. /\ n \in Nat /\ lapsed <= n /\ Forgotten(n) \in 0..Len(admitted)
          /\ \A i \in 1..Forgotten(n) : i <= n \/ Len(admitted) - i >= MaxReplayCacheSize - EvictedKeys
      BY <2>1, PruneForgetsOld
    <2>3. ASSUME NEW j \in 1..Len(admitted), NEW i \in 1..(j - 1), KeyOf[admitted[i]] = KeyOf[admitted[j]]
          PROVE  i <= n \/ j - i > MaxReplayCacheSize - EvictedKeys
      <3>1. i <= lapsed \/ j - i > MaxReplayCacheSize - EvictedKeys
        BY <2>3 DEF KeyIInv, KeyRunsOnce
      <3>2. Len(admitted) \in Nat /\ lapsed \in Nat
        BY DEF KeyIInv
      <3> QED
        BY <2>2, <3>1, <3>2
    <2>4. KeyRunsOnce'
      BY <2>1, <2>3 DEF KeyRunsOnce
    <2> QED
      BY <2>1, <2>2, <2>4 DEF KeyIInv
  <1>4. ASSUME NEW e \in Executions, Step(e), ~Enter(e), ~EnterReplay(e) PROVE KeyIInv'
    BY <1>1, <1>4 DEF Step, EnterDuplicate, Deny, Reserve, ReserveFails, MarkRunning, Start, MarkAwaiting, Present, Await,
       Throw, Approved, Refused, WaitRejected, RuntimeEnds, Resolve, Settle
  <1>5. ASSUME NEW e \in Executions, Timeout(e) PROVE KeyIInv'
    BY <1>1, <1>5 DEF Timeout
  <1>6. ASSUME NEW t \in Tasks, CancelTask(t) PROVE KeyIInv'
    BY <1>1, <1>6 DEF CancelTask
  <1>7. CASE CancelReturns \/ (UserStep /\ UNCHANGED orchVars) \/ UNCHANGED vars
    BY <1>1, <1>7 DEF CancelReturns, orchVars, vars
  <1> QED
    BY <1>2, <1>3, <1>4, <1>5, <1>6, <1>7 DEF Next

-----------------------------------------------------------------------------
(* What was aborted is not reported as done.                               *)

TruthTypeOK ==
  /\ pc \in [Executions -> Pcs] /\ result \in [Executions -> Results \cup {None}]
  /\ controller \in [Tasks -> Executions \cup {None}]
  /\ aborted \subseteq Executions /\ armed \subseteq Executions

\* A controller is registered under the task of its execution.
ControllersFit == \A t \in Tasks : controller[t] \in Executions => TaskOf[controller[t]] = t

\* Whoever has a successful outcome is out of reach of timer and cancellation ...
SuccessIsSafe ==
  \A e \in Executions : result[e] = "success" =>
    pc[e] \in {"resolving", "settling", "done"} /\ e \notin armed /\ \A t \in Tasks : controller[t] # e

\* ... and was not aborted before the outcome was fixed.
FixedIsTrue ==
  \A e \in aborted : ~(pc[e] \in {"settling", "done"} /\ result[e] = "success")

TruthIInv ==
  TruthTypeOK /\ ControllersFit /\ SuccessIsSafe /\ FixedIsTrue

\* A call that moves with an outcome other than success, or none at all.
LEMMA UnsuccessfulStep ==
  ASSUME TruthIInv, NEW e \in Executions, NEW where \in Pcs, MoveTo(e, where), pc[e] \notin {"resolving", "settling", "done"},
         result' = result \/ \E r \in Results \ {"success"} : result' = [result EXCEPT ![e] = r],
         armed' \subseteq armed \cup {e}, UNCHANGED aborted,
         controller' = controller \/ controller' = [controller EXCEPT ![TaskOf[e]] = e]
  PROVE  /\ result' \in [Executions -> Results \cup {None}] /\ controller' \in [Tasks -> Executions \cup {None}]
         /\ aborted' \subseteq Executions /\ armed' \subseteq Executions
         /\ ControllersFit' /\ SuccessIsSafe' /\ FixedIsTrue'
  <1> USE OrchestratorAssumption DEF TruthIInv, TruthTypeOK
  <1>1. TaskOf[e] \in Tasks /\ result[e] # "success"
    BY DEF SuccessIsSafe
  <1>2. result' \in [Executions -> Results \cup {None}] /\ result'[e] # "success"
    BY <1>1
  <1>3. \A x \in Executions : x # e => result'[x] = result[x] /\ pc'[x] = pc[x]
    BY DEF MoveTo
  <1>4. controller' \in [Tasks -> Executions \cup {None}]
    BY <1>1
  <1>5. \A t \in Tasks : controller'[t] = controller[t] \/ (t = TaskOf[e] /\ controller'[t] = e)
    BY <1>1
  <1>6. ControllersFit'
    BY <1>5 DEF ControllersFit
  <1>7. SuccessIsSafe'
    BY <1>2, <1>3, <1>5 DEF SuccessIsSafe
  <1>8. FixedIsTrue'
    BY <1>2, <1>3 DEF FixedIsTrue
  <1> QED
    BY <1>2, <1>4, <1>6, <1>7, <1>8

LEMMA TruthNext == TruthIInv /\ [Next]_vars => TruthIInv'
  <1> SUFFICES ASSUME TruthIInv, [Next]_vars PROVE TruthIInv'
    OBVIOUS
  <1> USE OrchestratorAssumption
  <1>1. ASSUME NEW e \in Executions, Enter(e) PROVE TruthIInv'
    <2>1. pc[e] = "idle" /\ MoveTo(e, "validating")
      BY <1>1 DEF Enter
    <2>2. pc' \in [Executions -> Pcs] /\ \A x \in Executions : pc'[x] = IF x = e THEN "validating" ELSE pc[x]
      BY <2>1 DEF TruthIInv, TruthTypeOK, MoveTo, Pcs
    <2>5. UNCHANGED <<result, armed, aborted, controller>>
      BY <1>1 DEF Enter
    <2>6. TruthTypeOK' /\ ControllersFit' /\ SuccessIsSafe' /\ FixedIsTrue'
      BY <2>1, <2>2, <2>5, UnsuccessfulStep DEF TruthTypeOK, Pcs
    <2> QED
      BY <2>6 DEF TruthIInv
  <1>2. ASSUME NEW e \in Executions,
               EnterDuplicate(e) \/ EnterReplay(e) \/ Deny(e) \/ ReserveFails(e) \/ Reserve(e) \/ MarkRunning(e)
               \/ MarkAwaiting(e) \/ Present(e) \/ Await(e) \/ Approved(e)
        PROVE  TruthIInv'
    <2>1. pc[e] \in {"idle", "validating", "reserved", "asking", "presenting", "presented", "waiting"}
      BY <1>2 DEF EnterDuplicate, EnterReplay, Deny, ReserveFails, Reserve, MarkRunning, MarkAwaiting, Present, Await, Approved
    <2>2. UNCHANGED <<armed, aborted, controller>>
      BY <1>2 DEF EnterDuplicate, EnterReplay, Deny, ReserveFails, Reserve, MarkRunning, MarkAwaiting, Present, Await, Approved, Refuse
    <2>3. \/ MoveTo(e, "done") /\ \E r \in Results \ {"success"} : result' = [result EXCEPT ![e] = r]
          \/ /\ \E where \in Reserved : MoveTo(e, where)
             /\ result' = result
      BY <1>2 DEF EnterDuplicate, EnterReplay, Deny, ReserveFails, Reserve, MarkRunning, MarkAwaiting, Present, Await, Approved, Refuse, Results, Reserved
    <2>4. PICK where \in Pcs : MoveTo(e, where)
      BY <2>3 DEF Pcs, Reserved
    <2>5. result' = result \/ \E r \in Results \ {"success"} : result' = [result EXCEPT ![e] = r]
      BY <2>3
    <2>6. pc' \in [Executions -> Pcs]
      BY <2>4 DEF TruthIInv, TruthTypeOK, MoveTo
    <2>7. /\ result' \in [Executions -> Results \cup {None}] /\ controller' \in [Tasks -> Executions \cup {None}]
          /\ aborted' \subseteq Executions /\ armed' \subseteq Executions
          /\ ControllersFit' /\ SuccessIsSafe' /\ FixedIsTrue'
      BY <2>1, <2>2, <2>4, <2>5, UnsuccessfulStep
    <2> QED
      BY <2>6, <2>7 DEF TruthIInv, TruthTypeOK
  <1>3. ASSUME NEW e \in Executions, Start(e) \/ Throw(e) \/ Refused(e) \/ WaitRejected(e) PROVE TruthIInv'
    <2>1. pc[e] \in {"starting", "presenting", "waiting"}
      BY <1>3 DEF Start, Throw, Refused, WaitRejected
    <2>2. /\ UNCHANGED aborted /\ armed' \subseteq armed \cup {e}
          /\ controller' = controller \/ controller' = [controller EXCEPT ![TaskOf[e]] = e]
      BY <1>3 DEF Start, Throw, Refused, WaitRejected
    <2>3. \/ MoveTo(e, "done") /\ \E r \in Results \ {"success"} : result' = [result EXCEPT ![e] = r]
          \/ (MoveTo(e, "asking") \/ MoveTo(e, "executing")) /\ result' = result
      BY <1>3 DEF Start, Throw, Refused, WaitRejected, Release, Results
    <2>4. PICK where \in Pcs : MoveTo(e, where)
      BY <2>1, <2>3 DEF Pcs, Reserved
    <2>5. result' = result \/ \E r \in Results \ {"success"} : result' = [result EXCEPT ![e] = r]
      BY <2>3
    <2>6. pc' \in [Executions -> Pcs]
      BY <2>4 DEF TruthIInv, TruthTypeOK, MoveTo
    <2>7. /\ result' \in [Executions -> Results \cup {None}] /\ controller' \in [Tasks -> Executions \cup {None}]
          /\ aborted' \subseteq Executions /\ armed' \subseteq Executions
          /\ ControllersFit' /\ SuccessIsSafe' /\ FixedIsTrue'
      BY <2>1, <2>2, <2>4, <2>5, UnsuccessfulStep
    <2> QED
      BY <2>6, <2>7 DEF TruthIInv, TruthTypeOK
  <1>4. ASSUME NEW e \in Executions, NEW outcome \in {"success", "FAILED"}, RuntimeEnds(e, outcome) PROVE TruthIInv'
    <2>1. /\ pc[e] = "executing" /\ MoveTo(e, "resolving") /\ UNCHANGED aborted
          /\ result' = [result EXCEPT ![e] = outcome] /\ armed' = armed \ {e}
          /\ controller' = [controller EXCEPT ![TaskOf[e]] = None] /\ TaskOf[e] \in Tasks
      BY <1>4 DEF RuntimeEnds
    <2>2. pc' \in [Executions -> Pcs]
      BY <2>1 DEF TruthIInv, TruthTypeOK, MoveTo, Pcs, Reserved
    <2>3. TruthTypeOK'
      BY <2>1, <2>2 DEF TruthIInv, TruthTypeOK, Results
    <2>4. \A t \in Tasks : controller'[t] = IF t = TaskOf[e] THEN None ELSE controller[t]
      BY <2>1 DEF TruthIInv, TruthTypeOK
    <2>5. ControllersFit' /\ \A t \in Tasks : controller'[t] # e
      BY <2>4 DEF TruthIInv, ControllersFit, None
    <2>6. pc'[e] = "resolving" /\ \A x \in Executions : x # e => pc'[x] = pc[x] /\ result'[x] = result[x]
      BY <2>1 DEF TruthIInv, TruthTypeOK, MoveTo
    <2>7. SuccessIsSafe'
      BY <2>1, <2>4, <2>5, <2>6 DEF TruthIInv, SuccessIsSafe, None
    <2>8. FixedIsTrue'
      BY <2>1, <2>6 DEF TruthIInv, FixedIsTrue, TruthTypeOK
    <2> QED
      BY <2>2, <2>3, <2>5, <2>7, <2>8 DEF TruthIInv
  <1>5. ASSUME NEW e \in Executions, Resolve(e) PROVE TruthIInv'
    <2>1. /\ pc[e] = "resolving" /\ MoveTo(e, "settling") /\ UNCHANGED <<aborted, armed, controller>>
          /\ result' = [result EXCEPT ![e] = Final(e)]
      BY <1>5 DEF Resolve
    <2>2. pc' \in [Executions -> Pcs]
      BY <2>1 DEF TruthIInv, TruthTypeOK, MoveTo, Pcs, Reserved
    <2>3. /\ Final(e) \in Results \cup {None}
          /\ Final(e) = "success" => result[e] = "success" /\ e \notin aborted
      BY DEF Final, TruthIInv, TruthTypeOK, Results
    <2>4. TruthTypeOK'
      BY <2>1, <2>2, <2>3 DEF TruthIInv, TruthTypeOK
    <2>5. /\ pc'[e] = "settling" /\ result'[e] = Final(e)
          /\ \A x \in Executions : x # e => pc'[x] = pc[x] /\ result'[x] = result[x]
      BY <2>1 DEF TruthIInv, TruthTypeOK, MoveTo
    <2>6. ControllersFit' /\ SuccessIsSafe'
      BY <2>1, <2>3, <2>5 DEF TruthIInv, ControllersFit, SuccessIsSafe
    <2>7. FixedIsTrue'
      BY <2>1, <2>3, <2>5 DEF TruthIInv, FixedIsTrue, TruthTypeOK
    <2> QED
      BY <2>2, <2>4, <2>6, <2>7 DEF TruthIInv
  <1>6. ASSUME NEW e \in Executions, Settle(e) PROVE TruthIInv'
    <2>1. /\ pc[e] = "settling" /\ MoveTo(e, "done") /\ UNCHANGED <<aborted, armed, controller>>
          /\ \E r \in {result[e], "threw"} : result' = [result EXCEPT ![e] = r]
      BY <1>6 DEF Settle, Release
    <2>2. pc' \in [Executions -> Pcs]
      BY <2>1 DEF TruthIInv, TruthTypeOK, MoveTo, Pcs, Reserved
    <2>3. TruthTypeOK'
      BY <2>1, <2>2 DEF TruthIInv, TruthTypeOK, Results
    <2>4. /\ pc'[e] = "done" /\ result'[e] \in {result[e], "threw"}
          /\ \A x \in Executions : x # e => pc'[x] = pc[x] /\ result'[x] = result[x]
      BY <2>1 DEF TruthIInv, TruthTypeOK, MoveTo
    <2>5. ControllersFit' /\ SuccessIsSafe'
      BY <2>1, <2>4 DEF TruthIInv, ControllersFit, SuccessIsSafe
    <2>6. FixedIsTrue'
      BY <2>1, <2>4 DEF TruthIInv, FixedIsTrue, TruthTypeOK
    <2> QED
      BY <2>2, <2>3, <2>5, <2>6 DEF TruthIInv
  <1>7. ASSUME UNCHANGED <<pc, result, controller>>, armed' \subseteq armed,
               aborted' \subseteq aborted \cup armed \cup {controller[t] : t \in Tasks}, aborted' \subseteq Executions
        PROVE  TruthIInv'
    <2>1. TruthTypeOK' /\ ControllersFit' /\ SuccessIsSafe'
      BY <1>7 DEF TruthIInv, TruthTypeOK, ControllersFit, SuccessIsSafe
    <2>2. FixedIsTrue'
      BY <1>7 DEF TruthIInv, TruthTypeOK, SuccessIsSafe, FixedIsTrue
    <2> QED
      BY <2>1, <2>2 DEF TruthIInv
  <1>8. ASSUME NEW e \in Executions, Timeout(e) PROVE TruthIInv'
    BY <1>7, <1>8 DEF Timeout, TruthIInv, TruthTypeOK
  <1>9. ASSUME NEW t \in Tasks, CancelTask(t) PROVE TruthIInv'
    <2>1. controller[t] \in Executions \cup {None} /\ aborted \subseteq Executions
      BY DEF TruthIInv, TruthTypeOK
    <2> QED
      BY <1>7, <1>9, <2>1 DEF CancelTask
  <1>10. CASE CancelReturns \/ (UserStep /\ UNCHANGED orchVars) \/ UNCHANGED vars
    BY <1>7, <1>10 DEF CancelReturns, orchVars, vars, TruthIInv, TruthTypeOK
  <1> QED
    BY <1>1, <1>2, <1>3, <1>4, <1>5, <1>6, <1>8, <1>9, <1>10 DEF Next, Step

(***************************************************************************)
(* A message key gets past the replay check again only when its record is  *)
(* older than 15 minutes or a full map evicted it, which takes as many     *)
(* other messages as the map keeps; and a call whose signal was aborted,   *)
(* by its timeout or by cancelTask, never reports success, even when       *)
(* another call overwrote the cancelled status (agent-orchestrator.ts).    *)
(***************************************************************************)
THEOREM RunsAlwaysOnceTruthfully == Spec => []RunsOnceTruthfully
  <1>1. Init => TruthIInv
    <2> SUFFICES ASSUME Init PROVE TruthIInv
      OBVIOUS
    <2>1. \A e \in Executions : pc[e] = "idle" /\ result[e] = None
      BY DEF Init, Started
    <2>2. TruthTypeOK
      BY DEF Init, Started, TruthTypeOK, Pcs
    <2>4. ControllersFit
      BY OrchestratorAssumption DEF Init, Started, ControllersFit, None
    <2>5. SuccessIsSafe /\ FixedIsTrue
      BY <2>1, <2>2 DEF SuccessIsSafe, FixedIsTrue, None, TruthTypeOK
    <2> QED
      BY <2>2, <2>4, <2>5 DEF TruthIInv
  <1>2. Init => KeyIInv
    BY DEF Init, Started, KeyIInv, KeyRunsOnce
  <1>3. TruthIInv /\ KeyIInv => RunsOnceTruthfully
    BY DEF TruthIInv, KeyIInv, RunsOnceTruthfully, AbortedNeverSucceeds, FixedIsTrue
  <1> QED
    BY <1>1, <1>2, <1>3, TruthNext, KeysNext, PTL DEF Spec

-----------------------------------------------------------------------------
(* The approval host.                                                      *)

\* A decision can be accepted only while none was: nothing undecided, and nothing
\* a submission is under way for, has an accepted decision.
AcceptedEnds ==
  \A p \in Executions :
    /\ prompt[p] \in {"ABSENT", "PENDING"} \/ p \in resolving => accepted[p] = 0
    /\ p \in resolving => prompt[p] # "ABSENT"

\* What is stored as approved was accepted, once.
StoredIsBacked ==
  \A p \in Executions : accepted[p] <= 1 /\ (prompt[p] = "APPROVED" => accepted[p] = 1)

\* A pending prompt has a timer unless a submission cleared it.
TimersFit ==
  \A p \in Executions : prompt[p] = "PENDING" => (p \in timers <=> p \notin resolving)

HostIInv ==
  /\ HostTypeOK /\ ResolvingIsExact
  /\ AcceptedEnds /\ StoredIsBacked /\ ApprovalIsBacked /\ TimersFit

\* Whatever ends or opens prompts without deciding them.
LEMMA UndecidedStep ==
  ASSUME HostIInv, HostTypeOK', UNCHANGED <<resolving, submission, accepted>>,
         \A p \in Executions :
           /\ prompt'[p] # prompt[p] =>
                \/ prompt[p] = "ABSENT" /\ prompt'[p] = "PENDING" /\ p \in timers'
                \/ prompt[p] = "PENDING" /\ prompt'[p] \in {"CANCELLED", "EXPIRED"}
           /\ prompt'[p] = "PENDING" /\ prompt[p] = "PENDING" => (p \in timers' <=> p \in timers)
           /\ wait'[p] = "APPROVED" => wait[p] = "APPROVED" \/ prompt[p] = "APPROVED"
  PROVE  HostIInv'
  <1> USE DEF HostIInv
  <1>1. ResolvingIsExact'
    BY DEF ResolvingIsExact
  <1>2. AcceptedEnds'
    BY DEF AcceptedEnds
  <1>3. StoredIsBacked'
    BY DEF StoredIsBacked
  <1>4. ApprovalIsBacked'
    BY DEF ApprovalIsBacked, StoredIsBacked
  <1>5. TimersFit'
    BY DEF TimersFit, AcceptedEnds
  <1> QED
    BY <1>1, <1>2, <1>3, <1>4, <1>5

LEMMA StopKeepsHost ==
  ASSUME HostIInv, NEW abort, NEW cancel, Stop(abort, cancel)
  PROVE  HostIInv'
  <1> DEFINE open == {p \in abort \cup cancel : prompt[p] = "PENDING"}
  <1>1. /\ prompt' = [p \in Executions |-> IF p \in open THEN "CANCELLED" ELSE prompt[p]]
        /\ timers' = timers \ open
        /\ wait' = [p \in Executions |->
                      IF wait[p] = "waiting" /\ p \in abort \cup open THEN "rejected" ELSE wait[p]]
        /\ UNCHANGED <<past, resolving, submission, accepted>>
    BY DEF Stop
  <1>2. \A p \in open : prompt[p] = "PENDING"
    OBVIOUS
  <1> HIDE DEF open
  <1>3. HostTypeOK'
    BY <1>1 DEF HostIInv, HostTypeOK, PromptStates, Answers
  <1> QED
    BY <1>1, <1>2, <1>3, UndecidedStep

LEMMA WaitKeepsHost ==
  ASSUME HostIInv, NEW p \in Executions, NEW gone, WaitForDecision(p, gone)
  PROVE  HostIInv'
  <1>1. HostTypeOK'
    BY DEF HostIInv, HostTypeOK, WaitForDecision, PromptStates, Answers
  <1>2. UNCHANGED <<resolving, submission, accepted>>
    BY DEF WaitForDecision
  <1>3. \/ prompt' = prompt /\ timers' = timers
        \/ prompt[p] = "PENDING" /\ prompt' = [prompt EXCEPT ![p] = "CANCELLED"] /\ timers' = timers \ {p}
    BY DEF WaitForDecision
  <1>4. \A x \in Executions : wait'[x] = "APPROVED" => wait[x] = "APPROVED" \/ prompt[x] = "APPROVED"
    BY DEF HostIInv, HostTypeOK, WaitForDecision
  <1> QED
    BY <1>1, <1>2, <1>3, <1>4, UndecidedStep DEF HostIInv, HostTypeOK

LEMMA PresentKeepsHost ==
  ASSUME HostIInv, NEW p \in Executions, PresentPrompt(p)
  PROVE  HostIInv'
  <1>1. HostTypeOK'
    BY DEF HostIInv, HostTypeOK, PresentPrompt, PromptStates
  <1> QED
    BY <1>1, UndecidedStep DEF HostIInv, HostTypeOK, PresentPrompt

\* submitDecision up to its await.
LEMMA SubmitKeepsHost ==
  ASSUME HostIInv, NEW s \in Submitters, NEW p \in Executions, NEW d \in {"APPROVED", "DENIED"}, SubmitDecision(s, p, d)
  PROVE  HostIInv'
  <1> DEFINE call == [prompt |-> p, decision |-> d]
  <1>1. call \in [prompt : Executions, decision : {"APPROVED", "DENIED"}] /\ call.prompt = p /\ call # Idle
    BY OrchestratorAssumption DEF Idle
  <1>2. /\ submission[s] = Idle /\ prompt[p] = "PENDING" /\ p \notin resolving
        /\ resolving' = resolving \cup {p} /\ timers' = timers \ {p}
        /\ submission' = [submission EXCEPT ![s] = call] /\ UNCHANGED <<prompt, past, wait, accepted>>
    BY DEF SubmitDecision
  <1> HIDE DEF call
  <1> USE DEF HostIInv
  <1>3. HostTypeOK'
    BY <1>1, <1>2 DEF HostTypeOK
  <1>4. submission'[s] = call /\ \A x \in Submitters : x # s => submission'[x] = submission[x]
    BY <1>2 DEF HostTypeOK
  <1>5. \A x \in Submitters : submission[x].prompt # p
    BY <1>2 DEF ResolvingIsExact
  <1>6. submission[s].prompt \notin Executions
    BY <1>2, OrchestratorAssumption DEF Idle
  <1>7. ResolvingIsExact'
    <2>1. ASSUME NEW x \in Executions PROVE x \in resolving' <=> \E y \in Submitters : submission'[y].prompt = x
      <3>1. CASE x = p
        BY <1>1, <1>2, <1>4, <3>1
      <3>2. CASE x # p
        <4>1. x \in resolving' <=> \E y \in Submitters : submission[y].prompt = x
          BY <1>2, <3>2 DEF ResolvingIsExact
        <4> QED
          BY <1>1, <1>4, <1>6, <3>2, <4>1
      <3> QED
        BY <3>1, <3>2
    <2>2. ASSUME NEW y \in Submitters, NEW z \in Submitters, submission'[y] # Idle, submission'[y].prompt = submission'[z].prompt
          PROVE  y = z
      BY <1>1, <1>4, <1>5, <2>2 DEF ResolvingIsExact
    <2> QED
      BY <2>1, <2>2 DEF ResolvingIsExact
  <1>8. AcceptedEnds' /\ StoredIsBacked' /\ ApprovalIsBacked' /\ TimersFit'
    BY <1>2 DEF AcceptedEnds, StoredIsBacked, ApprovalIsBacked, TimersFit
  <1> QED
    BY <1>3, <1>7, <1>8

\* submitDecision after its await, with or without success.
LEMMA DecisionKeepsHost ==
  ASSUME HostIInv, NEW s \in Submitters, DecisionSettles(s) \/ DecisionRefused(s)
  PROVE  HostIInv'
  <1> USE DEF HostIInv
  <1>1. PICK p, d : p = submission[s].prompt /\ d = submission[s].decision
    OBVIOUS
  <1>2. submission[s] # Idle /\ p \in Executions /\ d \in {"APPROVED", "DENIED"}
    BY <1>1 DEF HostTypeOK, DecisionSettles, DecisionRefused
  <1>3. /\ resolving' = resolving \ {p} /\ submission' = [submission EXCEPT ![s] = Idle] /\ UNCHANGED <<timers, past>>
        /\ \/ /\ prompt' = [prompt EXCEPT ![p] = d] /\ wait' = Answered(p, d)
              /\ accepted' = [accepted EXCEPT ![p] = @ + 1]
           \/ prompt' = [prompt EXCEPT ![p] = "DENIED"] /\ UNCHANGED <<wait, accepted>>
    BY <1>1 DEF DecisionSettles, DecisionRefused
  <1>4. p \in resolving /\ accepted[p] = 0 /\ prompt[p] # "APPROVED" /\ wait[p] # "APPROVED"
    BY <1>1, <1>2 DEF ResolvingIsExact, AcceptedEnds, StoredIsBacked, ApprovalIsBacked
  <1>5. HostTypeOK'
    BY <1>2, <1>3 DEF HostTypeOK, Answered, PromptStates, Answers
  <1>6. submission'[s] = Idle /\ \A x \in Submitters : x # s => submission'[x] = submission[x]
    BY <1>3 DEF HostTypeOK
  <1>7. Idle.prompt \notin Executions
    BY OrchestratorAssumption DEF Idle
  <1>8. \A x \in Submitters : x # s => submission[x].prompt # p
    BY <1>1, <1>2 DEF ResolvingIsExact
  <1>9. ResolvingIsExact'
    <2>1. ASSUME NEW x \in Executions PROVE x \in resolving' <=> \E y \in Submitters : submission'[y].prompt = x
      <3>1. CASE x = p
        BY <1>2, <1>3, <1>6, <1>7, <1>8, <3>1
      <3>2. CASE x # p
        <4>1. x \in resolving' <=> \E y \in Submitters : submission[y].prompt = x
          BY <1>3, <3>2 DEF ResolvingIsExact
        <4> QED
          BY <1>1, <1>6, <1>7, <3>2, <4>1
      <3> QED
        BY <3>1, <3>2
    <2>2. ASSUME NEW y \in Submitters, NEW z \in Submitters, submission'[y] # Idle, submission'[y].prompt = submission'[z].prompt
          PROVE  y = z
      <3>1. y # s /\ submission'[y] = submission[y]
        BY <1>6, <2>2
      <3>2. submission[y].prompt \in Executions
        BY <2>2, <3>1 DEF HostTypeOK
      <3> QED
        BY <1>6, <1>7, <2>2, <3>1, <3>2 DEF ResolvingIsExact
    <2> QED
      BY <2>1, <2>2 DEF ResolvingIsExact
  <1>10. /\ prompt'[p] \in {"APPROVED", "DENIED"} /\ (prompt'[p] = "APPROVED" => accepted'[p] = 1)
         /\ accepted'[p] \in {0, 1} /\ (wait'[p] = "APPROVED" => prompt'[p] = "APPROVED" /\ accepted'[p] = 1)
    BY <1>2, <1>3, <1>4 DEF HostTypeOK, Answered
  <1>11. \A x \in Executions : x # p => prompt'[x] = prompt[x] /\ wait'[x] = wait[x] /\ accepted'[x] = accepted[x]
    BY <1>3 DEF HostTypeOK, Answered
  <1>12. AcceptedEnds'
    BY <1>3, <1>10, <1>11 DEF AcceptedEnds
  <1>13. StoredIsBacked' /\ ApprovalIsBacked'
    BY <1>10, <1>11 DEF StoredIsBacked, ApprovalIsBacked
  <1>14. TimersFit'
    BY <1>3, <1>10, <1>11 DEF TimersFit
  <1> QED
    BY <1>5, <1>9, <1>12, <1>13, <1>14

LEMMA HostNextKeeps == HostIInv /\ [Next]_vars => HostIInv'
  <1> SUFFICES ASSUME HostIInv, [Next]_vars PROVE HostIInv'
    OBVIOUS
  <1>1. ASSUME UNCHANGED host PROVE HostIInv'
    BY <1>1, UndecidedStep DEF host, HostIInv, HostTypeOK
  <1>2. ASSUME NEW e \in Executions, Step(e) PROVE HostIInv'
    <2>1. CASE Present(e)
      BY <2>1, PresentKeepsHost DEF Present
    <2>2. CASE Await(e)
      BY <2>2, WaitKeepsHost DEF Await
    <2>3. CASE ~Present(e) /\ ~Await(e)
      BY <1>1, <1>2, <2>3 DEF Step, Enter, EnterDuplicate, EnterReplay, Deny, Reserve, ReserveFails, Refuse, MarkRunning, Start,
         MarkAwaiting, Throw, Approved, Refused, WaitRejected, RuntimeEnds, Resolve, Settle
    <2> QED
      BY <2>1, <2>2, <2>3
  <1>3. ASSUME NEW e \in Executions, Timeout(e) PROVE HostIInv'
    BY <1>3, StopKeepsHost DEF Timeout
  <1>4. ASSUME NEW t \in Tasks, CancelTask(t) PROVE HostIInv'
    BY <1>4, StopKeepsHost DEF CancelTask
  <1>5. CASE CancelReturns \/ UNCHANGED vars
    BY <1>1, <1>5 DEF CancelReturns, vars
  <1>6. CASE UserStep
    <2>1. ASSUME NEW p \in Executions, TtlPasses(p) PROVE HostIInv'
      <3>1. HostTypeOK'
        BY <2>1 DEF HostIInv, HostTypeOK, TtlPasses
      <3> QED
        BY <2>1, <3>1, UndecidedStep DEF TtlPasses
    <2>2. ASSUME NEW p \in Executions, AutoExpire(p) \/ SubmitTooLate(p) PROVE HostIInv'
      <3>1. HostTypeOK'
        BY <2>2 DEF HostIInv, HostTypeOK, AutoExpire, SubmitTooLate, Answered, PromptStates, Answers
      <3>2. /\ UNCHANGED <<resolving, submission, accepted>> /\ timers' = timers \ {p}
            /\ \/ prompt[p] # "PENDING" /\ UNCHANGED <<prompt, wait>>
               \/ prompt[p] = "PENDING" /\ prompt' = [prompt EXCEPT ![p] = "EXPIRED"] /\ wait' = Answered(p, "EXPIRED")
        BY <2>2 DEF AutoExpire, SubmitTooLate
      <3> QED
        BY <3>1, <3>2, UndecidedStep DEF HostIInv, HostTypeOK, Answered
    <2>3. CASE Shutdown
      <3>1. HostTypeOK'
        BY <2>3 DEF HostIInv, HostTypeOK, Shutdown, PromptStates, Answers
      <3> QED
        BY <2>3, <3>1, UndecidedStep DEF HostIInv, HostTypeOK, Shutdown
    <2> QED
      BY <1>6, <2>1, <2>2, <2>3, SubmitKeepsHost, DecisionKeepsHost DEF UserStep
  <1> QED
    BY <1>2, <1>3, <1>4, <1>5, <1>6 DEF Next

(***************************************************************************)
(* However decisions, expiry, aborts, cancellation and shutdown overlap    *)
(* with the lease check in the middle of submitDecision: at most one       *)
(* decision is accepted for a prompt, an executor told APPROVED is backed  *)
(* by an accepted decision that is stored, and a pending prompt has        *)
(* something that will end it (approval-host.ts).                          *)
(***************************************************************************)
THEOREM DecisionsAreAlwaysSound == Spec => []DecisionsAreSound
  <1>1. Init => HostIInv
    <2> SUFFICES ASSUME Init PROVE HostIInv
      OBVIOUS
    <2>1. HostInit
      BY DEF Init, Started
    <2>2. HostTypeOK
      BY <2>1 DEF HostInit, HostTypeOK, PromptStates
    <2>3. ResolvingIsExact
      BY <2>1, OrchestratorAssumption DEF HostInit, ResolvingIsExact, Idle
    <2>4. AcceptedEnds /\ StoredIsBacked /\ ApprovalIsBacked /\ TimersFit
      BY <2>1 DEF HostInit, AcceptedEnds, StoredIsBacked, ApprovalIsBacked, TimersFit
    <2> QED
      BY <2>2, <2>3, <2>4 DEF HostIInv
  <1>2. HostIInv => DecisionsAreSound
    <2> SUFFICES ASSUME HostIInv PROVE DecisionsAreSound
      OBVIOUS
    <2>1. AcceptedOnce /\ ApprovalIsBacked
      BY DEF HostIInv, StoredIsBacked, AcceptedOnce
    <2>2. PendingCanEnd
      BY DEF HostIInv, TimersFit, ResolvingIsExact, PendingCanEnd
    <2> QED
      BY <2>1, <2>2 DEF DecisionsAreSound
  <1> QED
    BY <1>1, <1>2, HostNextKeeps, PTL DEF Spec
=============================================================================
