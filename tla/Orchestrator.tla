----------------------------- MODULE Orchestrator -----------------------------
(***************************************************************************)
(* Task execution on the desktop agent                                     *)
(* (apps/desktop-agent/src/orchestrator/agent-orchestrator.ts): concurrent *)
(* executeTask calls, cancelTask, the per-task abort controllers, the      *)
(* task timeout, the mutex around the status map and the approval host.    *)
(*                                                                         *)
(* pc[e] says at which await the call e is suspended.  Each execution has  *)
(* at most one approval prompt, named after it.  The mutex is granted in   *)
(* any order; the code grants it first come, first served.                 *)
(***************************************************************************)
EXTENDS Integers, FiniteSets, Sequences

CONSTANTS Executions,  \* executeTask calls
          Tasks,       \* task identifiers
          TaskOf,      \* the task_id of each call
          KeyOf,       \* its message key (message_id or idempotency_key)
          Approval,    \* "none", "host" (asks a human) or "nohost" (needed, no host)
          Submitters,  \* users who answer prompts
          MaxConcurrency,
          MaxReplayCacheSize,  \* maxReplayCacheSize (10000): when the replay map is full ...
          EvictedKeys,         \* ... that many of its oldest records go (2000)
          MaxLapses            \* bound: how many records grow older than 15 minutes

ASSUME OrchestratorAssumption ==
  /\ IsFiniteSet(Executions) /\ {"none", "cancel"} \cap Executions = {}
  /\ TaskOf \in [Executions -> Tasks]
  /\ Approval \in [Executions -> {"none", "host", "nohost"}]
  /\ MaxConcurrency \in Nat \ {0}
  /\ MaxReplayCacheSize \in Nat \ {0} /\ EvictedKeys \in 1..MaxReplayCacheSize
  /\ MaxLapses \in Nat

VARIABLES pc,          \* where each execution is
          result,      \* what it returned
          status,      \* taskStateMap
          admitted,    \* the calls that got past the replay check, in order
          lapsed,      \* how many of these were found older than 15 minutes
          forgotten,   \* how many the replay map has lost, the oldest first
          active,      \* activeCount
          controller,  \* activeCancellations: the execution a task's abort reaches
          aborted,     \* executions whose signal is aborted
          timedOut,    \* executions whose timeout fired
          armed,       \* executions with a running timeout timer
          asked,       \* taskPendingPrompts: the prompt recorded for each task
          lock,        \* holder of the state mutex across an await
          canceled     \* tasks for which cancelTask returned true

VARIABLES prompt, timers, past, wait, resolving, submission, accepted

INSTANCE ApprovalHost WITH Prompts <- Executions

replayMap == <<admitted, lapsed, forgotten>>
orchVars == <<pc, result, status, replayMap, active, controller, aborted, timedOut,
              armed, asked, lock, canceled>>
host == <<prompt, timers, past, wait, resolving, submission, accepted>>
vars == <<orchVars, host>>

None == "none"
Statuses == {"RUNNING", "AWAITING_APPROVAL", "COMPLETED", "FAILED", "CANCELED"}
Ended == {"COMPLETED", "FAILED", "CANCELED"}
Results == {"DUPLICATE", "REPLAY", "DENIED", "CONCURRENCY", "APPROVAL_REQUIRED",
            "APPROVAL_REFUSED", "CANCELED", "TIMEOUT", "FAILED", "success", "threw"}

\* The suspended calls that hold a concurrency slot.
Reserved == {"reserved", "starting", "asking", "presenting", "presented", "waiting",
             "executing", "resolving", "settling"}
Pcs == {"idle", "validating", "done"} \cup Reserved

\* The agent has started; only the calls in coming will be made.
Started(coming) ==
  /\ pc = [e \in Executions |-> IF e \in coming THEN "idle" ELSE "done"]
  /\ result = [e \in Executions |-> None]
  /\ status = [t \in Tasks |-> None]
  /\ admitted = <<>> /\ lapsed = 0 /\ forgotten = 0
  /\ active = 0
  /\ controller = [t \in Tasks |-> None]
  /\ aborted = {}
  /\ timedOut = {}
  /\ armed = {}
  /\ asked = [t \in Tasks |-> None]
  /\ lock = None
  /\ canceled = {}
  /\ HostInit

Init == Started(Executions)

----------------------------------------------------------------------------
(* Small pieces shared by the segments of executeTask.                     *)

MoveTo(e, where) == pc' = [pc EXCEPT ![e] = where]

\* Return before a slot was reserved.
Refuse(e, why) ==
  /\ MoveTo(e, "done")
  /\ result' = [result EXCEPT ![e] = why]
  /\ UNCHANGED <<status, active, controller, aborted, timedOut, armed, asked, lock,
                 canceled, host>>

\* A plausible slip: the slot is given back twice, without the lower bound.
ReleaseRaw(e, why) ==
  /\ MoveTo(e, "done")
  /\ result' = [result EXCEPT ![e] = why]
  /\ active' = active - 2

\* Return or throw after it: the finally block gives the slot back.
Release(e, why) ==
  /\ MoveTo(e, "done")
  /\ result' = [result EXCEPT ![e] = why]
  /\ active' = IF active > 0 THEN active - 1 ELSE 0

SetStatus(e, s) == status' = [status EXCEPT ![TaskOf[e]] = s]

----------------------------------------------------------------------------
(* executeTask.                                                            *)

\* A plausible slip: a full map is cleared instead of losing its oldest records.
ForgottenMutant(n) ==
  LET old == IF n > forgotten THEN n ELSE forgotten
  IN  IF Len(admitted) - old >= MaxReplayCacheSize THEN Len(admitted) ELSE old

\* pruneOldProcessedMessages when the first n records have lapsed.  The map keeps
\* the order of insertion and all records live equally long, so what lapses and
\* what is evicted is the oldest part of it.
Forgotten(n) ==
  LET old == IF n > forgotten THEN n ELSE forgotten
  IN  IF Len(admitted) - old >= MaxReplayCacheSize THEN old + EvictedKeys ELSE old

Prune(n) ==
  /\ n \in lapsed..Len(admitted) /\ n <= MaxLapses
  /\ lapsed' = n
  /\ forgotten' = Forgotten(n)

\* processedMessageIds after the first f records are gone.
KeysAfter(f) == {KeyOf[admitted[i]] : i \in (f + 1)..Len(admitted)}

\* Collision check; old keys go, the replay check, the key is recorded; then the
\* lease is validated.
Enter(e) ==
  /\ pc[e] = "idle"
  /\ status[TaskOf[e]] # "RUNNING"
  /\ \E n \in 0..Len(admitted) : Prune(n) /\ KeyOf[e] \notin KeysAfter(Forgotten(n))
  /\ admitted' = Append(admitted, e)
  /\ MoveTo(e, "validating")
  /\ UNCHANGED <<result, status, active, controller, aborted, timedOut, armed, asked,
                 lock, canceled, host>>

EnterDuplicate(e) ==
  /\ pc[e] = "idle"
  /\ status[TaskOf[e]] = "RUNNING"
  /\ Refuse(e, "DUPLICATE")
  /\ UNCHANGED replayMap

EnterReplay(e) ==
  /\ pc[e] = "idle"
  /\ status[TaskOf[e]] # "RUNNING"
  /\ \E n \in 0..Len(admitted) : Prune(n) /\ KeyOf[e] \in KeysAfter(Forgotten(n))
  /\ Refuse(e, "REPLAY")
  /\ UNCHANGED admitted

\* Lease, identity, capability, runtime, timeout or lifecycle says no.
Deny(e) ==
  /\ pc[e] = "validating"
  /\ Refuse(e, "DENIED")
  /\ UNCHANGED replayMap

\* The check of activeCount and its increment are one segment.
Reserve(e) ==
  /\ pc[e] = "validating"
  /\ active < MaxConcurrency
  /\ active' = active + 1
  /\ MoveTo(e, "reserved")
  /\ UNCHANGED <<result, status, replayMap, controller, aborted, timedOut, armed, asked, lock,
                 canceled, host>>

ReserveFails(e) ==
  /\ pc[e] = "validating"
  /\ active >= MaxConcurrency
  /\ Refuse(e, "CONCURRENCY")
  /\ UNCHANGED replayMap

\* RUNNING under the mutex, then the checkpoint is written.
MarkRunning(e) ==
  /\ pc[e] = "reserved" /\ lock = None
  /\ SetStatus(e, "RUNNING")
  /\ MoveTo(e, "starting")
  /\ UNCHANGED <<result, replayMap, active, controller, aborted, timedOut, armed, asked, lock,
                 canceled, host>>

\* The checkpoint is written: controller and timeout exist from here on.
Start(e) ==
  /\ pc[e] = "starting"
  /\ controller' = [controller EXCEPT ![TaskOf[e]] = e]
  /\ \/ /\ Approval[e] = "nohost"
        /\ Release(e, "APPROVAL_REQUIRED")
        /\ UNCHANGED armed
     \/ /\ Approval[e] # "nohost"
        /\ MoveTo(e, IF Approval[e] = "host" THEN "asking" ELSE "executing")
        /\ armed' = armed \cup {e}
        /\ UNCHANGED <<result, active>>
  /\ UNCHANGED <<status, replayMap, aborted, timedOut, asked, lock, canceled, host>>

\* AWAITING_APPROVAL under the mutex, whatever the status is by now.
MarkAwaiting(e) ==
  /\ pc[e] = "asking" /\ lock = None
  /\ SetStatus(e, "AWAITING_APPROVAL")
  /\ MoveTo(e, "presenting")
  /\ UNCHANGED <<result, replayMap, active, controller, aborted, timedOut, armed, asked, lock,
                 canceled, host>>

Present(e) ==
  /\ pc[e] = "presenting"
  /\ PresentPrompt(e)
  /\ MoveTo(e, "presented")
  /\ UNCHANGED <<result, status, replayMap, active, controller, aborted, timedOut, armed, asked,
                 lock, canceled>>

Await(e) ==
  /\ pc[e] = "presented"
  /\ WaitForDecision(e, e \in aborted)
  /\ asked' = [asked EXCEPT ![TaskOf[e]] = e]
  /\ MoveTo(e, "waiting")
  /\ UNCHANGED <<result, status, replayMap, active, controller, aborted, timedOut, armed, lock,
                 canceled>>

\* The state manager refuses a checkpoint, or the host refuses the prompt: the
\* call throws, and the status stays what it was.
Throw(e) ==
  /\ pc[e] \in {"starting", "presenting"}
  /\ Release(e, "threw")
  /\ UNCHANGED <<status, replayMap, controller, aborted, timedOut, armed, asked, lock, canceled,
                 host>>

\* The human allowed it: RUNNING again.
Approved(e) ==
  /\ pc[e] = "waiting" /\ wait[e] = "APPROVED" /\ lock = None
  /\ asked' = [asked EXCEPT ![TaskOf[e]] = None]
  /\ SetStatus(e, "RUNNING")
  /\ MoveTo(e, "executing")
  /\ UNCHANGED <<result, replayMap, active, controller, aborted, timedOut, armed, lock, canceled,
                 host>>

\* Denied or expired: FAILED, and the call returns.
Refused(e) ==
  /\ pc[e] = "waiting" /\ wait[e] \in {"DENIED", "EXPIRED"} /\ lock = None
  /\ asked' = [asked EXCEPT ![TaskOf[e]] = None]
  /\ SetStatus(e, "FAILED")
  /\ armed' = armed \ {e}
  /\ Release(e, "APPROVAL_REFUSED")
  /\ UNCHANGED <<replayMap, controller, aborted, timedOut, lock, canceled, host>>

\* The wait was rejected: by the abort signal, or by something else (shutdown).
WaitRejected(e) ==
  /\ pc[e] = "waiting" /\ wait[e] = "rejected"
  /\ asked' = [asked EXCEPT ![TaskOf[e]] = None]
  /\ \/ /\ e \in aborted
        /\ armed' = armed \ {e}
        /\ Release(e, IF e \in timedOut THEN "TIMEOUT" ELSE "CANCELED")
     \/ /\ e \notin aborted
        /\ Release(e, "threw")
        /\ UNCHANGED armed
  /\ UNCHANGED <<status, replayMap, controller, aborted, timedOut, lock, canceled, host>>

\* The runtime ends, with an output or an error; timer and controller go.
RuntimeEnds(e, outcome) ==
  /\ pc[e] = "executing"
  /\ result' = [result EXCEPT ![e] = outcome]
  /\ armed' = armed \ {e}
  /\ controller' = [controller EXCEPT ![TaskOf[e]] = None]
  /\ MoveTo(e, "resolving")
  /\ UNCHANGED <<status, replayMap, active, aborted, timedOut, asked, lock, canceled, host>>

\* "Deterministic Cancellation / Completion Resolution".
Final(e) ==
  CASE status[TaskOf[e]] = "CANCELED" \/ (e \in aborted /\ e \notin timedOut) -> "CANCELED"
    [] e \in timedOut                                                        -> "TIMEOUT"
    [] OTHER                                                                 -> result[e]

FinalStatus(r) ==
  CASE r = "success" -> "COMPLETED" [] r = "CANCELED" -> "CANCELED" [] OTHER -> "FAILED"

\* The outcome is fixed under the mutex, which is kept while the checkpoint is
\* written.
Resolve(e) ==
  /\ pc[e] = "resolving" /\ lock = None
  /\ lock' = e
  /\ result' = [result EXCEPT ![e] = Final(e)]
  /\ SetStatus(e, FinalStatus(Final(e)))
  /\ MoveTo(e, "settling")
  /\ UNCHANGED <<replayMap, active, controller, aborted, timedOut, armed, asked, canceled, host>>

\* The checkpoint is written, or refused and the call throws.
Settle(e) ==
  /\ pc[e] = "settling"
  /\ lock' = None
  /\ Release(e, result[e]) \/ Release(e, "threw")
  /\ UNCHANGED <<status, replayMap, controller, aborted, timedOut, armed, asked, canceled, host>>

----------------------------------------------------------------------------
(* The timeout, and cancelTask.                                            *)

\* Executions with an abort listener on their prompt.
Waiting == {e \in Executions : wait[e] = "waiting"}

\* A plausible slip: the timeout does not abort.
TimeoutMutant(e) ==
  /\ e \in armed
  /\ armed' = armed \ {e}
  /\ timedOut' = timedOut \cup {e}
  /\ UNCHANGED <<pc, result, status, replayMap, active, controller, aborted, asked, lock, canceled,
                 host>>

Timeout(e) ==
  /\ e \in armed
  /\ armed' = armed \ {e}
  /\ timedOut' = timedOut \cup {e}
  /\ aborted' = aborted \cup {e}
  /\ Stop({e} \cap Waiting, {})
  /\ UNCHANGED <<pc, result, status, replayMap, active, controller, asked, lock, canceled>>

\* cancelTask under the mutex, up to its checkpoint: the status, the abort of
\* the registered execution, the recorded prompt.
CancelTask(t) ==
  /\ lock = None
  /\ status[t] \notin Ended \cup {None}
  /\ status' = [status EXCEPT ![t] = "CANCELED"]
  /\ canceled' = canceled \cup {t}
  /\ lock' = "cancel"
  /\ aborted' = (aborted \cup {controller[t]}) \ {None}
  /\ Stop({controller[t]} \cap Waiting, {asked[t]} \ {None})
  /\ asked' = [asked EXCEPT ![t] = None]
  /\ UNCHANGED <<pc, result, replayMap, active, controller, timedOut, armed>>

CancelReturns ==
  /\ lock = "cancel"
  /\ lock' = None
  /\ UNCHANGED <<pc, result, status, replayMap, active, controller, aborted, timedOut, armed,
                 asked, canceled, host>>

----------------------------------------------------------------------------
Step(e) ==
  \/ Enter(e) \/ EnterDuplicate(e) \/ EnterReplay(e) \/ Deny(e)
  \/ Reserve(e) \/ ReserveFails(e) \/ MarkRunning(e) \/ Start(e)
  \/ MarkAwaiting(e) \/ Present(e) \/ Await(e) \/ Throw(e)
  \/ Approved(e) \/ Refused(e) \/ WaitRejected(e)
  \/ \E outcome \in {"success", "FAILED"} : RuntimeEnds(e, outcome)
  \/ Resolve(e) \/ Settle(e)

Next ==
  \/ \E e \in Executions : Step(e) \/ Timeout(e)
  \/ \E t \in Tasks : CancelTask(t)
  \/ CancelReturns
  \/ UserStep /\ UNCHANGED orchVars

Spec == Init /\ [][Next]_vars

\* Calls make progress, runtimes end, armed timers fire.  Humans, and whoever
\* cancels, owe nothing.
Fairness ==
  /\ \A e \in Executions : SF_vars(Step(e)) /\ WF_vars(Timeout(e))
  /\ WF_vars(CancelReturns)

FairSpec == Spec /\ Fairness

----------------------------------------------------------------------------
TypeOK ==
  /\ pc \in [Executions -> Pcs]
  /\ result \in [Executions -> Results \cup {None}]
  /\ status \in [Tasks -> Statuses \cup {None}]
  /\ admitted \in Seq(Executions) /\ lapsed \in Nat /\ forgotten \in Nat
  /\ active \in Nat
  /\ controller \in [Tasks -> Executions \cup {None}]
  /\ aborted \subseteq Executions /\ timedOut \subseteq Executions /\ armed \subseteq Executions
  /\ asked \in [Tasks -> Executions \cup {None}]
  /\ lock \in Executions \cup {None, "cancel"}
  /\ canceled \subseteq Tasks

\* activeCount is exactly the number of executions between reservation and
\* return, through every return, throw, timeout and cancellation, so it neither
\* leaks slots nor goes below zero, and never exceeds the limit.
SlotsExact ==
  /\ active = Cardinality({e \in Executions : pc[e] \in Reserved})
  /\ active <= MaxConcurrency

\* A message key gets past the replay check a second time only when the first
\* record is older than 15 minutes, or after so many other messages that a full
\* map evicted it: with a map of 10000 that loses 2000, not before 8000 others.
KeyRunsOnce ==
  \A j \in 1..Len(admitted) : \A i \in 1..(j - 1) :
    KeyOf[admitted[i]] = KeyOf[admitted[j]] =>
      i <= lapsed \/ j - i > MaxReplayCacheSize - EvictedKeys

\* An execution whose signal was aborted does not report success, even when the
\* status map was overwritten after the cancellation.
AbortedNeverSucceeds == \A e \in aborted : ~(pc[e] = "done" /\ result[e] = "success")

\* What the caller of executeTask can rely on: a message is run once while its key
\* is remembered, and what it aborted is not reported as done.
RunsOnceTruthfully == KeyRunsOnce /\ AbortedNeverSucceeds

\* Whoever is suspended while holding the mutex holds it alone, and it is free
\* when everybody is done.
LockIsHeld ==
  \A e \in Executions : lock = e <=> pc[e] = "settling"

\* What executeTask borrows it gives back on each of its many exits: its slot
\* and the state mutex.
ResourcesExact == SlotsExact /\ LockIsHeld

\* Every call that gets past its first check returns, even if no human answers
\* its prompt and the host forgets the waiter: the task timeout ends the wait.
ExecutionEnds == \A e \in Executions : pc[e] = "validating" ~> pc[e] = "done"
=============================================================================
