---------------------------- MODULE TaskController ----------------------------
(***************************************************************************)
(* The task authority of the control-plane backend                         *)
(* (services/backend/src/tasks/controller.ts and state-machine.ts): the    *)
(* tasks map, the createTask / createTaskGraph calls that fill it, and the *)
(* cancelTask and settleReceipt calls that race with them.                 *)
(*                                                                         *)
(* A call runs without interruption from one await to the next, so each    *)
(* action is such a segment.  createTask keeps the record it builds in a   *)
(* local variable across its awaits and stores it again at the end of each *)
(* segment: local[t] is that variable.  Calls that the code rejects by     *)
(* throwing before they store anything are stuttering steps.               *)
(***************************************************************************)
EXTENDS Naturals, FiniteSets

CONSTANTS Tasks,     \* identifiers of the tasks submitted
          Checks     \* Checks[t]: policy evaluations t needs: one for a single
                     \* task, one plus one per node for a task graph

ASSUME ChecksAssumption == Checks \in [Tasks -> Nat \ {0}]

VARIABLES tasks,     \* the tasks map: the state of each stored record
          local,     \* the state of the record held by the createTask call
          leased,    \* tasks whose record, stored and held, has a lease
          pc,        \* where that call is suspended
          passed,    \* policy evaluations that allowed the task so far
          bridge,    \* is an ACP bridge configured?
          sent,      \* tasks whose ACP envelope reached the agent
          receipts,  \* receipts in transit; delivery may repeat
          settled,   \* per task, receipts that were verified and stored
          canceled   \* tasks for which cancelTask returned a CANCELLED record

vars == <<tasks, local, leased, pc, passed, bridge, sent, receipts, settled, canceled>>

Terminal == {"COMPLETED", "FAILED", "CANCELLED"}
States == {"SUBMITTED", "POLICY_EVALUATED", "LEASED", "DISPATCHED", "EXECUTING",
           "AWAITING_APPROVAL", "RECEIPT_VERIFIED"} \cup Terminal

Statuses == {"SUCCESS", "FAILURE", "CANCELLED"}
Receipts == [task : Tasks, status : Statuses, check : {"verifies", "fails"}]
Pcs == {"idle", "evaluating", "leased", "sending", "returned", "threw"}

----------------------------------------------------------------------------
(* The state machine of a task record.                                     *)

AllowedTransitions(s) ==
  CASE s = "SUBMITTED"         -> {"POLICY_EVALUATED", "FAILED", "CANCELLED"}
    [] s = "POLICY_EVALUATED"  -> {"LEASED", "FAILED", "CANCELLED"}
    [] s = "LEASED"            -> {"DISPATCHED", "FAILED", "CANCELLED"}
    [] s = "DISPATCHED"        -> {"EXECUTING", "AWAITING_APPROVAL", "FAILED", "CANCELLED"}
    [] s = "EXECUTING"         -> {"RECEIPT_VERIFIED", "AWAITING_APPROVAL", "FAILED", "CANCELLED"}
    [] s = "AWAITING_APPROVAL" -> {"EXECUTING", "FAILED", "CANCELLED"}
    [] s = "RECEIPT_VERIFIED"  -> {"COMPLETED", "FAILED"}
    [] OTHER                   -> {}

\* A plausible slip: every record may be failed, terminal ones included.
CanTransitionMutant(s, target) == target = "FAILED" \/ target \in AllowedTransitions(s)

\* A plausible slip: a second receipt may re-verify a completed task.
CanTransitionAgain(s, target) ==
  target \in AllowedTransitions(s) \/ (s = "COMPLETED" /\ target = "RECEIPT_VERIFIED")

CanTransition(s, target) == target \in AllowedTransitions(s)

----------------------------------------------------------------------------
(* createTask and createTaskGraph.                                         *)

Init ==
  /\ tasks = [t \in Tasks |-> "ABSENT"]
  /\ local = tasks
  /\ leased = {}
  /\ pc = [t \in Tasks |-> "idle"]
  /\ passed = [t \in Tasks |-> 0]
  /\ bridge \in BOOLEAN
  /\ sent = {}
  /\ receipts = {}
  /\ settled = [t \in Tasks |-> 0]
  /\ canceled = {}

\* The segment ends with this record in the local variable and in the map.
\* Records are copied field by field, so a lease, once there, stays.
Store(t, state) ==
  /\ local' = [local EXCEPT ![t] = state]
  /\ tasks' = [tasks EXCEPT ![t] = state]

\* The record is stored as SUBMITTED and announced, then policy is evaluated.
Submit(t) ==
  /\ pc[t] = "idle"
  /\ Store(t, "SUBMITTED")
  /\ pc' = [pc EXCEPT ![t] = "evaluating"]
  /\ UNCHANGED <<leased, passed, bridge, sent, receipts, settled, canceled>>

\* The policy evaluator denies the task or one of its nodes: fail closed.
PolicyDenies(t) ==
  /\ pc[t] = "evaluating"
  /\ CanTransition(local[t], "FAILED")
  /\ Store(t, "FAILED")
  /\ pc' = [pc EXCEPT ![t] = "returned"]
  /\ UNCHANGED <<leased, passed, bridge, sent, receipts, settled, canceled>>

\* A node of the graph is allowed and others are still to be evaluated.
NodeAllowed(t) ==
  /\ pc[t] = "evaluating"
  /\ passed[t] + 1 < Checks[t]
  /\ passed' = [passed EXCEPT ![t] = @ + 1]
  /\ UNCHANGED <<leased, tasks, local, pc, bridge, sent, receipts, settled, canceled>>

\* A plausible slip: the lease is issued on the first evaluation that allows.
IssueLeaseEarly(t) ==
  /\ pc[t] = "evaluating"
  /\ passed' = [passed EXCEPT ![t] = @ + 1]
  /\ Store(t, "LEASED")
  /\ leased' = leased \cup {t}
  /\ pc' = [pc EXCEPT ![t] = "leased"]
  /\ UNCHANGED <<bridge, sent, receipts, settled, canceled>>

\* The last evaluation allows: POLICY_EVALUATED, lease issued, LEASED, all in
\* one segment, from the local copy of the record.
IssueLease(t) ==
  /\ pc[t] = "evaluating"
  /\ passed[t] + 1 = Checks[t]
  /\ CanTransition(local[t], "POLICY_EVALUATED")
  /\ CanTransition("POLICY_EVALUATED", "LEASED")
  /\ passed' = [passed EXCEPT ![t] = @ + 1]
  /\ Store(t, "LEASED")
  /\ leased' = leased \cup {t}
  /\ pc' = [pc EXCEPT ![t] = "leased"]
  /\ UNCHANGED <<bridge, sent, receipts, settled, canceled>>

\* issueLease throws: POLICY_EVALUATED has been stored, nothing else.
LeaseThrows(t) ==
  /\ pc[t] = "evaluating"
  /\ passed[t] + 1 = Checks[t]
  /\ CanTransition(local[t], "POLICY_EVALUATED")
  /\ passed' = [passed EXCEPT ![t] = @ + 1]
  /\ Store(t, "POLICY_EVALUATED")
  /\ pc' = [pc EXCEPT ![t] = "threw"]
  /\ UNCHANGED <<leased, bridge, sent, receipts, settled, canceled>>

\* With a bridge the record becomes DISPATCHED before anything is sent.
MarkDispatched(t) ==
  /\ pc[t] = "leased"
  /\ bridge
  /\ CanTransition(local[t], "DISPATCHED")
  /\ Store(t, "DISPATCHED")
  /\ pc' = [pc EXCEPT ![t] = "sending"]
  /\ UNCHANGED <<leased, passed, bridge, sent, receipts, settled, canceled>>

\* Without one createTask returns the LEASED record.
ReturnLeased(t) ==
  /\ pc[t] = "leased"
  /\ ~bridge
  /\ pc' = [pc EXCEPT ![t] = "returned"]
  /\ UNCHANGED <<leased, tasks, local, passed, bridge, sent, receipts, settled, canceled>>

\* ACPDispatchBridge.dispatchTask / dispatchWorkflow: only with a lease.  The
\* target agent, if there is one, has the envelope, and then accepts or rejects.
DispatchTask(t) ==
  /\ pc[t] = "sending"
  /\ t \in leased
  /\ \/ sent' = sent \cup {t} /\ pc' \in {[pc EXCEPT ![t] = "returned"], [pc EXCEPT ![t] = "threw"]}
     \/ UNCHANGED sent /\ pc' = [pc EXCEPT ![t] = "returned"]
  /\ UNCHANGED <<leased, tasks, local, passed, bridge, receipts, settled, canceled>>

\* The evaluator, the event publisher or the bridge rejects: the call throws and
\* leaves the record as the last segment stored it.
CreateThrows(t) ==
  /\ pc[t] \in {"evaluating", "leased", "sending"}
  /\ pc' = [pc EXCEPT ![t] = "threw"]
  /\ UNCHANGED <<leased, tasks, local, passed, bridge, sent, receipts, settled, canceled>>

----------------------------------------------------------------------------
(* cancelTask and settleReceipt.                                           *)

CancelTask(t) ==
  /\ tasks[t] # "ABSENT"
  /\ \/ /\ CanTransition(tasks[t], "CANCELLED")
        /\ tasks' = [tasks EXCEPT ![t] = "CANCELLED"]
     \/ /\ tasks[t] = "CANCELLED"
        /\ UNCHANGED tasks
  /\ canceled' = canceled \cup {t}
  /\ UNCHANGED <<leased, local, pc, passed, bridge, sent, receipts, settled>>

\* The agent that executed t reports its outcome, once.
AgentReports(t, status) ==
  /\ t \in sent \/ (~bridge /\ pc[t] = "returned" /\ t \in leased)
  /\ ~\E r \in receipts : r.task = t /\ r.check = "verifies"
  /\ receipts' = receipts \cup {[task |-> t, status |-> status, check |-> "verifies"]}
  /\ UNCHANGED <<leased, tasks, local, pc, passed, bridge, sent, settled, canceled>>

\* A receipt whose binding, checksum or signature does not verify.
DamagedReceipt(t) ==
  /\ tasks[t] # "ABSENT"
  /\ receipts' = receipts \cup {[task |-> t, status |-> "SUCCESS", check |-> "fails"]}
  /\ UNCHANGED <<leased, tasks, local, pc, passed, bridge, sent, settled, canceled>>

\* A plausible slip: only a DISPATCHED record is walked forward.
AdvancedMutant(s) == IF s = "DISPATCHED" THEN "EXECUTING" ELSE s

\* The state from which RECEIPT_VERIFIED is tried: LEASED and DISPATCHED are
\* walked forward to EXECUTING.
Advanced(s) == IF s \in {"LEASED", "DISPATCHED"} THEN "EXECUTING" ELSE s

Outcome(status) ==
  CASE status = "SUCCESS"   -> "COMPLETED"
    [] status = "CANCELLED" -> "CANCELLED"
    [] OTHER                -> "FAILED"

\* A plausible slip: the verification result is not looked at.
AcceptAnyReceipt(r) ==
  /\ tasks[r.task] # "CANCELLED"
  /\ r.task \in leased
  /\ CanTransition(Advanced(tasks[r.task]), "RECEIPT_VERIFIED")
  /\ CanTransition("RECEIPT_VERIFIED", Outcome(r.status))
  /\ tasks' = [tasks EXCEPT ![r.task] = Outcome(r.status)]
  /\ settled' = [settled EXCEPT ![r.task] = @ + 1]
  /\ UNCHANGED <<leased, local, pc, passed, bridge, sent, receipts, canceled>>

\* settleReceipt with a receipt that verifies.  One illegal transition in the
\* chain throws, and nothing is stored.
AcceptReceipt(r) ==
  /\ tasks[r.task] # "CANCELLED"
  /\ r.task \in leased
  /\ r.check = "verifies"
  /\ CanTransition(Advanced(tasks[r.task]), "RECEIPT_VERIFIED")
  /\ CanTransition("RECEIPT_VERIFIED", Outcome(r.status))
  /\ tasks' = [tasks EXCEPT ![r.task] = Outcome(r.status)]
  /\ settled' = [settled EXCEPT ![r.task] = @ + 1]
  /\ UNCHANGED <<leased, local, pc, passed, bridge, sent, receipts, canceled>>

\* settleReceipt with one that does not: the task fails, unless it is terminal.
RefuseReceipt(r) ==
  /\ tasks[r.task] # "CANCELLED"
  /\ r.task \in leased
  /\ r.check = "fails"
  /\ CanTransition(tasks[r.task], "FAILED")
  /\ tasks' = [tasks EXCEPT ![r.task] = "FAILED"]
  /\ UNCHANGED <<leased, local, pc, passed, bridge, sent, receipts, settled, canceled>>

SettleReceipt(r) == AcceptReceipt(r) \/ RefuseReceipt(r)

----------------------------------------------------------------------------
CreateStep(t) ==
  \/ PolicyDenies(t) \/ NodeAllowed(t) \/ IssueLease(t) \/ LeaseThrows(t)
  \/ MarkDispatched(t) \/ ReturnLeased(t) \/ DispatchTask(t) \/ CreateThrows(t)

Next ==
  \/ \E t \in Tasks : Submit(t) \/ CreateStep(t) \/ CancelTask(t) \/ DamagedReceipt(t)
  \/ \E t \in Tasks, status \in Statuses : AgentReports(t, status)
  \/ \E r \in receipts : SettleReceipt(r)

Spec == Init /\ [][Next]_vars

\* The awaits of createTask settle (resolve or reject), and a receipt that was
\* posted is handled.  Nobody is obliged to submit, cancel or report.
Fairness ==
  /\ \A t \in Tasks : WF_vars(CreateStep(t))
  /\ \A r \in Receipts : WF_vars(r \in receipts /\ SettleReceipt(r))

FairSpec == Spec /\ Fairness

----------------------------------------------------------------------------
(* What must hold.                                                         *)

TypeOK ==
  /\ tasks \in [Tasks -> States \cup {"ABSENT"}]
  /\ local \in [Tasks -> States \cup {"ABSENT"}]
  /\ leased \subseteq Tasks
  /\ pc \in [Tasks -> Pcs]
  /\ passed \in [Tasks -> Nat]
  /\ bridge \in BOOLEAN
  /\ sent \subseteq Tasks
  /\ receipts \subseteq Receipts
  /\ settled \in [Tasks -> Nat]
  /\ canceled \subseteq Tasks

\* A lease exists, and an envelope leaves the backend, only for a task all of
\* whose policy evaluations (one per node of a graph) allowed it, whatever
\* cancellations and receipts arrive meanwhile (createTaskGraph, fail closed).
FailClosed ==
  \A t \in Tasks :
    t \in leased \cup sent => passed[t] = Checks[t] /\ t \in leased

\* A COMPLETED task has a receipt of success that verified, from the agent that
\* was given its lease; neither creation nor cancellation can complete a task.
CompletedOnEvidence ==
  \A t \in Tasks :
    tasks[t] = "COMPLETED" =>
      /\ settled[t] = 1
      /\ [task |-> t, status |-> "SUCCESS", check |-> "verifies"] \in receipts
      /\ bridge => t \in sent

\* Receipts may be delivered many times; a task is settled by at most one.
SettledOnce == \A t \in Tasks : settled[t] <= 1

\* What the three invariants above rest on: where the creation call stands
\* decides which records hold a lease and who may already have reported.
CreationOrder ==
  \A t \in Tasks :
    /\ pc[t] \in {"idle", "evaluating"} => t \notin leased
    /\ t \in leased => passed[t] = Checks[t]
    /\ t \in sent => pc[t] \in {"returned", "threw"} /\ t \in leased
    /\ \A r \in receipts :
         r.task = t /\ r.check = "verifies" => pc[t] \in {"returned", "threw"} /\ (bridge => t \in sent)
    /\ settled[t] # 0 =>
         pc[t] \in {"returned", "threw"} /\ tasks[t] \in {"COMPLETED", "FAILED"}

\* Once createTask is over, a terminal record is never changed again by late
\* receipts or cancellations (ALLOWED_TRANSITIONS has no exit from them).
TerminalIsFinal ==
  [][\A t \in Tasks :
       (pc[t] \in {"returned", "threw"} /\ tasks[t] \in Terminal)
          => tasks'[t] = tasks[t]]_vars

\* When the agent has reported success or failure, the task ends in a terminal
\* state, however the report races with cancellation and damaged receipts.  A
\* report of a cancellation does not end it: settleReceipt has the branch, but
\* ALLOWED_TRANSITIONS forbids RECEIPT_VERIFIED -> CANCELLED, and it throws.
ReportSettles ==
  \A t \in Tasks :
    (\E r \in receipts : r.task = t /\ r.check = "verifies" /\ r.status # "CANCELLED")
       ~> tasks[t] \in Terminal

\* tests/tasks.test.ts: "blocks transition from terminal CANCELLED state to
\* COMPLETED".  cancelTask returned a CANCELLED record, so it must not complete.
CancelledNeverCompletes == \A t \in canceled : tasks[t] # "COMPLETED"
=============================================================================
