--------------------------- MODULE WorkflowEngine ---------------------------
(***************************************************************************)
(* The desktop agent's workflow engine (apps/desktop-agent/src/workflow):  *)
(* concurrent executeWorkflow calls, the tiers of the DAG, the nodes of a  *)
(* tier running side by side, compensation, cancellation, expiry, the      *)
(* checkpoints, and a restart with the restoration of initialize.          *)
(*                                                                         *)
(* A step is the code between two awaits.  The task scheduler is seen      *)
(* through its answers: a node's scheduleTask succeeds (it also does so    *)
(* for a task that only waits in its queue), fails, or throws.  A          *)
(* checkpoint is durable when it is called; only its status is kept, since *)
(* nothing resumes a restored workflow and reads the rest.  The index and  *)
(* the checkpoint are written together: handlers that race for the index   *)
(* are those of module TaskScheduler, whose code has the same shape.       *)
(***************************************************************************)
EXTENDS Naturals, Sequences, FiniteSets, FiniteSetsExt, SequencesExt

CONSTANTS Calls,         \* executeWorkflow calls
          Workflows,
          Submissions,   \* which workflow each call may submit: functions [Calls -> Workflows]
          Node,          \* the nodes of every workflow
          Dags,          \* submitted graphs: [deps, edges], each a set of pairs <<before, after>>
          Compensable,   \* nodes with a compensationPayload
          Authorised,    \* workflows whose lease names this device, its tenant and every capability
          MaxWorkflows,  \* maxActiveWorkflows (10)
          MaxCrashes     \* bound on restarts

ASSUME WorkflowAssumption ==
  /\ IsFiniteSet(Calls) /\ IsFiniteSet(Workflows)
  /\ Submissions \subseteq [Calls -> Workflows]
  /\ IsFiniteSet(Node) /\ Node # {}
  /\ Dags \subseteq [deps : SUBSET (Node \X Node), edges : SUBSET (Node \X Node)]
  /\ Compensable \subseteq Node /\ Authorised \subseteq Workflows
  /\ MaxWorkflows \in Nat /\ MaxCrashes \in Nat

VARIABLES dag,          \* the graph the calls submit
          workflowOf,   \* the workflow of each call
          life,         \* "ready", "stopping", "restarted"
          pc,           \* where each call is
          tier,         \* the tier each call has reached
          todo,         \* completedNodeIds that each call has yet to look at, to compensate them
          status,       \* activeWorkflows: the status of each workflow, None when absent
          step,         \* where the executeSingleNode of each node is; nodeStates follows it
          done,         \* completedNodes
          compensated,  \* history: compensations made, in order
          triggered,    \* workflows with compensationTriggered
          cancelling,   \* cancelWorkflow calls before their checkpoint
          cancelledAt,  \* history: the tier reached when a cancellation was accepted, 0 if none
          saved,        \* the status in the durable checkpoint, None when there is none
          lapsed,       \* workflows whose lease is no longer valid
          overdue,      \* workflows past their expiresAt
          crashes

input == <<dag, workflowOf>>
calls == <<pc, tier, todo>>
memory == <<status, step, done, compensated, triggered, cancelling, cancelledAt>>
world == <<lapsed, overdue, crashes>>
vars == <<input, life, calls, memory, saved, world>>

None == "none"
Terminal == {"Completed", "Failed", "CANCELED", "EXPIRED"}
Idle == [n \in Node |-> "idle"]

-----------------------------------------------------------------------------
(* parseAndValidate.  A pair listed both as a dependency and as an edge    *)
(* counts twice in the in-degree, and is taken off twice.                  *)

InDegree(d, from, n) == Cardinality({m \in from : <<m, n>> \in d.deps})
                      + Cardinality({m \in from : <<m, n>> \in d.edges})

\* The edges from nodes already placed in a tier have been taken off.
Ready(d, left, n) == InDegree(d, left, n) = 0

\* Kahn's algorithm, a tier at a time; the last tiers of a cyclic graph are empty.
Tier(d) == LET layer[k \in Nat] ==
                 IF k = 0 THEN {}
                 ELSE LET left == Node \ UNION {layer[j] : j \in 0 .. k - 1}
                      IN  {n \in left : Ready(d, left, n)}
           IN  [k \in 1 .. Cardinality(Node) |-> layer[k]]

Accepted(d) == /\ \A n \in Node : <<n, n>> \notin d.deps \cup d.edges
               /\ UNION {Tier(d)[k] : k \in 1 .. Cardinality(Node)} = Node

ParseAndValidate(d) ==
  [valid |-> Accepted(d), tiers |-> SelectSeq(Tier(d), LAMBDA t : t # {})]

Parsed == [d \in Dags |-> ParseAndValidate(d)]
Tiers == Parsed[dag].tiers

-----------------------------------------------------------------------------
Init ==
  /\ dag \in Dags /\ workflowOf \in Submissions
  /\ life = "ready"
  /\ pc = [c \in Calls |-> "idle"]
  /\ tier = [c \in Calls |-> 0]
  /\ todo = [c \in Calls |-> <<>>]
  /\ status = [w \in Workflows |-> None]
  /\ step = [w \in Workflows |-> Idle]
  /\ done = [w \in Workflows |-> <<>>]
  /\ compensated = [w \in Workflows |-> <<>>]
  /\ triggered = {} /\ cancelling = {}
  /\ cancelledAt = [w \in Workflows |-> 0]
  /\ saved = [w \in Workflows |-> None]
  /\ lapsed = {} /\ overdue = {}
  /\ crashes = 0

MoveTo(c, where) == pc' = [pc EXCEPT ![c] = where]
\* What a call answers is left out; its locals are gone.
Return(c) == MoveTo(c, "done") /\ tier' = [tier EXCEPT ![c] = 0]

Active == {w \in Workflows : status[w] # None}
\* persistCheckpoint is called and stores a copy of the state, whose status is s.
Checkpoint(w, s) == saved' = [saved EXCEPT ![w] = s]

-----------------------------------------------------------------------------
(* executeWorkflow up to its first tier.                                   *)

Submit(c) ==
  /\ pc[c] = "idle"
  /\ IF life = "stopping" THEN Return(c)
                          ELSE MoveTo(c, "validating") /\ UNCHANGED tier
  /\ life' = IF life = "restarted" THEN "ready" ELSE life
  /\ UNCHANGED <<input, todo, memory, saved, world>>

\* A plausible slip: neither a duplicate nor the number of active workflows
\* is looked at again after the awaits.
AdmissibleMutant(w) == w \in Authorised \ lapsed /\ Parsed[dag].valid

\* The lease is validated and the identity read (awaits); everything from there
\* to the new state runs without another.
Admissible(w) == /\ w \in Authorised \ lapsed
                 /\ w \notin Active
                 /\ Cardinality(Active) < MaxWorkflows
                 /\ Parsed[dag].valid

Refuse(c) ==
  /\ pc[c] = "validating" /\ ~Admissible(workflowOf[c])
  /\ Return(c)
  /\ UNCHANGED <<input, life, todo, memory, saved, world>>

Admit(c) ==
  LET w == workflowOf[c] IN
  /\ pc[c] = "validating" /\ Admissible(w)
  /\ status' = [status EXCEPT ![w] = "Running"]
  /\ step' = [step EXCEPT ![w] = Idle]
  /\ done' = [done EXCEPT ![w] = <<>>]
  /\ compensated' = [compensated EXCEPT ![w] = <<>>]
  /\ cancelledAt' = [cancelledAt EXCEPT ![w] = 0]
  /\ triggered' = triggered \ {w}
  /\ Checkpoint(w, "Running")
  /\ MoveTo(c, "opening")
  /\ UNCHANGED <<input, life, tier, todo, cancelling, world>>

\* The first checkpoint is on disk and the loop over the tiers begins.
Opened(c) ==
  /\ pc[c] = "opening"
  /\ tier' = [tier EXCEPT ![c] = 1]
  /\ MoveTo(c, "check")
  /\ UNCHANGED <<input, life, todo, memory, saved, world>>

-----------------------------------------------------------------------------
(* executeDAGTiers.                                                        *)

SetStatus(w, s) == status' = [status EXCEPT ![w] = s]
\* The last checkpoint is being written, then the call returns.
Conclude(c) == MoveTo(c, "closing")

\* A plausible slip: only the expiry is looked at before a tier.
StoppedMutant(w) == w \in overdue

Stopped(w) == status[w] = "CANCELED" \/ w \in overdue

StopTier(c) ==
  LET w == workflowOf[c]
      end == IF w \in overdue THEN "EXPIRED" ELSE "CANCELED"
  IN  /\ pc[c] = "check" /\ Stopped(w)
      /\ SetStatus(w, end) /\ Checkpoint(w, end) /\ Conclude(c)
      /\ UNCHANGED <<input, life, tier, todo, step, done, compensated, triggered,
                     cancelling, cancelledAt, world>>

CheckTier(c) ==
  /\ pc[c] = "check" /\ ~Stopped(workflowOf[c])
  /\ MoveTo(c, "leasing")
  /\ UNCHANGED <<input, life, tier, todo, memory, saved, world>>

LoseLease(c) ==
  LET w == workflowOf[c] IN
  /\ pc[c] = "leasing" /\ w \in lapsed
  /\ SetStatus(w, "EXPIRED") /\ Checkpoint(w, "EXPIRED") /\ Conclude(c)
  /\ UNCHANGED <<input, life, tier, todo, step, done, compensated, triggered,
                 cancelling, cancelledAt, world>>

\* tier.map calls executeSingleNode for every node before any of them awaits.
StartTier(c) ==
  LET w == workflowOf[c]
      started == Tiers[tier[c]]
  IN  /\ pc[c] = "leasing" /\ w \notin lapsed
      /\ step' = [step EXCEPT ![w] = [n \in Node |-> IF n \in started THEN "opening" ELSE @[n]]]
      /\ Checkpoint(w, status[w])
      /\ MoveTo(c, "running")
      /\ UNCHANGED <<input, life, tier, todo, status, done, compensated, triggered,
                     cancelling, cancelledAt, world>>

StepsOf(c) == {step[workflowOf[c]][n] : n \in Tiers[tier[c]]}

\* Promise.all rejects with the first throw; the other nodes go on by themselves
\* and the workflow keeps its status.
TierThrows(c) ==
  /\ pc[c] = "running" /\ "threw" \in StepsOf(c)
  /\ Return(c)
  /\ UNCHANGED <<input, life, todo, memory, saved, world>>

TierSucceeds(c) ==
  /\ pc[c] = "running" /\ StepsOf(c) = {"ok"} /\ tier[c] < Len(Tiers)
  /\ tier' = [tier EXCEPT ![c] = @ + 1]
  /\ MoveTo(c, "check")
  /\ UNCHANGED <<input, life, todo, memory, saved, world>>

\* The last tier: the status becomes Completed whatever it was.
Complete(c) ==
  /\ pc[c] = "running" /\ StepsOf(c) = {"ok"} /\ tier[c] = Len(Tiers)
  /\ SetStatus(workflowOf[c], "Completed") /\ Checkpoint(workflowOf[c], "Completed") /\ Conclude(c)
  /\ UNCHANGED <<input, life, tier, todo, step, done, compensated, triggered,
                 cancelling, cancelledAt, world>>

AllSettled(c) == "failed" \in StepsOf(c) /\ StepsOf(c) \subseteq {"ok", "failed"}

\* executeCompensation is entered: the completed nodes, last first.
TierFails(c) ==
  LET w == workflowOf[c] IN
  /\ pc[c] = "running" /\ AllSettled(c)
  /\ SetStatus(w, "Failed")
  /\ triggered' = triggered \cup {w}
  /\ todo' = [todo EXCEPT ![c] =
       IF w \in triggered THEN <<>> ELSE Reverse(done[w])]
  /\ MoveTo(c, "compensating")
  /\ UNCHANGED <<input, life, tier, step, done, compensated, cancelling,
                 cancelledAt, saved, world>>

\* The next node with a compensation is found, its compensation scheduled and
\* awaited; how it ends is ignored.
Compensate(c) ==
  LET w == workflowOf[c]
      left == todo[c]
  IN
  \E i \in 1 .. Len(left) :
  /\ pc[c] = "compensating"
  /\ left[i] \in Compensable /\ \A j \in 1 .. i - 1 : left[j] \notin Compensable
  /\ compensated' = [compensated EXCEPT ![w] = Append(@, left[i])]
  /\ todo' = [todo EXCEPT ![c] = SubSeq(left, i + 1, Len(left))]
  /\ UNCHANGED <<input, life, pc, tier, status, step, done, triggered,
                 cancelling, cancelledAt, saved, world>>

Compensated(c) ==
  /\ pc[c] = "compensating" /\ \A i \in 1 .. Len(todo[c]) : todo[c][i] \notin Compensable
  /\ Checkpoint(workflowOf[c], status[workflowOf[c]]) /\ Conclude(c)
  /\ UNCHANGED <<input, life, tier, todo, memory, world>>

Close(c) ==
  /\ pc[c] = "closing"
  /\ Return(c)
  /\ UNCHANGED <<input, life, todo, memory, saved, world>>

-----------------------------------------------------------------------------
(* executeSingleNode.                                                      *)

SetStep(w, n, s) == step' = [step EXCEPT ![w][n] = s]

\* The payload is built and the task scheduled.
NodeScheduled(w, n) ==
  /\ step[w][n] = "opening"
  /\ SetStep(w, n, "scheduled")
  /\ UNCHANGED <<input, life, calls, status, done, compensated, triggered, cancelling,
                 cancelledAt, saved, world>>

\* An unusable payload, a scheduler that throws, or an output that
\* setNodeOutput refuses: such a node is Completed and not listed as such.
NodeThrows(w, n) ==
  /\ step[w][n] \in {"opening", "scheduled"}
  /\ SetStep(w, n, "threw")
  /\ UNCHANGED <<input, life, calls, status, done, compensated, triggered, cancelling,
                 cancelledAt, saved, world>>

NodeSucceeds(w, n) ==
  /\ step[w][n] = "scheduled"
  /\ done' = [done EXCEPT ![w] = Append(@, n)]
  /\ Checkpoint(w, status[w])
  /\ SetStep(w, n, "succeeded")
  /\ UNCHANGED <<input, life, calls, status, compensated, triggered, cancelling, cancelledAt, world>>

NodeFails(w, n) ==
  /\ step[w][n] = "scheduled"
  /\ Checkpoint(w, status[w])
  /\ SetStep(w, n, "failing")
  /\ UNCHANGED <<input, life, calls, status, done, compensated, triggered, cancelling,
                 cancelledAt, world>>

NodeSettled(w, n) ==
  /\ step[w][n] \in {"succeeded", "failing"}
  /\ SetStep(w, n, IF step[w][n] = "succeeded" THEN "ok" ELSE "failed")
  /\ UNCHANGED <<input, life, calls, status, done, compensated, triggered, cancelling,
                 cancelledAt, saved, world>>

-----------------------------------------------------------------------------
(* cancelWorkflow, the maintenance loop, shutdown, a restart.              *)

Reached(w) == Max({1} \cup {tier[c] : c \in {d \in Calls : workflowOf[d] = w}})

\* The abort signal has no listener, and no pending node is known to the
\* scheduler: what a cancellation changes is the status.
CancelNow(w) ==
  /\ status[w] \notin Terminal \cup {None}
  /\ SetStatus(w, "CANCELED")
  /\ cancelling' = cancelling \cup {w}
  /\ cancelledAt' = [cancelledAt EXCEPT ![w] = Reached(w)]
  /\ UNCHANGED <<input, life, calls, step, done, compensated, triggered, saved, world>>

CancelWorkflow(w) == CancelNow(w)

CancelSaved(w) ==
  /\ w \in cancelling
  /\ cancelling' = cancelling \ {w}
  /\ Checkpoint(w, status[w])
  /\ UNCHANGED <<input, life, calls, status, step, done, compensated, triggered,
                 cancelledAt, world>>

\* A plausible slip: only workflows that a call still executes are looked at.
MaintainMutant(w) ==
  /\ life # "stopping" /\ w \in overdue
  /\ \E c \in Calls : workflowOf[c] = w /\ pc[c] = "running"
  /\ CancelNow(w)

Maintain(w) == life # "stopping" /\ w \in overdue /\ CancelNow(w)

Shutdown ==
  /\ life' = "stopping"
  /\ life # "stopping"
  /\ UNCHANGED <<input, calls, memory, saved, world>>

Crash ==
  /\ crashes < MaxCrashes
  /\ crashes' = crashes + 1
  /\ life' = "restarted"
  /\ pc' = [c \in Calls |-> IF pc[c] = "idle" THEN "idle" ELSE "done"]
  /\ tier' = [c \in Calls |-> 0]
  /\ todo' = [c \in Calls |-> <<>>]
  /\ status' = [w \in Workflows |-> None]
  /\ step' = [w \in Workflows |-> Idle]
  /\ done' = [w \in Workflows |-> <<>>]
  /\ compensated' = [w \in Workflows |-> <<>>]
  /\ triggered' = {} /\ cancelling' = {}
  /\ cancelledAt' = [w \in Workflows |-> 0]
  /\ UNCHANGED <<input, saved, lapsed, overdue>>

\* A checkpoint that cannot be read or is malformed (bad) is dropped like one
\* that is over; EXPIRED is not among the statuses that are.
Restorable(w) == /\ saved[w] # None
                 /\ w \notin overdue
                 /\ saved[w] \notin {"Completed", "Failed", "CANCELED"}

Initialize ==
  \E bad \in SUBSET {w \in Workflows : saved[w] # None} :
    LET restored == {w \in Workflows : Restorable(w)} \ bad IN
    /\ life = "restarted"
    /\ life' = "ready"
    /\ status' = [w \in Workflows |-> IF w \in restored THEN saved[w] ELSE None]
    /\ saved' = [w \in Workflows |-> IF w \in restored THEN saved[w] ELSE None]
    /\ UNCHANGED <<input, calls, step, done, compensated, triggered, cancelling, cancelledAt, world>>

\* Time passes: a lease or a workflow expires.  The time a workflow names can be
\* parsed (the schema of the contracts asks for that; the engine does not check it).
Lapse(w) ==
  /\ w \in {workflowOf[c] : c \in Calls}
  /\ \/ w \notin lapsed /\ lapsed' = lapsed \cup {w} /\ UNCHANGED overdue
     \/ w \notin overdue /\ overdue' = overdue \cup {w} /\ UNCHANGED lapsed
  /\ UNCHANGED <<input, life, calls, memory, saved, crashes>>

-----------------------------------------------------------------------------
CallStep(c) ==
  \/ Submit(c) \/ Refuse(c) \/ Admit(c) \/ Opened(c)
  \/ StopTier(c) \/ CheckTier(c) \/ LoseLease(c) \/ StartTier(c)
  \/ TierThrows(c) \/ TierSucceeds(c) \/ Complete(c) \/ TierFails(c)
  \/ Compensate(c) \/ Compensated(c) \/ Close(c)

NodeStep(w, n) ==
  \/ NodeScheduled(w, n) \/ NodeThrows(w, n) \/ NodeSucceeds(w, n)
  \/ NodeFails(w, n) \/ NodeSettled(w, n)

Next ==
  \/ \E c \in Calls : CallStep(c)
  \/ \E w \in Workflows, n \in Node : NodeStep(w, n)
  \/ \E w \in Workflows : CancelWorkflow(w) \/ CancelSaved(w) \/ Maintain(w) \/ Lapse(w)
  \/ Shutdown \/ Crash \/ Initialize

\* Timers fire and time passes.
Fairness == \A w \in Workflows : WF_vars(Maintain(w)) /\ WF_vars(Lapse(w))

Spec == Init /\ [][Next]_vars
FairSpec == Spec /\ Fairness

-----------------------------------------------------------------------------
\* What parseAndValidate promises for a graph it accepts: tiers that hold every
\* node once, each node in a later tier than all it depends on.
Topological(d, tiers) ==
  /\ tiers \in Seq(SUBSET Node) /\ tiers # <<>> /\ UNION ToSet(tiers) = Node
  /\ \A j, k \in DOMAIN tiers : tiers[k] # {} /\ (j # k => tiers[j] \cap tiers[k] = {})
  /\ \A e \in d.deps \cup d.edges, k \in DOMAIN tiers :
       e[2] \in tiers[k] => \E j \in 1 .. k - 1 : e[1] \in tiers[j]

ParserIsSound == \A d \in Dags : Parsed[d].valid => Topological(d, Parsed[d].tiers)

Statuses == Terminal \cup {"Running"}
Steps == {"idle", "opening", "scheduled", "succeeded", "failing", "ok", "failed", "threw"}
Places == {"idle", "validating", "opening", "check", "leasing", "running",
           "compensating", "closing", "done"}
Executing(c) == pc[c] \in {"opening", "check", "leasing", "running", "compensating", "closing"}

\* The types of the engine's maps (WorkflowExecutionState), and: a workflow that
\* a call executes is in activeWorkflows, which the code asserts with "!".
TypeOK ==
  /\ dag \in Dags /\ workflowOf \in Submissions /\ life \in {"ready", "stopping", "restarted"}
  /\ pc \in [Calls -> Places]
  /\ tier \in [Calls -> 0 .. Cardinality(Node)]
  /\ status \in [Workflows -> Statuses \cup {None}]
  /\ step \in [Workflows -> [Node -> Steps]]
  /\ \A w \in Workflows : ToSet(done[w]) \subseteq Node /\ IsInjective(done[w])
  /\ \A c \in Calls : Executing(c) => status[workflowOf[c]] # None

\* executeWorkflow 3.5 and 4: one call at a time executes a workflow, and no
\* more workflows are executed than the engine may hold.  (activeWorkflows itself
\* can be larger: initialize restores every checkpoint, those too that are left
\* from before a restart at which it did not run.)
OneExecutor ==
  /\ \A c, d \in Calls : Executing(c) /\ Executing(d) /\ workflowOf[c] = workflowOf[d] => c = d
  /\ Cardinality({c \in Calls : Executing(c)}) <= MaxWorkflows

\* executeDAGTiers with the tiers of parseAndValidate: a node is only started
\* once every node it depends on has succeeded, whichever way the dependency was
\* written down, and a workflow is only Completed when all its nodes have.
DependencyOrder ==
  \A w \in Workflows :
    /\ \A e \in dag.deps \cup dag.edges : step[w][e[2]] # "idle" => e[1] \in ToSet(done[w])
    /\ status[w] = "Completed" => ToSet(done[w]) = Node

\* These are the compensable nodes of a list, each once, the last first.
Undoes(undone, nodes) ==
  /\ ToSet(undone) = ToSet(nodes) \cap Compensable
  /\ \A i, j \in DOMAIN undone : i < j =>
       \E a, b \in DOMAIN nodes : a > b /\ undone[i] = nodes[a] /\ undone[j] = nodes[b]
  /\ IsInjective(undone)

\* executeCompensation: only a failed workflow is compensated, and when its call
\* returns, every completed node that has a compensation was compensated once,
\* the last completed first, siblings of the failed node included.
FailureIsCompensated ==
  /\ \A w \in Workflows : compensated[w] # <<>> => status[w] = "Failed"
  /\ \A c \in Calls : pc[c] = "closing" /\ status[workflowOf[c]] = "Failed" =>
       Undoes(compensated[workflowOf[c]], done[workflowOf[c]])

\* cancelWorkflow: after a cancellation was accepted the workflow starts no tier
\* but the one it had reached.
CancelStopsTiers ==
  \A c \in Calls : LET w == workflowOf[c] IN
    pc[c] \in {"leasing", "running"} /\ cancelledAt[w] # 0 => tier[c] <= cancelledAt[w]

\* executeDAGTiers: tiers start in dependency order, after a cancellation none but the
\* one that was already reached (its lease may be under validation), and what a
\* failure leaves behind is undone in the reverse order.
TiersInOrder == DependencyOrder /\ CancelStopsTiers /\ FailureIsCompensated

\* A workflow does not stay Running for ever, even when its call was rejected by
\* a throw or lost in a restart: the maintenance loop ends it once it is overdue.
RunningEnds ==
  \A w \in Workflows : status[w] = "Running" ~> (status[w] # "Running" \/ life = "stopping")
=============================================================================
