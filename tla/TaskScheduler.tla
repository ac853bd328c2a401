---------------------------- MODULE TaskScheduler ----------------------------
(***************************************************************************)
(* The desktop agent's scheduler                                           *)
(* (apps/desktop-agent/src/scheduler/task-scheduler.ts): concurrent        *)
(* scheduleTask calls, the processing loop, cancellation of queued tasks,  *)
(* the persisted queue, and a crash with the restoration of initialize.    *)
(*                                                                         *)
(* A queued item is the call that made it.  All requests are NORMAL and of *)
(* one tenant, so the queue is first in, first out, with the retries after *)
(* (module ExecutionQueue has the lanes and the rotation).  A write to the *)
(* state manager is durable when it is called.  It stores a copy, and a    *)
(* read returns the stored array itself: handlers that read between the    *)
(* same two writes share an array, which a push changes for all of them.   *)
(*                                                                         *)
(* Whoever restarts the scheduler awaits initialize before it schedules    *)
(* (as the tests do); the maintenance timer, the loop and cancellations do *)
(* not wait for it.                                                        *)
(***************************************************************************)
EXTENDS Naturals, Sequences, FiniteSets, FiniteSetsExt, SequencesExt, SeqSelection

CONSTANTS Calls,        \* scheduleTask calls
          Tasks,
          TaskOf,       \* [Calls -> Tasks]; a request's message key is its task and step,
          KeyOf,        \* [Calls -> keys]
          MaxActive,    \* the orchestrator's concurrency (5)
          MaxQueued,    \* capacity of the queue
          MaxRetries,   \* of TaskRetryPolicy (3)
          MaxCrashes    \* bound on restarts

ASSUME SchedulerAssumption ==
  /\ TaskOf \in [Calls -> Tasks] /\ {"none", "null"} \cap (Calls \cup Tasks) = {}
  /\ MaxActive \in Nat \ {0} /\ {MaxQueued, MaxRetries, MaxCrashes} \subseteq Nat

VARIABLES pc,        \* where each scheduleTask call is
          loop,      \* processNextItem: [at, item]; isProcessing is at # "off"
          cancel,    \* cancelScheduledTask of a queued task: [at, task]
          queue,     \* NORMAL items, oldest first
          retries,   \* RETRY items
          attempts,  \* retryCount of each item; one with a retry is of the RETRY lane
          index,     \* durable task_queue_index; Null before its first write
          stored,    \* durable task_queue:<task>: the item, or None
          tries,     \* its retryCount
          boot,      \* initialize: [on, left, kept], the tasks to look at and remainingIndex
          held,      \* what handlers have read of the index: [arrays, live]
          lapsed,    \* calls whose lease is no longer valid
          taskStatus, \* the orchestrator's status map
          seen,      \* its processed message keys
          running,   \* items it executes
          crashes,
          runs,      \* history: executions of each key, over all restarts
          enqueued,  \* history: calls that queued their item
          lost       \* history: tasks whose entry of the index another handler's write removed

vars == <<pc, loop, cancel, queue, retries, attempts, index, stored, tries, boot, held,
          lapsed, taskStatus, seen, running, crashes, runs, enqueued, lost>>

None == "none"
Null == {"null"}
Off == [at |-> "off", item |-> None]
NothingHeld == [arrays |-> <<>>, live |-> FALSE]
NoCancel == [at |-> "off", task |-> None]
NoBoot == [on |-> FALSE, left |-> {}, kept |-> {}]
Keys == {KeyOf[c] : c \in Calls}
Handlers == Calls \cup {"loop", "cancel"}

Init ==
  /\ pc = [c \in Calls |-> "idle"]
  /\ loop = Off
  /\ cancel = NoCancel
  /\ queue = <<>> /\ retries = <<>>
  /\ attempts = [c \in Calls |-> 0]
  /\ index = Null
  /\ stored = [t \in Tasks |-> None] /\ tries = [t \in Tasks |-> 0]
  /\ boot = NoBoot
  /\ held = NothingHeld
  /\ lapsed = {}
  /\ taskStatus = [t \in Tasks |-> None]
  /\ seen = {} /\ running = {}
  /\ crashes = 0
  /\ runs = [k \in Keys |-> 0] /\ enqueued = {} /\ lost = {}

-----------------------------------------------------------------------------
MoveTo(c, where) == pc' = [pc EXCEPT ![c] = where]
\* What the call answers is left out.
Return(c) == MoveTo(c, "done")

HasRoom == Len(queue) + Len(retries) < MaxQueued
Active == Cardinality(running)
Queued == ToSet(queue) \cup ToSet(retries)

\* queue.enqueue: at the end of the item's lane; a full queue does not take it.
Enqueue(c, retryCount) ==
  /\ queue' = IF HasRoom /\ retryCount = 0 THEN Append(queue, c) ELSE queue
  /\ retries' = IF HasRoom /\ retryCount > 0 THEN Append(retries, c) ELSE retries

\* held.arrays are the arrays read and not yet written back, oldest first, each
\* with its readers in order; held.live says that the last one is the stored one.
\* get takes the same number of turns for everyone: who reads first goes on first.
IsNext(h) == held.arrays # <<>> /\ Head(Head(held.arrays).by) = h
Array == Head(held.arrays).items
\* What get('task_queue_index') || [] returns.
ListedTasks == index \ Null

\* The handler h has called get('task_queue_index') and is suspended.
ReadIndex(h) ==
  held' = IF held.live
    THEN [held EXCEPT !.arrays[Len(held.arrays)].by = Append(@, h)]
    ELSE [arrays |-> Append(held.arrays, [by |-> <<h>>, items |-> ListedTasks]), live |-> index # Null]

\* The first reader goes on; its array now holds items.
LetGo(items) == LET rest == [by |-> Tail(Head(held.arrays).by), items |-> items]
                IN  (IF rest.by = <<>> THEN <<>> ELSE <<rest>>) \o Tail(held.arrays)

\* set('task_queue_index') by a handler that works on t.
SetIndex(items, t) ==
  /\ index' = items
  /\ lost' = (lost \cup ListedTasks) \ (items \cup {t})

\* index.push(t) and set, unless the array has t.
AddToIndex(h, t) ==
  /\ IsNext(h)
  /\ IF t \in Array
       THEN /\ held' = [arrays |-> LetGo(Array), live |-> held.live /\ LetGo(Array) # <<>>]
            /\ lost' = IF t \in ListedTasks THEN lost ELSE lost \cup {t}
            /\ UNCHANGED index
       ELSE /\ held' = [arrays |-> LetGo(Array \cup {t}), live |-> FALSE]
            /\ SetIndex(Array \cup {t}, t)
\* index.filter(id => id !== t) and set.
DropFromIndex(h, t) ==
  /\ IsNext(h)
  /\ held' = [arrays |-> LetGo(Array), live |-> FALSE]
  /\ SetIndex(Array \ {t}, t)
\* set and delete of task_queue:<task>.
StoreItem(c) ==
  /\ stored' = [stored EXCEPT ![TaskOf[c]] = c]
  /\ tries' = [tries EXCEPT ![TaskOf[c]] = attempts[c]]
ForgetItem(t) == stored' = [stored EXCEPT ![t] = None] /\ tries' = [tries EXCEPT ![t] = 0]

\* What peek may show: the oldest item, or a retry whose backoff is over.
Peeks == IF queue # <<>> THEN {Head(queue)} ELSE ToSet(retries) \cup {None}

-----------------------------------------------------------------------------
(* scheduleTask.                                                           *)

\* After admission: getScheduledTaskStatus finds the task running, or at the
\* head of the queue when the orchestrator does not know it.
Duplicate(c, head) ==
  \/ taskStatus[TaskOf[c]] = "RUNNING"
  \/ taskStatus[TaskOf[c]] = None /\ head # None /\ TaskOf[head] = TaskOf[c]

\* Denied admission, a duplicate, or a saturated queue.
ScheduleRefused(c) ==
  /\ pc[c] = "idle" /\ ~boot.on
  /\ c \in lapsed \/ ~HasRoom \/ \E head \in Peeks : Duplicate(c, head)
  /\ Return(c)
  /\ UNCHANGED <<loop, cancel, queue, retries, attempts, index, lost, stored, tries, held, lapsed,
                 taskStatus, seen, running, runs, crashes, boot, enqueued>>

\* The item is queued and the index is being read.
Schedule(c) ==
  /\ pc[c] = "idle" /\ ~boot.on /\ c \notin lapsed /\ HasRoom
  /\ \E head \in Peeks : ~Duplicate(c, head)
  /\ Enqueue(c, 0)
  /\ enqueued' = enqueued \cup {c}
  /\ ReadIndex(c)
  /\ MoveTo(c, "indexing")
  /\ UNCHANGED <<loop, cancel, attempts, index, lost, stored, tries, lapsed, taskStatus, seen,
                 running, runs, crashes, boot>>

WriteIndex(c) ==
  /\ pc[c] = "indexing"
  /\ AddToIndex(c, TaskOf[c])
  /\ MoveTo(c, "storing")
  /\ UNCHANGED <<loop, cancel, queue, retries, attempts, stored, tries, lapsed, taskStatus, seen,
                 running, runs, crashes, boot, enqueued>>

WriteItem(c) ==
  /\ pc[c] = "storing"
  /\ StoreItem(c)
  /\ MoveTo(c, "dispatching")
  /\ UNCHANGED <<loop, cancel, queue, retries, attempts, index, lost, held, lapsed, taskStatus,
                 seen, running, runs, crashes, boot, enqueued>>

\* processDispatch: no free slot, the item stays queued.
DispatchLater(c) ==
  /\ pc[c] = "dispatching" /\ Active >= MaxActive
  /\ Return(c)
  /\ UNCHANGED <<loop, cancel, queue, retries, attempts, index, lost, stored, tries, held, lapsed,
                 taskStatus, seen, running, runs, crashes, boot, enqueued>>

DispatchNow(c) ==
  /\ pc[c] = "dispatching" /\ Active < MaxActive
  /\ MoveTo(c, "validating")
  /\ UNCHANGED <<loop, cancel, queue, retries, attempts, index, lost, stored, tries, held, lapsed,
                 taskStatus, seen, running, runs, crashes, boot, enqueued>>

\* queue.remove: the first item of the task, whichever call queued it.
PlacesOf(items, t) == {i \in DOMAIN items : TaskOf[items[i]] = t}
RemoveFromQueue(t) ==
  IF PlacesOf(queue, t) # {}
    THEN queue' = Without(queue, Min(PlacesOf(queue, t))) /\ UNCHANGED retries
    ELSE retries' = Without(retries, Min(PlacesOf(retries, t))) /\ UNCHANGED queue
IsQueued(t) == \E c \in Queued : TaskOf[c] = t

\* A plausible slip: the result of queue.remove is not looked at.
ValidatedMutant(c) ==
  /\ pc[c] = "validating"
  /\ \/ /\ c \in lapsed /\ Return(c)
        /\ UNCHANGED <<queue, retries, held>>
     \/ /\ c \notin lapsed
        /\ IF IsQueued(TaskOf[c]) THEN RemoveFromQueue(TaskOf[c]) ELSE UNCHANGED <<queue, retries>>
        /\ ReadIndex(c)
        /\ MoveTo(c, "unindexing")
  /\ UNCHANGED <<loop, cancel, attempts, index, lost, stored, tries, lapsed, taskStatus, seen,
                 running, runs, crashes, boot, enqueued>>

\* The lease is validated again.  The item is executed if it was still queued;
\* with an invalid lease it stays queued and the call fails.
Validated(c) ==
  /\ pc[c] = "validating"
  /\ \/ /\ c \in lapsed /\ Return(c)
        /\ UNCHANGED <<queue, retries, held>>
     \/ /\ c \notin lapsed /\ IsQueued(TaskOf[c])
        /\ RemoveFromQueue(TaskOf[c])
        /\ ReadIndex(c)
        /\ MoveTo(c, "unindexing")
     \/ /\ c \notin lapsed /\ ~IsQueued(TaskOf[c]) /\ Return(c)
        /\ UNCHANGED <<queue, retries, held>>
  /\ UNCHANGED <<loop, cancel, attempts, index, lost, stored, tries, lapsed, taskStatus, seen,
                 running, runs, crashes, boot, enqueued>>

Unindex(c) ==
  /\ pc[c] = "unindexing"
  /\ DropFromIndex(c, TaskOf[c])
  /\ MoveTo(c, "unstoring")
  /\ UNCHANGED <<loop, cancel, queue, retries, attempts, stored, tries, lapsed, taskStatus, seen,
                 running, runs, crashes, boot, enqueued>>

-----------------------------------------------------------------------------
(* The orchestrator, as its callers see it (module Orchestrator).          *)

\* executeTask refuses: no slot is taken.  The message key is recorded before
\* the lease and the concurrency limit are looked at.
Refusal(c) ==
  CASE taskStatus[TaskOf[c]] = "RUNNING" -> "DUPLICATE"
    [] KeyOf[c] \in seen             -> "REPLAY"
    [] c \in lapsed                  -> "LEASE_DENIED"
    [] Active >= MaxActive           -> "CONCURRENCY"
    [] OTHER                         -> None

ExecuteStarts(c) ==
  /\ running' = running \cup {c}
  /\ seen' = seen \cup {KeyOf[c]}
  /\ taskStatus' = [taskStatus EXCEPT ![TaskOf[c]] = "RUNNING"]
  /\ runs' = [runs EXCEPT ![KeyOf[c]] = @ + 1]

ExecuteRefuses(c) ==
  /\ seen' = IF Refusal(c) = "DUPLICATE" THEN seen ELSE seen \cup {KeyOf[c]}
  /\ UNCHANGED <<running, taskStatus, runs>>

ExecuteEnds(c) ==
  /\ running' = running \ {c}
  /\ taskStatus' = [taskStatus EXCEPT ![TaskOf[c]] = "ENDED"]
  /\ UNCHANGED <<seen, runs>>

\* The item that was taken out goes back into its lane.
Requeue(c) == Enqueue(c, attempts[c])

\* The persisted item is deleted and the call executes it.
ExecuteItem(c) ==
  /\ pc[c] = "unstoring"
  /\ ForgetItem(TaskOf[c])
  /\ \/ /\ Refusal(c) = None
        /\ ExecuteStarts(c)
        /\ MoveTo(c, "executing")
        /\ UNCHANGED <<queue, retries, held>>
     \/ /\ Refusal(c) \notin {None, "CONCURRENCY"}
        /\ ExecuteRefuses(c)
        /\ Return(c)
        /\ UNCHANGED <<queue, retries, held>>
     \/ /\ Refusal(c) = "CONCURRENCY"
        /\ ExecuteRefuses(c)
        /\ Requeue(c)
        /\ ReadIndex(c)
        /\ MoveTo(c, "reindexing")
  /\ UNCHANGED <<loop, cancel, attempts, index, lost, lapsed, crashes, boot, enqueued>>

Finish(c) ==
  /\ pc[c] = "executing" /\ c \in running
  /\ ExecuteEnds(c)
  /\ Return(c)
  /\ UNCHANGED <<loop, cancel, queue, retries, attempts, index, lost, stored, tries, held, lapsed,
                 crashes, boot, enqueued>>

\* After CONCURRENCY_EXCEEDED the item is persisted again.
Reindex(c) ==
  /\ pc[c] = "reindexing"
  /\ AddToIndex(c, TaskOf[c])
  /\ MoveTo(c, "restoring")
  /\ UNCHANGED <<loop, cancel, queue, retries, attempts, stored, tries, lapsed, taskStatus, seen,
                 running, runs, crashes, boot, enqueued>>

Restore(c) ==
  /\ pc[c] = "restoring"
  /\ StoreItem(c)
  /\ Return(c)
  /\ UNCHANGED <<loop, cancel, queue, retries, attempts, index, lost, held, lapsed, taskStatus,
                 seen, running, runs, crashes, boot, enqueued>>

-----------------------------------------------------------------------------
(* processNextItem: one iteration of its loop; the maintenance timer, and  *)
(* every call that leaves its item queued, start it when it is off.        *)

LoopAt(where) == loop' = [loop EXCEPT !.at = where]
Item == loop.item

\* dequeue: the oldest NORMAL item, else a retry whose backoff is over.
LoopTakes(c) ==
  /\ loop = Off /\ Active < MaxActive
  /\ \/ /\ queue # <<>> /\ c = Head(queue)
        /\ queue' = Tail(queue) /\ UNCHANGED retries
     \/ /\ queue = <<>> /\ UNCHANGED queue
        /\ \E i \in DOMAIN retries : c = retries[i] /\ retries' = Without(retries, i)
  /\ loop' = [at |-> "validating", item |-> c]
  /\ UNCHANGED <<pc, cancel, attempts, index, lost, stored, tries, held, lapsed, taskStatus, seen,
                 running, runs, crashes, boot, enqueued>>

\* The item has expired or its lease is invalid: it is dropped.
LoopValidates ==
  /\ loop.at = "validating"
  /\ LoopAt(IF Item \in lapsed THEN "dropping" ELSE "unindexing")
  /\ ReadIndex("loop")
  /\ UNCHANGED <<pc, cancel, queue, retries, attempts, index, lost, stored, tries, lapsed,
                 taskStatus, seen, running, runs, crashes, boot, enqueued>>

LoopUnindexes ==
  /\ loop.at \in {"unindexing", "dropping"}
  /\ DropFromIndex("loop", TaskOf[Item])
  /\ LoopAt(IF loop.at = "dropping" THEN "forgetting" ELSE "unstoring")
  /\ UNCHANGED <<pc, cancel, queue, retries, attempts, stored, tries, lapsed, taskStatus, seen,
                 running, runs, crashes, boot, enqueued>>

\* A plausible slip: the iteration ends without giving its item up.
LoopForgetsMutant ==
  /\ loop.at = "forgetting"
  /\ ForgetItem(TaskOf[Item])
  /\ loop' = [loop EXCEPT !.at = "off"]
  /\ UNCHANGED <<pc, cancel, queue, retries, attempts, index, lost, held, lapsed, taskStatus,
                 seen, running, runs, crashes, boot, enqueued>>

LoopForgets ==
  /\ loop.at = "forgetting"
  /\ ForgetItem(TaskOf[Item])
  /\ loop' = Off
  /\ UNCHANGED <<pc, cancel, queue, retries, attempts, index, lost, held, lapsed, taskStatus,
                 seen, running, runs, crashes, boot, enqueued>>

LoopExecutes ==
  /\ loop.at = "unstoring"
  /\ ForgetItem(TaskOf[Item])
  /\ \/ /\ Refusal(Item) = None
        /\ ExecuteStarts(Item)
        /\ LoopAt("executing")
        /\ UNCHANGED <<queue, retries, held>>
     \/ /\ Refusal(Item) \notin {None, "CONCURRENCY"}
        /\ ExecuteRefuses(Item)
        /\ loop' = Off
        /\ UNCHANGED <<queue, retries, held>>
     \/ /\ Refusal(Item) = "CONCURRENCY"
        /\ ExecuteRefuses(Item)
        /\ Requeue(Item)
        /\ ReadIndex("loop")
        /\ LoopAt("reindexing")
  /\ UNCHANGED <<pc, cancel, attempts, index, lost, lapsed, crashes, boot, enqueued>>

\* A transient error is retried by the loop (and only by it): scheduleRetry.
LoopFinishes(outcome) ==
  /\ loop.at = "executing"
  /\ ExecuteEnds(Item)
  /\ IF outcome = "transient" /\ attempts[Item] < MaxRetries
       THEN /\ attempts' = [attempts EXCEPT ![Item] = @ + 1]
            /\ Enqueue(Item, attempts[Item] + 1)
            /\ ReadIndex("loop")
            /\ LoopAt("reindexing")
       ELSE /\ loop' = Off
            /\ UNCHANGED <<attempts, queue, retries, held>>
  /\ UNCHANGED <<pc, cancel, index, lost, stored, tries, lapsed, crashes, boot, enqueued>>

LoopReindexes ==
  /\ loop.at = "reindexing"
  /\ AddToIndex("loop", TaskOf[Item])
  /\ LoopAt("restoring")
  /\ UNCHANGED <<pc, cancel, queue, retries, attempts, stored, tries, lapsed, taskStatus, seen,
                 running, runs, crashes, boot, enqueued>>

LoopRestores ==
  /\ loop.at = "restoring"
  /\ StoreItem(Item)
  /\ loop' = Off
  /\ UNCHANGED <<pc, cancel, queue, retries, attempts, index, lost, held, lapsed, taskStatus,
                 seen, running, runs, crashes, boot, enqueued>>

-----------------------------------------------------------------------------
(* cancelScheduledTask of a queued task.  (Of any other task it is the     *)
(* orchestrator's cancelTask.)                                             *)

CancelQueued(t) ==
  /\ cancel = NoCancel /\ IsQueued(t)
  /\ RemoveFromQueue(t)
  /\ cancel' = [at |-> "checkpointing", task |-> t]
  /\ UNCHANGED <<pc, loop, attempts, index, lost, stored, tries, held, lapsed, taskStatus, seen,
                 running, runs, crashes, boot, enqueued>>

CancelReads ==
  /\ cancel.at = "checkpointing"
  /\ ReadIndex("cancel")
  /\ cancel' = [cancel EXCEPT !.at = "unindexing"]
  /\ UNCHANGED <<pc, loop, queue, retries, attempts, index, lost, stored, tries, lapsed,
                 taskStatus, seen, running, runs, crashes, boot, enqueued>>

CancelUnindexes ==
  /\ cancel.at = "unindexing"
  /\ DropFromIndex("cancel", cancel.task)
  /\ cancel' = [cancel EXCEPT !.at = "unstoring"]
  /\ UNCHANGED <<pc, loop, queue, retries, attempts, stored, tries, lapsed, taskStatus, seen,
                 running, runs, crashes, boot, enqueued>>

CancelForgets ==
  /\ cancel.at = "unstoring"
  /\ ForgetItem(cancel.task)
  /\ cancel' = NoCancel
  /\ UNCHANGED <<pc, loop, queue, retries, attempts, index, lost, held, lapsed, taskStatus, seen,
                 running, runs, crashes, boot, enqueued>>

-----------------------------------------------------------------------------
(* The environment.                                                        *)

Lapse(c) ==
  /\ c \notin lapsed
  /\ lapsed' = lapsed \cup {c}
  /\ UNCHANGED <<pc, loop, cancel, queue, retries, attempts, index, lost, stored, tries, held,
                 taskStatus, seen, running, runs, crashes, boot, enqueued>>

\* The maintenance timer prunes what has expired, from memory only.
PruneExpired ==
  /\ Queued \cap lapsed # {}
  /\ queue' = ItemsAt(queue, {i \in DOMAIN queue : queue[i] \notin lapsed})
  /\ retries' = ItemsAt(retries, {i \in DOMAIN retries : retries[i] \notin lapsed})
  /\ UNCHANGED <<pc, loop, cancel, attempts, index, lost, stored, tries, held, lapsed, taskStatus,
                 seen, running, runs, crashes, boot, enqueued>>

\* The process dies, and initialize has read the index.
Restart ==
  /\ crashes < MaxCrashes
  /\ crashes' = crashes + 1
  /\ pc' = [c \in Calls |-> IF pc[c] = "idle" THEN "idle" ELSE "done"]
  /\ loop' = Off /\ cancel' = NoCancel
  /\ queue' = <<>> /\ retries' = <<>>
  /\ attempts' = [c \in Calls |-> 0]
  /\ boot' = [on |-> TRUE, left |-> ListedTasks, kept |-> {}]
  /\ held' = NothingHeld /\ seen' = {} /\ running' = {}
  /\ taskStatus' = [t \in Tasks |-> None]
  /\ lost' = {}
  /\ UNCHANGED <<index, stored, tries, lapsed, runs, enqueued>>

-----------------------------------------------------------------------------
(* initialize.  The index is a set here, so its tasks are looked at in any *)
(* order.                                                                  *)

\* The record is there and its lease valid: the item is queued, in the lane it was
\* in, if there is room.  Else the record is deleted.
RestoreItem(t) ==
  LET c == stored[t] IN
  /\ boot.on /\ t \in boot.left
  /\ \/ /\ c # None /\ c \notin lapsed
        /\ attempts' = [attempts EXCEPT ![c] = tries[t]]
        /\ Enqueue(c, tries[t])
        /\ boot' = [boot EXCEPT !.left = @ \ {t}, !.kept = @ \cup {t}]
        /\ UNCHANGED <<stored, tries>>
     \/ /\ c = None \/ c \in lapsed
        /\ ForgetItem(t)
        /\ boot' = [boot EXCEPT !.left = @ \ {t}]
        /\ UNCHANGED <<queue, retries, attempts>>
  /\ UNCHANGED <<pc, loop, cancel, index, lost, held, lapsed, taskStatus, seen, running, runs,
                 crashes, enqueued>>

\* remainingIndex is written.
RestoreEnds ==
  /\ boot.on /\ boot.left = {}
  /\ index' = boot.kept /\ lost' = (lost \cup ListedTasks) \ boot.kept
  /\ held' = [held EXCEPT !.live = FALSE]
  /\ boot' = NoBoot
  /\ UNCHANGED <<pc, loop, cancel, queue, retries, attempts, stored, tries, lapsed, taskStatus,
                 seen, running, runs, crashes, enqueued>>

-----------------------------------------------------------------------------
Outcomes == {"success", "failed", "transient"}

Step(c) ==
  \/ WriteIndex(c) \/ WriteItem(c) \/ DispatchLater(c) \/ DispatchNow(c) \/ Validated(c)
  \/ Unindex(c) \/ ExecuteItem(c) \/ Finish(c) \/ Reindex(c) \/ Restore(c)

LoopStep ==
  \/ \E c \in Calls : LoopTakes(c)
  \/ LoopValidates \/ LoopUnindexes \/ LoopForgets \/ LoopExecutes
  \/ \E outcome \in Outcomes : LoopFinishes(outcome)
  \/ LoopReindexes \/ LoopRestores

CancelStep == CancelReads \/ CancelUnindexes \/ CancelForgets

RestoreStep == RestoreEnds \/ \E t \in Tasks : RestoreItem(t)

Next ==
  \/ \E c \in Calls : Schedule(c) \/ ScheduleRefused(c) \/ Step(c) \/ Lapse(c)
  \/ LoopStep
  \/ \E t \in Tasks : CancelQueued(t)
  \/ CancelStep
  \/ PruneExpired
  \/ Restart
  \/ RestoreStep

Spec == Init /\ [][Next]_vars

\* Calls, cancellations and initialize go on, tasks end, and the maintenance timer keeps
\* starting the loop.
FairSpec ==
  /\ Spec
  /\ \A c \in Calls : WF_vars(Step(c))
  /\ WF_vars(LoopStep) /\ WF_vars(CancelStep) /\ WF_vars(RestoreStep)

-----------------------------------------------------------------------------
TypeOK ==
  /\ pc \in [Calls -> {"idle", "indexing", "storing", "dispatching", "validating", "unindexing",
                       "unstoring", "executing", "reindexing", "restoring", "done"}]
  /\ loop.item \in Calls \cup {None} /\ (loop.at = "off" <=> loop.item = None)
  /\ queue \in Seq(Calls) /\ retries \in Seq(Calls)
  /\ attempts \in [Calls -> 0..MaxRetries]
  /\ index = Null \/ index \subseteq Tasks
  /\ stored \in [Tasks -> Calls \cup {None}] /\ tries \in [Tasks -> 0..MaxRetries]
  /\ boot.on \in BOOLEAN /\ boot.left \cup boot.kept \cup lost \subseteq Tasks
  /\ \A i \in DOMAIN held.arrays : LET a == held.arrays[i] IN
       a.by # <<>> /\ ToSet(a.by) \subseteq Handlers /\ a.items \subseteq Tasks
  /\ lapsed \cup running \cup enqueued \subseteq Calls

\* At most one call has queued an item of the task.  getScheduledTaskStatus sees only
\* the head of the queue, so there may be two, and queue.remove, the records and the
\* index go by the task: one call then takes, deletes or overwrites what is another's.
Alone(t) == \A c, d \in enqueued : TaskOf[c] = t /\ TaskOf[d] = t => c = d

\* An item has one owner.  The call that queued it and the processing loop both
\* try to take it, around the awaits of validateLease and the state manager; no
\* item of a task that one call has queued is ever queued twice, or queued or held by
\* the loop while its call executes it.
OneOwner ==
  LET holders(c) == Cardinality({i \in DOMAIN queue : queue[i] = c})
                    + Cardinality({i \in DOMAIN retries : retries[i] = c})
                    + (IF loop.item = c /\ loop.at # "restoring" /\ loop.at # "reindexing" THEN 1 ELSE 0)
                    + (IF pc[c] \in {"unindexing", "unstoring", "executing"} THEN 1 ELSE 0)
  IN \A c \in Calls : Alone(TaskOf[c]) => holders(c) <= 1

\* What is queued and not being worked on can be restored: its record is in the
\* state manager, and its task in the index unless a write of another handler has
\* taken it out.  The loop and cancellations delete records and entries while calls,
\* retries and re-enqueues write them, and initialize writes the index over theirs.
QueuedIsStored ==
  \A c \in Queued :
    /\ Alone(TaskOf[c]) /\ loop.item # c /\ pc[c] \in {"dispatching", "validating", "done"}
    => stored[TaskOf[c]] = c /\ TaskOf[c] \in ListedTasks \cup lost

\* Between taking, persisting and deleting an item (scheduleTask, processDispatch,
\* processNextItem, initialize) it has one owner, and while it waits it can be restored.
OwnedAndStored == OneOwner /\ QueuedIsStored

\* No queued task waits forever, although the loop runs one item at a time and
\* goes back to sleep when the orchestrator is full.
QueuedIsTaken == \A c \in Calls : c \in Queued ~> c \notin Queued

\* Engineering design document, Task Scheduler: "pause/requeue; never duplicate".
NeverDuplicate == \A k \in Keys : runs[k] <= 1

\* The calls of the runs: each schedules a task of its own, under its own message key.
OwnTask == [c \in Calls |-> c]
OwnKey == [c \in Calls |-> c]
=============================================================================
