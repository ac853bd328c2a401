--------------------------- MODULE WorkflowProofs ---------------------------
(***************************************************************************)
(* Proofs about the workflow engine: for every finite number of calls and  *)
(* workflows, every graph, every limit and any number of restarts.         *)
(***************************************************************************)
EXTENDS WorkflowEngine, FiniteSetTheorems, TLAPS

-----------------------------------------------------------------------------
(* The inductive invariant.                                                *)

WTypeOK ==
  /\ dag \in Dags /\ workflowOf \in [Calls -> Workflows]
  /\ pc \in [Calls -> Places] /\ tier \in [Calls -> Nat] /\ todo \in [Calls -> Seq(Node)]
  /\ status \in [Workflows -> Statuses \cup {None}] /\ saved \in [Workflows -> Statuses \cup {None}]
  /\ step \in [Workflows -> [Node -> Steps]]
  /\ done \in [Workflows -> Seq(Node)] /\ compensated \in [Workflows -> Seq(Node)]
  /\ cancelledAt \in [Workflows -> Nat]

\* A call executes an admitted graph; no other call is in a tier.
CallsFit ==
  \A c \in Calls :
    /\ Executing(c) => status[workflowOf[c]] # None /\ Parsed[dag].valid
    /\ ~Executing(c) \/ pc[c] = "opening" => tier[c] = 0

OneCall == \A c, d \in Calls : Executing(c) /\ Executing(d) /\ workflowOf[c] = workflowOf[d] => c = d
WithinLimit == Cardinality({c \in Calls : Executing(c)}) <= MaxWorkflows

\* After a restart nothing runs until a call or initialize comes.
RestartIsClean ==
  life = "restarted" => /\ \A c \in Calls : pc[c] \in {"idle", "done"}
                        /\ \A w \in Workflows : compensated[w] = <<>>

ExecutorIInv == WTypeOK /\ CallsFit /\ OneCall /\ WithinLimit /\ RestartIsClean

\* The calls that have not come to an end of their workflow.
Underway(c) == pc[c] \in {"opening", "check", "leasing", "running"}

\* The tiers before the current one have succeeded, the later ones are untouched.
TiersFit(c) ==
  \A k \in 1 .. Len(Tiers) : \A n \in Tiers[k] :
    /\ k < tier[c] => step[workflowOf[c]][n] = "ok"
    /\ k > tier[c] \/ (k = tier[c] /\ pc[c] # "running") => step[workflowOf[c]][n] = "idle"

\* A cancelled workflow that is under way is still marked so, and has at most
\* finished the tier it was cancelled in.
CancelFits(c) ==
  cancelledAt[workflowOf[c]] # 0 =>
    /\ status[workflowOf[c]] = "CANCELED"
    /\ pc[c] # "check" => tier[c] <= cancelledAt[workflowOf[c]]

\* No node of the workflow is about to succeed.
Quiet(w) == \A n \in Node : step[w][n] \in {"idle", "ok", "failed"}

\* Of the nodes, the compensable ones behind the left ones have been undone.
Undoing(undone, left, nodes) ==
  /\ Len(left) <= Len(nodes) /\ \A i \in 1 .. Len(left) : left[i] = nodes[(Len(left) - i) + 1]
  /\ ToSet(undone) = {nodes[a] : a \in Len(left) + 1 .. Len(nodes)} \cap Compensable
  /\ \A i, j \in DOMAIN undone : i < j =>
       \E a, b \in Len(left) + 1 .. Len(nodes) : a > b /\ undone[i] = nodes[a] /\ undone[j] = nodes[b]

\* What holds of a call and the workflow it executes.
CallOK(c) ==
  /\ Executing(c) /\ pc[c] # "opening" => tier[c] \in 1 .. Len(Tiers)
  /\ Underway(c) => /\ TiersFit(c) /\ CancelFits(c)
                    /\ compensated[workflowOf[c]] = <<>> /\ workflowOf[c] \notin triggered
  /\ pc[c] = "compensating" =>
       /\ status[workflowOf[c]] = "Failed" /\ Quiet(workflowOf[c])
       /\ Undoing(compensated[workflowOf[c]], todo[c], done[workflowOf[c]])
  /\ pc[c] = "closing" /\ status[workflowOf[c]] = "Failed" =>
       Quiet(workflowOf[c]) /\ Undoes(compensated[workflowOf[c]], done[workflowOf[c]])

\* completedNodes are the nodes that succeeded, each once.
NodesFit(w) ==
  ToSet(done[w]) = {n \in Node : step[w][n] \in {"succeeded", "ok"}} /\ IsInjective(done[w])
Depends(w) == \A e \in dag.deps \cup dag.edges : step[w][e[2]] # "idle" => e[1] \in ToSet(done[w])

\* What holds of every workflow, executed or not.
WorkflowOK(w) ==
  /\ NodesFit(w) /\ Depends(w)
  /\ status[w] = "Completed" => ToSet(done[w]) = Node
  /\ compensated[w] # <<>> => status[w] = "Failed"

OrderIInv == /\ ExecutorIInv
             /\ \A c \in Calls : CallOK(c)
             /\ \A w \in Workflows : WorkflowOK(w)

-----------------------------------------------------------------------------
(* Types.                                                                  *)

LEMMA WTypeInit == Init => WTypeOK
  BY WorkflowAssumption DEF Init, WTypeOK, Idle, None, Places, Steps, Statuses, Terminal

LEMMA CallTypes ==
  ASSUME WTypeOK, NEW c \in Calls, CallStep(c)
  PROVE  WTypeOK'
  <1> USE DEF WTypeOK
  <1>1. PICK w \in Workflows : w = workflowOf[c]
    OBVIOUS
  <1>2. CASE Submit(c) \/ Refuse(c) \/ Opened(c) \/ CheckTier(c) \/ TierThrows(c) \/ TierSucceeds(c) \/ Close(c)
    <2>1. UNCHANGED <<dag, workflowOf, todo, status, step, done, compensated, cancelledAt, saved>>
      BY <1>2 DEF Submit, Refuse, Opened, CheckTier, TierThrows, TierSucceeds, Close, input, memory
    <2>2. pc' \in [Calls -> Places]
      BY <1>2 DEF Submit, Refuse, Opened, CheckTier, TierThrows, TierSucceeds, Close, MoveTo, Return, Places
    <2>3. tier' \in [Calls -> Nat]
      BY <1>2 DEF Submit, Refuse, Opened, CheckTier, TierThrows, TierSucceeds, Close, Return
    <2> QED
      BY <2>1, <2>2, <2>3
  <1>3. CASE Admit(c)
    BY <1>1, <1>3 DEF Admit, Idle, Checkpoint, MoveTo, input, Places, Steps, Statuses
  <1>4. CASE StopTier(c) \/ LoseLease(c) \/ Complete(c)
    <2>1. UNCHANGED <<dag, workflowOf, tier, todo, step, done, compensated, cancelledAt>>
      BY <1>4 DEF StopTier, LoseLease, Complete, input
    <2>2. pc' \in [Calls -> Places]
      BY <1>4 DEF StopTier, LoseLease, Complete, Conclude, MoveTo, Places
    <2>3. status' \in [Workflows -> Statuses \cup {None}] /\ saved' \in [Workflows -> Statuses \cup {None}]
      BY <1>1, <1>4 DEF StopTier, LoseLease, Complete, SetStatus, Checkpoint, Statuses, Terminal
    <2> QED
      BY <2>1, <2>2, <2>3
  <1>5. CASE StartTier(c)
    <2>1. UNCHANGED <<dag, workflowOf, tier, todo, status, done, compensated, cancelledAt>> /\ pc' \in [Calls -> Places]
      BY <1>5 DEF StartTier, MoveTo, Places, input
    <2>2. saved' \in [Workflows -> Statuses \cup {None}]
      BY <1>1, <1>5 DEF StartTier, Checkpoint
    <2>3. step' \in [Workflows -> [Node -> Steps]]
      BY <1>1, <1>5 DEF StartTier, Steps
    <2> QED
      BY <2>1, <2>2, <2>3
  <1>6. CASE TierFails(c)
    <2>1. Reverse(done[w]) \in Seq(Node)
      BY <1>1 DEF Reverse
    <2> QED
      BY <1>1, <1>6, <2>1 DEF TierFails, SetStatus, MoveTo, input, Places, Statuses, Terminal
  <1>7. CASE Compensate(c)
    BY <1>1, <1>7 DEF Compensate, input
  <1>8. CASE Compensated(c)
    BY <1>1, <1>8 DEF Compensated, Checkpoint, Conclude, MoveTo, input, memory, Places
  <1> QED
    BY <1>2, <1>3, <1>4, <1>5, <1>6, <1>7, <1>8 DEF CallStep

\* What a step of executeSingleNode does.
LEMMA NodeEffect ==
  ASSUME WTypeOK, NEW w \in Workflows, NEW n \in Node, NodeStep(w, n)
  PROVE  /\ UNCHANGED <<dag, workflowOf, life, pc, tier, todo, status, compensated, triggered, cancelledAt>>
         /\ step[w][n] \in {"opening", "scheduled", "succeeded", "failing"}
         /\ \E s \in Steps \ {"idle"} : step' = [step EXCEPT ![w][n] = s]
              /\ \/ done' = done /\ (step[w][n] = "succeeded" <=> s \in {"succeeded", "ok"})
                 \/ done' = [done EXCEPT ![w] = Append(@, n)] /\ step[w][n] = "scheduled" /\ s = "succeeded"
         /\ saved' = saved \/ saved' = [saved EXCEPT ![w] = status[w]]
  <1>1. CASE NodeScheduled(w, n)
    <2>1. step' = [step EXCEPT ![w][n] = "scheduled"] /\ done' = done
      BY <1>1 DEF NodeScheduled, SetStep
    <2>2. "scheduled" \in Steps \ {"idle"}
      BY DEF Steps
    <2> QED
      BY <1>1, <2>1, <2>2 DEF NodeScheduled, input, calls
  <1>2. CASE NodeThrows(w, n)
    <2>1. step' = [step EXCEPT ![w][n] = "threw"] /\ done' = done
      BY <1>2 DEF NodeThrows, SetStep
    <2>2. "threw" \in Steps \ {"idle"}
      BY DEF Steps
    <2> QED
      BY <1>2, <2>1, <2>2 DEF NodeThrows, input, calls
  <1>3. CASE NodeSucceeds(w, n)
    BY <1>3 DEF NodeSucceeds, Checkpoint, SetStep, Steps, input, calls
  <1>4. CASE NodeFails(w, n)
    <2>1. step' = [step EXCEPT ![w][n] = "failing"] /\ done' = done
      BY <1>4 DEF NodeFails, SetStep
    <2>2. "failing" \in Steps \ {"idle"}
      BY DEF Steps
    <2> QED
      BY <1>4, <2>1, <2>2 DEF NodeFails, Checkpoint, input, calls
  <1>5. CASE NodeSettled(w, n)
    <2>1. PICK s \in {"ok", "failed"} : /\ s = IF step[w][n] = "succeeded" THEN "ok" ELSE "failed"
                                        /\ step' = [step EXCEPT ![w][n] = s]
      BY <1>5 DEF NodeSettled, SetStep
    <2> QED
      BY <1>5, <2>1 DEF NodeSettled, Steps, input, calls
  <1> QED
    BY <1>1, <1>2, <1>3, <1>4, <1>5 DEF NodeStep

LEMMA NodeTypes ==
  ASSUME WTypeOK, NEW w \in Workflows, NEW n \in Node, NodeStep(w, n)
  PROVE  WTypeOK'
  <1> USE DEF WTypeOK
  <1>1. PICK s \in Steps : step' = [step EXCEPT ![w][n] = s]
    BY NodeEffect
  <1>2. step' \in [Workflows -> [Node -> Steps]]
    BY <1>1
  <1>3. done' = done \/ done' = [done EXCEPT ![w] = Append(@, n)]
    BY NodeEffect
  <1>4. done' \in [Workflows -> Seq(Node)]
    <2>1. done[w] \in Seq(Node) /\ Append(done[w], n) \in Seq(Node)
      OBVIOUS
    <2> QED
      BY <1>3, <2>1
  <1>5. saved' \in [Workflows -> Statuses \cup {None}]
    BY NodeEffect
  <1> QED
    BY <1>2, <1>4, <1>5, NodeEffect

-----------------------------------------------------------------------------
(* Who executes a workflow.                                                *)

\* Only the call that executes a workflow, if there is one, is in a tier of it.
LEMMA ReachedBounds ==
  ASSUME WTypeOK, CallsFit, OneCall, NEW w \in Workflows
  PROVE  /\ Reached(w) \in Nat \ {0}
         /\ \A c \in Calls : workflowOf[c] = w => tier[c] <= Reached(w)
  <1> DEFINE S == {1} \cup {tier[c] : c \in {d \in Calls : workflowOf[d] = w}}
  <1>1. S \subseteq Nat /\ 1 \in S /\ \A c \in Calls : workflowOf[c] = w => tier[c] \in S
    BY DEF WTypeOK
  <1>2. \E m \in S : \A x \in S : m >= x
    <2>1. CASE \E c \in Calls : workflowOf[c] = w /\ Executing(c)
      <3>1. PICK c \in Calls : workflowOf[c] = w /\ Executing(c)
        BY <2>1
      <3>2. \A d \in Calls : workflowOf[d] = w => d = c \/ tier[d] = 0
        BY <3>1 DEF OneCall, CallsFit
      <3>3. tier[c] \in Nat
        BY DEF WTypeOK
      <3>4. \A x \in S : x \in {0, 1, tier[c]}
        BY <3>2
      <3>5. tier[c] \in S
        BY <1>1, <3>1
      <3>6. CASE tier[c] >= 1
        BY <3>3, <3>4, <3>5, <3>6
      <3>7. CASE tier[c] = 0
        BY <1>1, <3>4, <3>7
      <3> QED
        BY <3>3, <3>6, <3>7
    <2>2. CASE \A c \in Calls : workflowOf[c] = w => ~Executing(c)
      <3>1. \A x \in S : x \in {0, 1}
        BY <2>2 DEF CallsFit
      <3> QED
        BY <1>1, <3>1
    <2> QED
      BY <2>1, <2>2
  <1>3. Reached(w) = CHOOSE m \in S : \A x \in S : m >= x
    <2>1. Reached(w) = Max(S)
      BY DEF Reached
    <2> QED
      BY <2>1 DEF Max
  <1> HIDE DEF S
  <1>4. Reached(w) \in S /\ \A x \in S : Reached(w) >= x
    BY <1>2, <1>3
  <1>5. Reached(w) \in Nat /\ Reached(w) >= 1
    BY <1>1, <1>4
  <1>6. ASSUME NEW c \in Calls, workflowOf[c] = w PROVE tier[c] <= Reached(w)
    <2>1. tier[c] \in S /\ tier[c] \in Nat
      BY <1>1, <1>6
    <2>2. Reached(w) >= tier[c]
      BY <1>4, <2>1
    <2> QED
      BY <1>5, <2>1, <2>2
  <1> QED
    BY <1>5, <1>6

LEMMA OtherTypes ==
  ASSUME ExecutorIInv, Next, \A c \in Calls : ~CallStep(c)
  PROVE  WTypeOK'
  <1> USE DEF WTypeOK, ExecutorIInv
  <1>1. ASSUME NEW w \in Workflows, NEW n \in Node, NodeStep(w, n) PROVE WTypeOK'
    BY <1>1, NodeTypes
  <1>2. ASSUME NEW w \in Workflows, CancelNow(w) PROVE WTypeOK'
    BY <1>2, ReachedBounds DEF CancelNow, SetStatus, input, calls, Statuses, Terminal
  <1>3. ASSUME NEW w \in Workflows, CancelSaved(w) \/ Lapse(w) PROVE WTypeOK'
    BY <1>3 DEF CancelSaved, Lapse, Checkpoint, input, calls, memory
  <1>4. CASE Shutdown
    BY <1>4 DEF Shutdown, input, calls, memory
  <1>5. CASE Crash
    BY <1>5 DEF Crash, Idle, input, Places, Steps
  <1>6. CASE Initialize
    BY <1>6 DEF Initialize, input, calls
  <1> QED
    BY <1>1, <1>2, <1>3, <1>4, <1>5, <1>6 DEF Next, CancelWorkflow, Maintain

\* A call moves on without beginning to execute.
LEMMA MoveKeepsExecutor ==
  ASSUME ExecutorIInv, WTypeOK', NEW c \in Calls, NEW where \in Places, NEW t \in Nat,
         pc' = [pc EXCEPT ![c] = where], tier' = [tier EXCEPT ![c] = t], UNCHANGED <<dag, workflowOf>>,
         \A w \in Workflows : status[w] # None => status'[w] # None,
         Executing(c)' => Executing(c) /\ where # "opening",
         ~Executing(c)' => t = 0
  PROVE  CallsFit' /\ OneCall' /\ WithinLimit'
  <1> USE DEF ExecutorIInv
  <1>1. \A d \in Calls : d # c => pc'[d] = pc[d] /\ tier'[d] = tier[d]
    BY DEF WTypeOK
  <1>2. pc'[c] = where /\ tier'[c] = t
    BY DEF WTypeOK
  <1>3. \A d \in Calls : Executing(d)' => Executing(d)
    BY <1>1 DEF Executing
  <1>4. \A d \in Calls : workflowOf[d] \in Workflows
    BY DEF WTypeOK
  <1>5. CallsFit'
    <2> SUFFICES ASSUME NEW d \in Calls
                 PROVE  /\ Executing(d)' => status'[workflowOf[d]] # None /\ Parsed[dag].valid
                        /\ ~Executing(d)' \/ pc'[d] = "opening" => tier'[d] = 0
      BY DEF CallsFit
    <2>1. Executing(d)' => status'[workflowOf[d]] # None /\ Parsed[dag].valid
      BY <1>3, <1>4 DEF CallsFit
    <2>2. CASE d = c
      BY <1>2, <2>1, <2>2 DEF Executing
    <2>3. CASE d # c
      BY <1>1, <2>1, <2>3 DEF CallsFit, Executing
    <2> QED
      BY <2>2, <2>3
  <1>6. OneCall'
    BY <1>3 DEF OneCall
  <1>7. WithinLimit'
    <2>1. {d \in Calls : Executing(d)'} \in SUBSET {d \in Calls : Executing(d)}
      BY <1>3
    <2>2. IsFiniteSet({d \in Calls : Executing(d)})
      BY WorkflowAssumption, FS_Subset
    <2>3. /\ Cardinality({d \in Calls : Executing(d)'}) <= Cardinality({d \in Calls : Executing(d)})
          /\ Cardinality({d \in Calls : Executing(d)}) \in Nat /\ Cardinality({d \in Calls : Executing(d)'}) \in Nat
      BY <2>1, <2>2, FS_Subset, FS_CardinalityType
    <2> QED
      BY <2>3, WorkflowAssumption DEF WithinLimit
  <1> QED
    BY <1>5, <1>6, <1>7

\* Admission: the workflow was in no map, and the limit not reached.
LEMMA AdmitKeepsExecutor ==
  ASSUME ExecutorIInv, WTypeOK', NEW c \in Calls, Admit(c)
  PROVE  CallsFit' /\ OneCall' /\ WithinLimit'
  <1> USE DEF ExecutorIInv
  <1>1. PICK w \in Workflows : w = workflowOf[c]
    BY DEF WTypeOK
  <1>2. /\ pc[c] = "validating" /\ status[w] = None /\ Cardinality(Active) < MaxWorkflows /\ Parsed[dag].valid
        /\ status' = [status EXCEPT ![w] = "Running"] /\ pc' = [pc EXCEPT ![c] = "opening"]
        /\ UNCHANGED <<dag, workflowOf, tier>>
    BY <1>1 DEF Admit, Admissible, Active, MoveTo, input
  <1>3. pc'[c] = "opening" /\ \A d \in Calls : d # c => pc'[d] = pc[d]
    BY <1>2 DEF WTypeOK
  <1>4. \A d \in Calls : (Executing(d)' <=> Executing(d) \/ d = c) /\ (Executing(d) => workflowOf[d] # w /\ d # c)
    BY <1>1, <1>2, <1>3 DEF Executing, CallsFit
  <1>5. \A v \in Workflows : v # w => status'[v] = status[v]
    BY <1>2 DEF WTypeOK
  <1>6. status'[w] # None
    BY <1>2 DEF WTypeOK, None
  <1>7. CallsFit'
    <2> SUFFICES ASSUME NEW d \in Calls
                 PROVE  /\ Executing(d)' => status'[workflowOf[d]] # None /\ Parsed[dag].valid
                        /\ ~Executing(d)' \/ pc'[d] = "opening" => tier[d] = 0
      BY <1>2 DEF CallsFit
    <2>1. workflowOf[d] \in Workflows
      BY DEF WTypeOK
    <2>2. CASE d = c
      BY <1>1, <1>2, <1>6, <2>2 DEF CallsFit, Executing
    <2>3. CASE d # c
      BY <1>2, <1>3, <1>4, <1>5, <2>1, <2>3 DEF CallsFit
    <2> QED
      BY <2>2, <2>3
  <1>8. OneCall'
    BY <1>1, <1>2, <1>4 DEF OneCall
  <1>9. WithinLimit'
    <2> DEFINE E == {d \in Calls : Executing(d)}
               f == [d \in E |-> workflowOf[d]]
    <2>1. f \in Injection(E, Active)
      <3>1. \A d \in E : workflowOf[d] \in Active
        BY DEF CallsFit, WTypeOK, Active
      <3>2. IsInjective(f)
        BY DEF OneCall, IsInjective
      <3> QED
        BY <3>1, <3>2 DEF Injection
    <2>2. IsFiniteSet(Active) /\ IsFiniteSet(E)
      BY WorkflowAssumption, FS_Subset DEF Active
    <2>3. Cardinality(E) <= Cardinality(Active) /\ Cardinality(E) \in Nat /\ Cardinality(Active) \in Nat
      BY <2>1, <2>2, FS_Injection, FS_CardinalityType
    <2>4. {d \in Calls : Executing(d)'} = E \cup {c} /\ c \notin E
      BY <1>4
    <2>5. Cardinality(E \cup {c}) = Cardinality(E) + 1
      BY <2>2, <2>4, FS_AddElement
    <2> HIDE DEF E, f
    <2>6. Cardinality(E \cup {c}) <= MaxWorkflows
      BY <1>2, <2>3, <2>5, WorkflowAssumption
    <2> QED
      BY <2>4, <2>6 DEF WithinLimit
  <1> QED
    BY <1>7, <1>8, <1>9

\* No call moves: whoever executes a workflow still finds it in activeWorkflows.
LEMMA StayKeepsExecutor ==
  ASSUME ExecutorIInv, UNCHANGED <<dag, workflowOf, pc, tier>>,
         \A w \in Workflows : status[w] # None => status'[w] # None
  PROVE  CallsFit' /\ OneCall' /\ WithinLimit'
  <1>1. \A d \in Calls : Executing(d)' <=> Executing(d)
    BY DEF Executing
  <1>2. CallsFit'
    BY <1>1 DEF ExecutorIInv, CallsFit, WTypeOK
  <1>3. OneCall'
    BY <1>1 DEF ExecutorIInv, OneCall
  <1>4. WithinLimit'
    BY DEF ExecutorIInv, WithinLimit, Executing
  <1> QED
    BY <1>2, <1>3, <1>4

LEMMA CallKeepsExecutor ==
  ASSUME ExecutorIInv, NEW c \in Calls, CallStep(c)
  PROVE  ExecutorIInv'
  <1> USE DEF ExecutorIInv
  <1>1. WTypeOK'
    BY CallTypes
  <1>2. PICK w \in Workflows : w = workflowOf[c]
    BY DEF WTypeOK
  <1>3. tier[c] \in Nat /\ tier = [tier EXCEPT ![c] = tier[c]]
    BY DEF WTypeOK
  <1>4. ASSUME Submit(c) \/ Refuse(c) \/ TierThrows(c) \/ Close(c) PROVE CallsFit' /\ OneCall' /\ WithinLimit'
    <2>1. UNCHANGED <<dag, workflowOf, status>>
      BY <1>4 DEF Submit, Refuse, TierThrows, Close, input, memory
    <2>2. PICK where \in {"validating", "done"} :
            pc' = [pc EXCEPT ![c] = where] /\ tier' = [tier EXCEPT ![c] = 0]
      <3>1. CASE Submit(c) /\ life # "stopping"
        BY <1>3, <3>1 DEF Submit, MoveTo, CallsFit, Executing
      <3> QED
        BY <1>4, <3>1 DEF Submit, Refuse, TierThrows, Close, Return, MoveTo
    <2>3. where \in Places /\ pc'[c] = where
      BY <2>2 DEF Places, WTypeOK
    <2>4. ~Executing(c)'
      BY <2>3 DEF Executing
    <2> QED
      BY <1>1, <2>1, <2>2, <2>3, <2>4, MoveKeepsExecutor
  <1>5. ASSUME Admit(c) PROVE CallsFit' /\ OneCall' /\ WithinLimit'
    BY <1>1, <1>5, AdmitKeepsExecutor
  <1>6. ASSUME Opened(c) \/ StopTier(c) \/ CheckTier(c) \/ LoseLease(c) \/ StartTier(c) \/ TierSucceeds(c) \/ Complete(c)
               \/ TierFails(c) \/ Compensate(c) \/ Compensated(c)
        PROVE  CallsFit' /\ OneCall' /\ WithinLimit'
    <2>1. Executing(c) /\ UNCHANGED <<dag, workflowOf>>
      BY <1>6 DEF Opened, StopTier, CheckTier, LoseLease, StartTier, TierSucceeds, Complete, TierFails, Compensate,
         Compensated, Executing, input
    <2>2. PICK where \in {"check", "closing", "leasing", "running", "compensating"} : pc' = [pc EXCEPT ![c] = where]
      <3>1. CASE Compensate(c)
        BY <3>1 DEF Compensate, WTypeOK
      <3> QED
        BY <1>6, <3>1 DEF Opened, StopTier, CheckTier, LoseLease, StartTier, TierSucceeds, Complete, TierFails,
           Compensated, Conclude, MoveTo
    <2>3. PICK t \in Nat : tier' = [tier EXCEPT ![c] = t]
      <3>1. CASE Opened(c)
        BY <3>1 DEF Opened
      <3>2. CASE TierSucceeds(c)
        <4>1. tier' = [tier EXCEPT ![c] = tier[c] + 1] /\ tier[c] + 1 \in Nat
          BY <1>3, <3>2 DEF TierSucceeds
        <4> QED
          BY <4>1
      <3>3. CASE ~Opened(c) /\ ~TierSucceeds(c)
        <4>1. tier' = tier
          BY <1>6, <3>3 DEF StopTier, CheckTier, LoseLease, StartTier, Complete, TierFails, Compensate, Compensated
        <4> QED
          BY <1>3, <4>1
      <3> QED
        BY <3>1, <3>2, <3>3
    <2>4. status' = status \/ \E s \in {"EXPIRED", "CANCELED", "Completed", "Failed"} : status' = [status EXCEPT ![w] = s]
      BY <1>2, <1>6 DEF Opened, StopTier, CheckTier, LoseLease, StartTier, TierSucceeds, Complete, TierFails, Compensate,
         Compensated, SetStatus, memory
    <2>5. \A v \in Workflows : status[v] # None => status'[v] # None
      BY <2>4 DEF WTypeOK, None
    <2>6. where \in Places /\ where # "opening" /\ Executing(c)'
      BY <2>2 DEF Places, WTypeOK, Executing
    <2> QED
      BY <1>1, <2>1, <2>2, <2>3, <2>5, <2>6, MoveKeepsExecutor
  <1>7. CallsFit' /\ OneCall' /\ WithinLimit'
    BY <1>4, <1>5, <1>6 DEF CallStep
  <1>8. life' # "restarted"
    BY DEF CallStep, Submit, Refuse, Admit, Opened, StopTier, CheckTier, LoseLease, StartTier, TierThrows, TierSucceeds,
       Complete, TierFails, Compensate, Compensated, Close, RestartIsClean
  <1> QED
    BY <1>1, <1>7, <1>8 DEF RestartIsClean

LEMMA ExecutorNext == ExecutorIInv /\ [Next]_vars => ExecutorIInv'
  <1> SUFFICES ASSUME ExecutorIInv, [Next]_vars PROVE ExecutorIInv'
    OBVIOUS
  <1>1. CASE \E c \in Calls : CallStep(c)
    BY <1>1, CallKeepsExecutor
  <1>2. CASE UNCHANGED vars
    <2>1. WTypeOK' /\ RestartIsClean'
      BY <1>2 DEF ExecutorIInv, WTypeOK, RestartIsClean, vars, input, calls, memory
    <2>2. UNCHANGED <<dag, workflowOf, pc, tier, status>>
      BY <1>2 DEF vars, input, calls, memory
    <2> QED
      BY <2>1, <2>2, StayKeepsExecutor DEF ExecutorIInv
  <1>3. CASE Next /\ \A c \in Calls : ~CallStep(c)
    <2>1. WTypeOK'
      BY <1>3, OtherTypes
    <2>2. ASSUME NEW w \in Workflows, NEW n \in Node, NodeStep(w, n) PROVE CallsFit' /\ OneCall' /\ WithinLimit' /\ RestartIsClean'
      <3>1. UNCHANGED <<dag, workflowOf, life, pc, tier, status, compensated>>
        BY <2>2, NodeEffect DEF ExecutorIInv
      <3> QED
        BY <3>1, StayKeepsExecutor DEF ExecutorIInv, RestartIsClean
    <2>3. ASSUME NEW w \in Workflows, CancelNow(w) PROVE CallsFit' /\ OneCall' /\ WithinLimit' /\ RestartIsClean'
      <3>1. UNCHANGED <<dag, workflowOf, life, pc, tier, compensated>> /\ status' = [status EXCEPT ![w] = "CANCELED"]
        BY <2>3 DEF CancelNow, SetStatus, input, calls
      <3>2. \A v \in Workflows : status[v] # None => status'[v] # None
        BY <3>1 DEF ExecutorIInv, WTypeOK, None
      <3> QED
        BY <3>1, <3>2, StayKeepsExecutor DEF ExecutorIInv, RestartIsClean
    <2>4. ASSUME NEW w \in Workflows, CancelSaved(w) \/ Lapse(w) PROVE CallsFit' /\ OneCall' /\ WithinLimit' /\ RestartIsClean'
      <3>1. UNCHANGED <<dag, workflowOf, life, pc, tier, status, compensated>>
        BY <2>4 DEF CancelSaved, Lapse, input, calls, memory
      <3> QED
        BY <3>1, StayKeepsExecutor DEF ExecutorIInv, RestartIsClean
    <2>5. CASE Shutdown
      <3>1. UNCHANGED <<dag, workflowOf, pc, tier, status>> /\ life' = "stopping"
        BY <2>5 DEF Shutdown, input, calls, memory
      <3> QED
        BY <2>1, <3>1, StayKeepsExecutor DEF ExecutorIInv, RestartIsClean
    <2>6. CASE Crash
      <3>1. \A c \in Calls : pc'[c] \in {"idle", "done"} /\ tier'[c] = 0
        BY <2>6 DEF Crash
      <3>2. \A c \in Calls : ~Executing(c)'
        BY <3>1 DEF Executing
      <3>3. CallsFit' /\ OneCall'
        BY <3>1, <3>2 DEF CallsFit, OneCall
      <3>4. WithinLimit'
        <4>1. {c \in Calls : Executing(c)'} = {}
          BY <3>2
        <4> QED
          BY <4>1, FS_EmptySet, WorkflowAssumption DEF WithinLimit
      <3>5. RestartIsClean'
        BY <2>6, <3>1 DEF Crash, RestartIsClean
      <3> QED
        BY <2>1, <3>3, <3>4, <3>5 DEF ExecutorIInv
    <2>7. CASE Initialize
      <3>1. UNCHANGED <<dag, workflowOf, pc, tier>> /\ life = "restarted" /\ life' = "ready"
        BY <2>7 DEF Initialize, input, calls
      <3>2. \A c \in Calls : ~Executing(c) /\ ~Executing(c)' /\ tier[c] = 0
        BY <3>1 DEF Executing, ExecutorIInv, RestartIsClean, CallsFit
      <3>3. CallsFit' /\ OneCall'
        BY <3>1, <3>2 DEF CallsFit, OneCall
      <3>4. WithinLimit'
        BY <3>1 DEF ExecutorIInv, WithinLimit, Executing
      <3> QED
        BY <2>1, <3>1, <3>3, <3>4 DEF ExecutorIInv, RestartIsClean
    <2> QED
      BY <1>3, <2>1, <2>2, <2>3, <2>4, <2>5, <2>6, <2>7 DEF Next, CancelWorkflow, Maintain, ExecutorIInv
  <1> QED
    BY <1>1, <1>2, <1>3

LEMMA ExecutorInit == Init => ExecutorIInv
  <1> SUFFICES ASSUME Init PROVE ExecutorIInv
    OBVIOUS
  <1>1. WTypeOK
    BY WTypeInit
  <1>2. \A c \in Calls : pc[c] = "idle" /\ tier[c] = 0 /\ ~Executing(c)
    BY DEF Init, Executing
  <1>3. CallsFit /\ OneCall
    BY <1>2 DEF CallsFit, OneCall
  <1>4. {c \in Calls : Executing(c)} = {}
    BY <1>2
  <1>5. WithinLimit
    BY <1>4, FS_EmptySet, WorkflowAssumption DEF WithinLimit
  <1>6. RestartIsClean
    BY DEF Init, RestartIsClean
  <1> QED
    BY <1>1, <1>3, <1>5, <1>6 DEF ExecutorIInv

(***************************************************************************)
(* A workflow is executed by one call at a time, and no more are executed  *)
(* than the limit, although the duplicate and capacity checks come after   *)
(* the awaits of executeWorkflow (workflow-engine.ts).                     *)
(***************************************************************************)
THEOREM AlwaysOneExecutor == Spec => []OneExecutor
  <1>1. ExecutorIInv => OneExecutor
    BY DEF ExecutorIInv, OneCall, WithinLimit, OneExecutor
  <1> QED
    BY <1>1, ExecutorInit, ExecutorNext, PTL DEF Spec

-----------------------------------------------------------------------------
(* Tiers, cancellation and compensation.                                   *)

\* What the parser's promise says of the graph that is executed.
LEMMA TierFacts ==
  ASSUME ParserIsSound, dag \in Dags, Parsed[dag].valid
  PROVE  /\ Len(Tiers) \in Nat \ {0} /\ \A k \in 1 .. Len(Tiers) : Tiers[k] \subseteq Node /\ Tiers[k] # {}
         /\ \A n \in Node : \E k \in 1 .. Len(Tiers) : n \in Tiers[k]
         /\ \A j, k \in 1 .. Len(Tiers) : j # k => Tiers[j] \cap Tiers[k] = {}
         /\ \A e \in dag.deps \cup dag.edges, k \in 1 .. Len(Tiers) :
              e[2] \in Tiers[k] => \E j \in 1 .. k - 1 : e[1] \in Tiers[j]
  <1>1. Topological(dag, Tiers)
    BY DEF ParserIsSound, Tiers
  <1>2. Tiers \in Seq(SUBSET Node) /\ Tiers # <<>> /\ UNION ToSet(Tiers) = Node
    BY <1>1 DEF Topological
  <1>3. DOMAIN Tiers = 1 .. Len(Tiers) /\ Len(Tiers) \in Nat \ {0} /\ \A k \in 1 .. Len(Tiers) : Tiers[k] \in SUBSET Node
    BY <1>2
  <1>4. \A n \in Node : \E k \in 1 .. Len(Tiers) : n \in Tiers[k]
    BY <1>2, <1>3 DEF ToSet
  <1> QED
    BY <1>1, <1>3, <1>4 DEF Topological

SameCall(d) == pc'[d] = pc[d] /\ tier'[d] = tier[d] /\ todo'[d] = todo[d]
SameWorkflow(v) ==
  /\ step'[v] = step[v] /\ done'[v] = done[v] /\ status'[v] = status[v] /\ compensated'[v] = compensated[v]
  /\ cancelledAt'[v] = cancelledAt[v] /\ (v \in triggered' <=> v \in triggered)

LEMMA SameWorkflowOK ==
  ASSUME NEW v \in Workflows, WorkflowOK(v), SameWorkflow(v), UNCHANGED dag
  PROVE  WorkflowOK(v)'
  BY DEF WorkflowOK, SameWorkflow, NodesFit, Depends

LEMMA SameCallOK ==
  ASSUME NEW d \in Calls, CallOK(d), SameCall(d), SameWorkflow(workflowOf[d]), UNCHANGED <<dag, workflowOf>>
  PROVE  CallOK(d)'
  <1>1. TiersFit(d)' <=> TiersFit(d)
    BY DEF TiersFit, SameCall, SameWorkflow, Tiers
  <1>2. (CancelFits(d)' <=> CancelFits(d)) /\ (Quiet(workflowOf[d])' <=> Quiet(workflowOf[d]))
    BY DEF CancelFits, Quiet, SameCall, SameWorkflow
  <1>3. (Executing(d)' <=> Executing(d)) /\ (Underway(d)' <=> Underway(d)) /\ Len(Tiers)' = Len(Tiers)
    BY DEF Executing, Underway, SameCall, Tiers
  <1> QED
    BY <1>1, <1>2, <1>3 DEF CallOK, SameCall, SameWorkflow

LEMMA IdleCallOK == ASSUME NEW d \in Calls, ~Executing(d) PROVE CallOK(d)
  BY DEF CallOK, Executing, Underway

\* A call moves, and changes at most the workflow it executes.
LEMMA OwnStep ==
  ASSUME OrderIInv, ExecutorIInv', NEW c \in Calls, Executing(c) \/ Executing(c)', UNCHANGED <<dag, workflowOf>>,
         \A d \in Calls : d # c => SameCall(d),
         \A v \in Workflows : v # workflowOf[c] => SameWorkflow(v),
         CallOK(c)', WorkflowOK(workflowOf[c])'
  PROVE  OrderIInv'
  <1>1. ASSUME NEW v \in Workflows PROVE WorkflowOK(v)'
    BY SameWorkflowOK DEF OrderIInv
  <1>2. ASSUME NEW d \in Calls PROVE CallOK(d)'
    <2>1. CASE d = c
      BY <2>1
    <2>2. CASE d # c /\ workflowOf[d] # workflowOf[c]
      BY <2>2, SameCallOK DEF OrderIInv, ExecutorIInv, WTypeOK
    <2>3. CASE d # c /\ workflowOf[d] = workflowOf[c]
      <3>1. Executing(d)' <=> Executing(d)
        BY <2>3 DEF SameCall, Executing
      <3>2. ~Executing(d)'
        BY <2>3, <3>1 DEF OrderIInv, ExecutorIInv, OneCall
      <3> QED
        BY <3>2, IdleCallOK DEF CallOK, Executing, Underway
    <2> QED
      BY <2>1, <2>2, <2>3
  <1> QED
    BY <1>1, <1>2 DEF OrderIInv

\* No workflow changes; calls may only leave theirs.
LEMMA LeaveStep ==
  ASSUME OrderIInv, ExecutorIInv', UNCHANGED <<dag, workflowOf>>,
         \A d \in Calls : SameCall(d) \/ ~Executing(d)',
         \A v \in Workflows : SameWorkflow(v)
  PROVE  OrderIInv'
  <1>1. ASSUME NEW v \in Workflows PROVE WorkflowOK(v)'
    BY SameWorkflowOK DEF OrderIInv
  <1>2. ASSUME NEW d \in Calls PROVE CallOK(d)'
    <2>1. CASE SameCall(d)
      BY <2>1, SameCallOK DEF OrderIInv, ExecutorIInv, WTypeOK
    <2>2. CASE ~Executing(d)'
      BY <2>2 DEF CallOK, Executing, Underway
    <2> QED
      BY <2>1, <2>2
  <1> QED
    BY <1>1, <1>2 DEF OrderIInv

\* In what follows a workflow under way changes, or its call moves.
LEMMA AdmitKeepsOrder ==
  ASSUME ParserIsSound, OrderIInv, ExecutorIInv', NEW c \in Calls, Admit(c)
  PROVE  OrderIInv'
  <1> USE DEF OrderIInv, ExecutorIInv, WTypeOK
  <1>1. PICK w \in Workflows : w = workflowOf[c]
    OBVIOUS
  <1>2. /\ status' = [status EXCEPT ![w] = "Running"] /\ step' = [step EXCEPT ![w] = Idle]
        /\ done' = [done EXCEPT ![w] = <<>>] /\ compensated' = [compensated EXCEPT ![w] = <<>>]
        /\ cancelledAt' = [cancelledAt EXCEPT ![w] = 0] /\ triggered' = triggered \ {w}
        /\ pc' = [pc EXCEPT ![c] = "opening"] /\ UNCHANGED <<dag, workflowOf, tier, todo>>
    BY <1>1 DEF Admit, MoveTo, input
  <1>3. \A d \in Calls : d # c => SameCall(d)
    BY <1>2 DEF SameCall
  <1>4. \A v \in Workflows : v # w => SameWorkflow(v)
    BY <1>2 DEF SameWorkflow
  <1>5. /\ status'[w] = "Running" /\ step'[w] = Idle /\ done'[w] = <<>> /\ compensated'[w] = <<>>
        /\ cancelledAt'[w] = 0 /\ w \notin triggered' /\ pc'[c] = "opening" /\ tier'[c] = tier[c]
    BY <1>2
  <1>6. \A n \in Node : step'[w][n] = "idle"
    BY <1>5 DEF Idle
  <1>7. Executing(c)' /\ Underway(c)' /\ tier[c] = 0 /\ Parsed[dag].valid
    BY <1>2, <1>5 DEF Executing, Underway, CallsFit
  <1>8. TiersFit(c)'
    <2>1. \A k \in 1 .. Len(Tiers) : Tiers[k] \subseteq Node /\ k > 0
      BY <1>7, TierFacts
    <2>2. Tiers' = Tiers /\ Len(Tiers') = Len(Tiers)
      BY <1>2 DEF Tiers
    <2> QED
      BY <1>1, <1>2, <1>5, <1>6, <1>7, <2>1, <2>2 DEF TiersFit
  <1>9. CallOK(c)'
    BY <1>1, <1>2, <1>5, <1>7, <1>8 DEF CallOK, CancelFits
  <1>10. ToSet(done'[w]) = {} /\ IsInjective(done'[w])
    BY <1>5 DEF ToSet, IsInjective
  <1>11. \A e \in dag.deps \cup dag.edges : e[2] \in Node
    BY WorkflowAssumption
  <1>12. WorkflowOK(w)'
    BY <1>2, <1>5, <1>6, <1>10, <1>11 DEF WorkflowOK, NodesFit, Depends
  <1> QED
    BY <1>1, <1>2, <1>3, <1>4, <1>7, <1>9, <1>12, OwnStep

LEMMA OpenedKeepsOrder ==
  ASSUME ParserIsSound, OrderIInv, ExecutorIInv', NEW c \in Calls, Opened(c) \/ CheckTier(c)
  PROVE  OrderIInv'
  <1> USE DEF OrderIInv, ExecutorIInv, WTypeOK
  <1>1. /\ UNCHANGED <<dag, workflowOf, todo, status, step, done, compensated, cancelledAt, triggered>>
        /\ \/ pc[c] = "opening" /\ pc' = [pc EXCEPT ![c] = "check"] /\ tier' = [tier EXCEPT ![c] = 1]
           \/ pc[c] = "check" /\ pc' = [pc EXCEPT ![c] = "leasing"] /\ tier' = tier /\ status[workflowOf[c]] # "CANCELED"
    BY DEF Opened, CheckTier, Stopped, MoveTo, input, memory
  <1>2. Underway(c) /\ Executing(c) /\ Underway(c)' /\ Executing(c)' /\ Parsed[dag].valid
    BY <1>1 DEF Underway, Executing, CallsFit
  <1>3. \A d \in Calls : d # c => SameCall(d)
    BY <1>1 DEF SameCall
  <1>4. \A v \in Workflows : SameWorkflow(v)
    BY <1>1 DEF SameWorkflow
  <1>5. WorkflowOK(workflowOf[c])'
    BY <1>1, <1>4, SameWorkflowOK
  <1>6. Tiers' = Tiers /\ Len(Tiers') = Len(Tiers) /\ Len(Tiers) \in Nat \ {0}
    BY <1>1, <1>2, TierFacts DEF Tiers
  <1>7. /\ TiersFit(c) /\ CancelFits(c) /\ compensated[workflowOf[c]] = <<>> /\ workflowOf[c] \notin triggered
        /\ pc[c] # "opening" => tier[c] \in 1 .. Len(Tiers)
        /\ pc[c] = "opening" => tier[c] = 0
    BY <1>2 DEF CallOK, CallsFit
  <1>8. TiersFit(c)'
    BY <1>1, <1>6, <1>7 DEF TiersFit
  <1>9. CancelFits(c)'
    BY <1>1, <1>7 DEF CancelFits
  <1>10. CallOK(c)'
    BY <1>1, <1>2, <1>6, <1>7, <1>8, <1>9 DEF CallOK
  <1> QED
    BY <1>1, <1>2, <1>3, <1>4, <1>5, <1>10, OwnStep

\* The whole graph has succeeded when its last tier has.
LEMMA LastTierDone ==
  ASSUME ParserIsSound, OrderIInv, NEW c \in Calls, pc[c] = "running", StepsOf(c) = {"ok"}, tier[c] = Len(Tiers)
  PROVE  ToSet(done[workflowOf[c]]) = Node
  <1> USE DEF OrderIInv, ExecutorIInv, WTypeOK
  <1>1. Underway(c) /\ Executing(c) /\ Parsed[dag].valid /\ workflowOf[c] \in Workflows
    BY DEF Underway, Executing, CallsFit
  <1>2. ASSUME NEW n \in Node PROVE step[workflowOf[c]][n] = "ok"
    <2>1. PICK k \in 1 .. Len(Tiers) : n \in Tiers[k]
      BY <1>1, TierFacts
    <2>2. CASE k < tier[c]
      BY <1>1, <2>1, <2>2 DEF CallOK, TiersFit
    <2>3. CASE k = tier[c]
      BY <2>1, <2>3 DEF StepsOf
    <2>4. k < tier[c] \/ k = tier[c]
      BY <1>1, <2>1, TierFacts
    <2> QED
      BY <2>2, <2>3, <2>4
  <1>3. ToSet(done[workflowOf[c]]) = {n \in Node : step[workflowOf[c]][n] \in {"succeeded", "ok"}}
    BY <1>1 DEF WorkflowOK, NodesFit
  <1> QED
    BY <1>2, <1>3

LEMMA EndKeepsOrder ==
  ASSUME ParserIsSound, OrderIInv, ExecutorIInv', NEW c \in Calls, StopTier(c) \/ LoseLease(c) \/ Complete(c)
  PROVE  OrderIInv'
  <1> USE DEF OrderIInv, ExecutorIInv, WTypeOK
  <1>1. PICK w \in Workflows : w = workflowOf[c]
    OBVIOUS
  <1>2. /\ UNCHANGED <<dag, workflowOf, tier, todo, step, done, compensated, cancelledAt, triggered>>
        /\ pc[c] \in {"check", "leasing", "running"} /\ pc' = [pc EXCEPT ![c] = "closing"]
    BY DEF StopTier, LoseLease, Complete, Conclude, MoveTo, input
  <1>3. PICK end \in {"EXPIRED", "CANCELED", "Completed"} :
          status' = [status EXCEPT ![w] = end] /\ (end = "Completed" => Complete(c))
    BY <1>1 DEF StopTier, LoseLease, Complete, SetStatus
  <1>4. Underway(c) /\ Executing(c) /\ Executing(c)' /\ ~Underway(c)'
    BY <1>2 DEF Underway, Executing
  <1>5. \A d \in Calls : d # c => SameCall(d)
    BY <1>2 DEF SameCall
  <1>6. \A v \in Workflows : v # w => SameWorkflow(v)
    BY <1>2, <1>3 DEF SameWorkflow
  <1>7. Len(Tiers)' = Len(Tiers) /\ tier[c] \in 1 .. Len(Tiers) /\ compensated[w] = <<>>
    BY <1>1, <1>2, <1>4 DEF Tiers, CallOK
  <1>8. CallOK(c)'
    BY <1>1, <1>2, <1>3, <1>4, <1>7 DEF CallOK
  <1>9. end = "Completed" => ToSet(done[w]) = Node
    BY <1>1, <1>3, LastTierDone DEF Complete
  <1>10. NodesFit(w)' /\ Depends(w)'
    BY <1>2 DEF WorkflowOK, NodesFit, Depends
  <1>11. WorkflowOK(w)'
    BY <1>2, <1>3, <1>7, <1>9, <1>10 DEF WorkflowOK
  <1> QED
    BY <1>1, <1>2, <1>4, <1>5, <1>6, <1>8, <1>11, OwnStep

LEMMA StartKeepsOrder ==
  ASSUME ParserIsSound, OrderIInv, ExecutorIInv', NEW c \in Calls, StartTier(c)
  PROVE  OrderIInv'
  <1> USE DEF OrderIInv, ExecutorIInv, WTypeOK
  <1>1. PICK w \in Workflows : w = workflowOf[c]
    OBVIOUS
  <1>2. /\ UNCHANGED <<dag, workflowOf, tier, todo, status, done, compensated, cancelledAt, triggered>>
        /\ pc[c] = "leasing" /\ pc' = [pc EXCEPT ![c] = "running"]
    BY DEF StartTier, MoveTo, input
  <1>3. /\ \A v \in Workflows : v # w => step'[v] = step[v]
        /\ \A n \in Node : step'[w][n] = IF n \in Tiers[tier[c]] THEN "opening" ELSE step[w][n]
    BY <1>1 DEF StartTier
  <1>4. Underway(c) /\ Executing(c) /\ Executing(c)' /\ Underway(c)' /\ Parsed[dag].valid
    BY <1>2 DEF Underway, Executing, CallsFit
  <1>5. /\ TiersFit(c) /\ CancelFits(c) /\ compensated[w] = <<>> /\ w \notin triggered
        /\ tier[c] \in 1 .. Len(Tiers)
    BY <1>1, <1>2, <1>4 DEF CallOK
  <1>6. \A n \in Tiers[tier[c]] : n \in Node /\ step[w][n] = "idle"
    BY <1>1, <1>2, <1>4, <1>5, TierFacts DEF TiersFit
  <1>7. \A d \in Calls : d # c => SameCall(d)
    BY <1>2 DEF SameCall
  <1>8. \A v \in Workflows : v # w => SameWorkflow(v)
    BY <1>2, <1>3 DEF SameWorkflow
  <1>9. pc'[c] = "running" /\ Tiers' = Tiers /\ Len(Tiers') = Len(Tiers)
    BY <1>2 DEF Tiers
  <1>10. TiersFit(c)'
    <2> SUFFICES ASSUME NEW k \in 1 .. Len(Tiers), NEW n \in Tiers[k]
                 PROVE  /\ k < tier[c] => step'[w][n] = "ok"
                        /\ k > tier[c] => step'[w][n] = "idle"
      BY <1>1, <1>2, <1>9 DEF TiersFit
    <2>1. n \in Node
      BY <1>4, TierFacts
    <2>2. k # tier[c] => n \notin Tiers[tier[c]]
      BY <1>4, <1>5, TierFacts
    <2> QED
      BY <1>1, <1>3, <1>5, <2>1, <2>2 DEF TiersFit
  <1>11. CallOK(c)'
    BY <1>1, <1>2, <1>4, <1>5, <1>9, <1>10 DEF CallOK, CancelFits
  <1>12. NodesFit(w)'
    BY <1>2, <1>3, <1>6, ZenonT(30) DEF WorkflowOK, NodesFit
  <1>13. Depends(w)'
    <2> SUFFICES ASSUME NEW e \in dag.deps \cup dag.edges, step'[w][e[2]] # "idle"
                 PROVE  e[1] \in ToSet(done[w])
      BY <1>2 DEF Depends
    <2>1. e[1] \in Node /\ e[2] \in Node
      BY WorkflowAssumption
    <2>2. CASE e[2] \in Tiers[tier[c]]
      <3>1. PICK j \in 1 .. tier[c] - 1 : e[1] \in Tiers[j]
        BY <1>4, <1>5, <2>2, TierFacts
      <3>2. j \in 1 .. Len(Tiers) /\ j < tier[c]
        <4>1. Len(Tiers) \in Nat
          BY <1>4, TierFacts
        <4>2. tier[c] \in Nat /\ tier[c] <= Len(Tiers) /\ j \in 1 .. tier[c] - 1
          BY <1>5, <3>1, <4>1
        <4> HIDE DEF OrderIInv, ExecutorIInv, WTypeOK
        <4> QED
          BY <4>1, <4>2
      <3>3. step[w][e[1]] = "ok"
        BY <1>1, <1>5, <3>1, <3>2 DEF TiersFit
      <3>4. ToSet(done[w]) = {n \in Node : step[w][n] \in {"succeeded", "ok"}}
        BY DEF WorkflowOK, NodesFit
      <3> QED
        BY <2>1, <3>3, <3>4
    <2>3. CASE e[2] \notin Tiers[tier[c]]
      BY <1>3, <2>1, <2>3 DEF WorkflowOK, Depends
    <2> QED
      BY <2>2, <2>3
  <1>14. WorkflowOK(w)'
    BY <1>2, <1>12, <1>13 DEF WorkflowOK
  <1> QED
    BY <1>1, <1>2, <1>4, <1>7, <1>8, <1>11, <1>14, OwnStep

LEMMA TierKeepsOrder ==
  ASSUME ParserIsSound, OrderIInv, ExecutorIInv', NEW c \in Calls, TierSucceeds(c)
  PROVE  OrderIInv'
  <1> USE DEF OrderIInv, ExecutorIInv, WTypeOK
  <1>1. PICK w \in Workflows : w = workflowOf[c]
    OBVIOUS
  <1>2. /\ UNCHANGED <<dag, workflowOf, todo, status, step, done, compensated, cancelledAt, triggered>>
        /\ pc[c] = "running" /\ StepsOf(c) = {"ok"} /\ tier[c] < Len(Tiers)
        /\ pc' = [pc EXCEPT ![c] = "check"] /\ tier' = [tier EXCEPT ![c] = tier[c] + 1]
    BY DEF TierSucceeds, MoveTo, input, memory
  <1>3. Underway(c) /\ Executing(c) /\ Executing(c)' /\ Underway(c)' /\ Parsed[dag].valid
    BY <1>2 DEF Underway, Executing, CallsFit
  <1>4. /\ TiersFit(c) /\ CancelFits(c) /\ compensated[w] = <<>> /\ w \notin triggered
        /\ tier[c] \in 1 .. Len(Tiers) /\ Len(Tiers) \in Nat
    BY <1>1, <1>2, <1>3, TierFacts DEF CallOK
  <1>5. \A d \in Calls : d # c => SameCall(d)
    BY <1>2 DEF SameCall
  <1>6. \A v \in Workflows : SameWorkflow(v)
    BY <1>2 DEF SameWorkflow
  <1>7. pc'[c] = "check" /\ tier'[c] = tier[c] + 1 /\ Tiers' = Tiers /\ Len(Tiers') = Len(Tiers)
    BY <1>2 DEF Tiers
  <1>8. \A n \in Tiers[tier[c]] : step[w][n] = "ok"
    BY <1>1, <1>2 DEF StepsOf
  <1>9. TiersFit(c)'
    <2> SUFFICES ASSUME NEW k \in 1 .. Len(Tiers), NEW n \in Tiers[k]
                 PROVE  /\ k < tier[c] + 1 => step[w][n] = "ok"
                        /\ k >= tier[c] + 1 => step[w][n] = "idle"
      BY <1>1, <1>2, <1>4, <1>7 DEF TiersFit
    <2>1. CASE k = tier[c]
      <3>1. ~(k >= tier[c] + 1)
        BY <1>4, <2>1
      <3>2. step[w][n] = "ok"
        BY <1>8, <2>1
      <3> QED
        BY <3>1, <3>2
    <2>2. /\ k < tier[c] => step[w][n] = "ok"
          /\ k > tier[c] => step[w][n] = "idle"
      BY <1>1, <1>4 DEF TiersFit
    <2>3. k \in Nat /\ tier[c] \in Nat
      BY <1>4
    <2>4. CASE k < tier[c]
      BY <2>2, <2>3, <2>4
    <2>5. CASE k > tier[c]
      BY <2>2, <2>3, <2>5
    <2> QED
      BY <2>1, <2>3, <2>4, <2>5
  <1>10. CancelFits(c)'
    BY <1>1, <1>2, <1>4, <1>7 DEF CancelFits
  <1>11. CallOK(c)'
    BY <1>1, <1>2, <1>3, <1>4, <1>7, <1>9, <1>10 DEF CallOK
  <1>12. WorkflowOK(w)'
    BY <1>2, <1>6, SameWorkflowOK
  <1> QED
    BY <1>1, <1>2, <1>3, <1>5, <1>6, <1>11, <1>12, OwnStep

\* executeCompensation as an algorithm on lists.
LEMMA UndoingStarts ==
  ASSUME NEW nodes \in Seq(Node)
  PROVE  Undoing(<<>>, Reverse(nodes), nodes)
  <1>1. Reverse(nodes) \in Seq(Node) /\ Len(Reverse(nodes)) = Len(nodes) /\ Len(nodes) \in Nat
    BY DEF Reverse
  <1>2. \A i \in 1 .. Len(nodes) : Reverse(nodes)[i] = nodes[(Len(nodes) - i) + 1]
    BY DEF Reverse
  <1>3. Len(nodes) + 1 .. Len(nodes) = {} /\ ToSet(<<>>) = {} /\ DOMAIN <<>> = {}
    BY <1>1 DEF ToSet
  <1> QED
    BY <1>1, <1>2, <1>3 DEF Undoing

LEMMA UndoingStep ==
  ASSUME NEW undone \in Seq(Node), NEW left \in Seq(Node), NEW nodes \in Seq(Node), Undoing(undone, left, nodes),
         NEW i \in 1 .. Len(left), left[i] \in Compensable, \A j \in 1 .. i - 1 : left[j] \notin Compensable
  PROVE  Undoing(Append(undone, left[i]), SubSeq(left, i + 1, Len(left)), nodes)
  <1> DEFINE m == Len(left)
             rest == SubSeq(left, i + 1, Len(left))
             more == Append(undone, left[i])
  <1>1. m \in Nat /\ Len(nodes) \in Nat /\ m <= Len(nodes) /\ i \in Nat /\ 1 <= i /\ i <= m
    BY DEF Undoing
  <1>2. \A k \in 1 .. m : left[k] = nodes[(m - k) + 1]
    BY DEF Undoing
  <1>3. Len(rest) = m - i /\ \A k \in 1 .. m - i : rest[k] = left[k + i]
    BY <1>1
  <1>4. left[i] \in Node /\ Len(undone) \in Nat
    BY <1>1
  <1>5. /\ Len(more) = Len(undone) + 1 /\ more[Len(undone) + 1] = left[i]
        /\ \A k \in 1 .. Len(undone) : more[k] = undone[k]
    BY <1>4
  <1>6. DOMAIN undone = 1 .. Len(undone) /\ DOMAIN more = 1 .. Len(undone) + 1
    BY <1>4, <1>5
  <1> HIDE DEF m, rest, more
  <1>7. \A k \in 1 .. m - i : rest[k] = nodes[((m - i) - k) + 1]
    <2> SUFFICES ASSUME NEW k \in 1 .. m - i PROVE rest[k] = nodes[((m - i) - k) + 1]
      OBVIOUS
    <2>1. k + i \in 1 .. m /\ (m - (k + i)) + 1 = ((m - i) - k) + 1
      BY <1>1
    <2> QED
      BY <1>2, <1>3, <2>1
  <1>8. left[i] = nodes[(m - i) + 1] /\ (m - i) + 1 \in 1 .. m
    BY <1>1, <1>2
  <1>9. ToSet(more) = ToSet(undone) \cup {left[i]}
    <2>1. \A k \in 1 .. Len(undone) + 1 : k \in 1 .. Len(undone) \/ k = Len(undone) + 1
      BY <1>4
    <2>2. 1 .. Len(undone) \subseteq 1 .. Len(undone) + 1 /\ Len(undone) + 1 \in 1 .. Len(undone) + 1
      BY <1>4
    <2> QED
      BY <1>5, <1>6, <2>1, <2>2 DEF ToSet
  <1>10. ToSet(undone) = {nodes[a] : a \in m + 1 .. Len(nodes)} \cap Compensable
    BY DEF Undoing, m
  <1>11. {nodes[a] : a \in (m - i) + 1 .. Len(nodes)} \cap Compensable
           = ({nodes[a] : a \in m + 1 .. Len(nodes)} \cap Compensable) \cup {left[i]}
    <2>1. ASSUME NEW a \in (m - i) + 1 .. Len(nodes), nodes[a] \in Compensable
          PROVE  a \in m + 1 .. Len(nodes) \/ nodes[a] = left[i]
      <3>1. CASE a > m
        BY <1>1, <3>1
      <3>2. CASE a = (m - i) + 1
        BY <1>8, <3>2
      <3>3. CASE a <= m /\ a # (m - i) + 1
        <4>1. (m - a) + 1 \in 1 .. i - 1 /\ (m - a) + 1 \in 1 .. m /\ (m - ((m - a) + 1)) + 1 = a
          BY <1>1, <3>3
        <4>2. left[(m - a) + 1] = nodes[a]
          BY <1>2, <4>1
        <4> QED
          BY <2>1, <4>1, <4>2
      <3> QED
        BY <1>1, <3>1, <3>2, <3>3
    <2>2. m + 1 .. Len(nodes) \subseteq (m - i) + 1 .. Len(nodes) /\ (m - i) + 1 \in (m - i) + 1 .. Len(nodes)
      BY <1>1
    <2> QED
      BY <1>8, <2>1, <2>2
  <1>12. ASSUME NEW p \in DOMAIN more, NEW q \in DOMAIN more, p < q
         PROVE  \E a, b \in (m - i) + 1 .. Len(nodes) : a > b /\ more[p] = nodes[a] /\ more[q] = nodes[b]
    <2>1. p \in 1 .. Len(undone) /\ more[p] = undone[p]
      BY <1>4, <1>5, <1>6, <1>12
    <2>2. CASE q \in 1 .. Len(undone)
      <3>1. PICK a, b \in m + 1 .. Len(nodes) : a > b /\ undone[p] = nodes[a] /\ undone[q] = nodes[b]
        BY <1>6, <1>12, <2>1, <2>2, SMTT(30) DEF Undoing, m
      <3>2. a \in (m - i) + 1 .. Len(nodes) /\ b \in (m - i) + 1 .. Len(nodes)
        BY <1>1
      <3> QED
        BY <1>5, <2>1, <2>2, <3>1, <3>2
    <2>3. CASE q = Len(undone) + 1
      <3>1. undone[p] \in ToSet(undone)
        BY <1>6, <2>1 DEF ToSet
      <3>2. PICK a \in m + 1 .. Len(nodes) : undone[p] = nodes[a]
        BY <1>10, <3>1
      <3>3. /\ a \in (m - i) + 1 .. Len(nodes) /\ (m - i) + 1 \in (m - i) + 1 .. Len(nodes) /\ a > (m - i) + 1
        BY <1>1
      <3> QED
        BY <1>5, <1>8, <2>1, <2>3, <3>2, <3>3
    <2>4. q \in 1 .. Len(undone) \/ q = Len(undone) + 1
      BY <1>4, <1>6
    <2> QED
      BY <2>2, <2>3, <2>4
  <1>13. Len(rest) <= Len(nodes) /\ \A k \in 1 .. Len(rest) : rest[k] = nodes[(Len(rest) - k) + 1]
    BY <1>1, <1>3, <1>7
  <1>14. ToSet(more) = {nodes[a] : a \in Len(rest) + 1 .. Len(nodes)} \cap Compensable
    BY <1>3, <1>9, <1>10, <1>11
  <1>15. \A p, q \in DOMAIN more : p < q =>
           \E a, b \in Len(rest) + 1 .. Len(nodes) : a > b /\ more[p] = nodes[a] /\ more[q] = nodes[b]
    BY <1>3, <1>12
  <1>16. Undoing(more, rest, nodes)
    BY <1>13, <1>14, <1>15 DEF Undoing
  <1> QED
    BY <1>16 DEF more, rest

LEMMA UndoingEnds ==
  ASSUME NEW undone \in Seq(Node), NEW left \in Seq(Node), NEW nodes \in Seq(Node), Undoing(undone, left, nodes),
         IsInjective(nodes), \A i \in 1 .. Len(left) : left[i] \notin Compensable
  PROVE  Undoes(undone, nodes)
  <1>1. Len(left) \in Nat /\ Len(nodes) \in Nat /\ Len(left) <= Len(nodes) /\ DOMAIN nodes = 1 .. Len(nodes)
    BY DEF Undoing
  <1>2. Len(left) + 1 .. Len(nodes) \subseteq DOMAIN nodes
    BY <1>1
  <1>3. ASSUME NEW a \in DOMAIN nodes, nodes[a] \in Compensable PROVE a \in Len(left) + 1 .. Len(nodes)
    <2>1. CASE a <= Len(left)
      <3>1. (Len(left) - a) + 1 \in 1 .. Len(left) /\ (Len(left) - ((Len(left) - a) + 1)) + 1 = a
        BY <1>1, <2>1
      <3>2. left[(Len(left) - a) + 1] = nodes[a]
        BY <3>1 DEF Undoing
      <3> QED
        BY <1>3, <3>1, <3>2
    <2> QED
      BY <1>1, <2>1
  <1>4. ToSet(undone) = ToSet(nodes) \cap Compensable
    <2>1. ToSet(undone) = {nodes[a] : a \in Len(left) + 1 .. Len(nodes)} \cap Compensable
      BY DEF Undoing
    <2>2. ToSet(nodes) = {nodes[a] : a \in DOMAIN nodes}
      BY DEF ToSet
    <2> QED
      BY <1>2, <1>3, <2>1, <2>2
  <1>5. ASSUME NEW i \in DOMAIN undone, NEW j \in DOMAIN undone, i < j
        PROVE  \E a, b \in DOMAIN nodes : a > b /\ undone[i] = nodes[a] /\ undone[j] = nodes[b]
    BY <1>2, <1>5 DEF Undoing
  <1>6. ASSUME NEW i \in DOMAIN undone, NEW j \in DOMAIN undone, i < j PROVE undone[i] # undone[j]
    <2>1. PICK a, b \in DOMAIN nodes : a > b /\ undone[i] = nodes[a] /\ undone[j] = nodes[b]
      BY <1>5, <1>6
    <2>2. a # b
      BY <1>1, <2>1
    <2> QED
      BY <2>1, <2>2 DEF IsInjective
  <1>7. IsInjective(undone)
    <2>1. DOMAIN undone = 1 .. Len(undone) /\ Len(undone) \in Nat
      OBVIOUS
    <2>2. \A i, j \in DOMAIN undone : i < j \/ j < i \/ i = j
      BY <2>1
    <2> QED
      BY <1>6, <2>2 DEF IsInjective
  <1> QED
    BY <1>4, <1>5, <1>7 DEF Undoes

LEMMA FailKeepsOrder ==
  ASSUME ParserIsSound, OrderIInv, ExecutorIInv', NEW c \in Calls, TierFails(c)
  PROVE  OrderIInv'
  <1> USE DEF OrderIInv, ExecutorIInv, WTypeOK
  <1>1. PICK w \in Workflows : w = workflowOf[c]
    OBVIOUS
  <1>2. /\ UNCHANGED <<dag, workflowOf, tier, step, done, compensated, cancelledAt>>
        /\ pc[c] = "running" /\ StepsOf(c) \subseteq {"ok", "failed"} /\ pc' = [pc EXCEPT ![c] = "compensating"]
        /\ status' = [status EXCEPT ![w] = "Failed"] /\ triggered' = triggered \cup {w}
        /\ todo' = [todo EXCEPT ![c] = IF w \in triggered THEN <<>> ELSE Reverse(done[w])]
    BY <1>1 DEF TierFails, AllSettled, SetStatus, MoveTo, input
  <1>3. Underway(c) /\ Executing(c) /\ Executing(c)' /\ ~Underway(c)' /\ Parsed[dag].valid
    BY <1>2 DEF Underway, Executing, CallsFit
  <1>4. /\ TiersFit(c) /\ compensated[w] = <<>> /\ w \notin triggered /\ tier[c] \in 1 .. Len(Tiers)
    BY <1>1, <1>2, <1>3 DEF CallOK
  <1>5. \A d \in Calls : d # c => SameCall(d)
    BY <1>2 DEF SameCall
  <1>6. \A v \in Workflows : v # w => SameWorkflow(v)
    BY <1>2 DEF SameWorkflow
  <1>7. pc'[c] = "compensating" /\ todo'[c] = Reverse(done[w]) /\ Len(Tiers)' = Len(Tiers) /\ status'[w] = "Failed"
    BY <1>2, <1>4 DEF Tiers
  <1>8. ASSUME NEW n \in Node PROVE step[w][n] \in {"idle", "ok", "failed"}
    <2>1. PICK k \in 1 .. Len(Tiers) : n \in Tiers[k]
      BY <1>3, TierFacts
    <2>2. CASE k = tier[c]
      BY <1>1, <1>2, <2>1, <2>2, ZenonT(30) DEF StepsOf
    <2>3. CASE k < tier[c]
      BY <1>1, <1>4, <2>1, <2>3 DEF TiersFit
    <2>4. CASE k > tier[c]
      BY <1>1, <1>4, <2>1, <2>4 DEF TiersFit
    <2>5. k < tier[c] \/ k = tier[c] \/ k > tier[c]
      BY <1>4
    <2> QED
      BY <2>2, <2>3, <2>4, <2>5
  <1>9. Quiet(w)'
    BY <1>2, <1>8 DEF Quiet
  <1>10. Undoing(compensated'[w], todo'[c], done'[w])
    <2>1. Undoing(<<>>, Reverse(done[w]), done[w])
      BY UndoingStarts
    <2> QED
      BY <1>2, <1>4, <1>7, <2>1
  <1>11. CallOK(c)'
    BY <1>1, <1>2, <1>3, <1>4, <1>7, <1>9, <1>10 DEF CallOK
  <1>12. NodesFit(w)' /\ Depends(w)'
    BY <1>2 DEF WorkflowOK, NodesFit, Depends
  <1>13. WorkflowOK(w)'
    BY <1>7, <1>12 DEF WorkflowOK
  <1> QED
    BY <1>1, <1>2, <1>3, <1>5, <1>6, <1>11, <1>13, OwnStep

LEMMA CompensateKeepsOrder ==
  ASSUME OrderIInv, ExecutorIInv', NEW c \in Calls, Compensate(c)
  PROVE  OrderIInv'
  <1> USE DEF OrderIInv, ExecutorIInv, WTypeOK
  <1>1. PICK w \in Workflows : w = workflowOf[c]
    OBVIOUS
  <1>2. PICK i \in 1 .. Len(todo[c]) :
          /\ pc[c] = "compensating"
          /\ todo[c][i] \in Compensable /\ \A j \in 1 .. i - 1 : todo[c][j] \notin Compensable
          /\ compensated' = [compensated EXCEPT ![w] = Append(compensated[w], todo[c][i])]
          /\ todo' = [todo EXCEPT ![c] = SubSeq(todo[c], i + 1, Len(todo[c]))]
          /\ UNCHANGED <<dag, workflowOf, pc, tier, status, step, done, triggered, cancelledAt>>
    BY <1>1 DEF Compensate, input
  <1>3. Executing(c) /\ ~Underway(c)' /\ Len(Tiers)' = Len(Tiers)
    BY <1>2 DEF Executing, Underway, Tiers
  <1>4. tier[c] \in 1 .. Len(Tiers) /\ status[w] = "Failed" /\ Quiet(w) /\ Undoing(compensated[w], todo[c], done[w])
    BY <1>1, <1>2, <1>3 DEF CallOK
  <1>5. Undoing(Append(compensated[w], todo[c][i]), SubSeq(todo[c], i + 1, Len(todo[c])), done[w])
    <2>1. compensated[w] \in Seq(Node) /\ todo[c] \in Seq(Node) /\ done[w] \in Seq(Node)
      OBVIOUS
    <2> QED
      BY <1>2, <1>4, <2>1, UndoingStep
  <1>6. compensated'[w] = Append(compensated[w], todo[c][i]) /\ todo'[c] = SubSeq(todo[c], i + 1, Len(todo[c]))
    BY <1>2
  <1>7. Undoing(compensated'[w], todo'[c], done'[w])
    BY <1>2, <1>5, <1>6
  <1>8. \A d \in Calls : d # c => SameCall(d)
    BY <1>2 DEF SameCall
  <1>9. \A v \in Workflows : v # w => SameWorkflow(v)
    BY <1>2 DEF SameWorkflow
  <1>10. Quiet(w)'
    BY <1>2, <1>4 DEF Quiet
  <1>11. CallOK(c)'
    BY <1>1, <1>2, <1>3, <1>4, <1>7, <1>10 DEF CallOK
  <1>12. NodesFit(w)' /\ Depends(w)'
    BY <1>2 DEF WorkflowOK, NodesFit, Depends
  <1>13. WorkflowOK(w)'
    BY <1>2, <1>4, <1>12 DEF WorkflowOK
  <1> QED
    BY <1>1, <1>2, <1>3, <1>8, <1>9, <1>11, <1>13, OwnStep

LEMMA CompensatedKeepsOrder ==
  ASSUME OrderIInv, ExecutorIInv', NEW c \in Calls, Compensated(c)
  PROVE  OrderIInv'
  <1> USE DEF OrderIInv, ExecutorIInv, WTypeOK
  <1>1. PICK w \in Workflows : w = workflowOf[c]
    OBVIOUS
  <1>2. /\ pc[c] = "compensating" /\ \A i \in 1 .. Len(todo[c]) : todo[c][i] \notin Compensable
        /\ pc' = [pc EXCEPT ![c] = "closing"]
        /\ UNCHANGED <<dag, workflowOf, tier, todo, status, step, done, compensated, triggered, cancelledAt>>
    BY DEF Compensated, Conclude, MoveTo, input, memory
  <1>3. Executing(c) /\ Executing(c)' /\ ~Underway(c)' /\ Len(Tiers)' = Len(Tiers) /\ pc'[c] = "closing"
    BY <1>2 DEF Executing, Underway, Tiers
  <1>4. tier[c] \in 1 .. Len(Tiers) /\ Quiet(w) /\ Undoing(compensated[w], todo[c], done[w])
    BY <1>1, <1>2, <1>3 DEF CallOK
  <1>5. Undoes(compensated[w], done[w])
    <2>1. compensated[w] \in Seq(Node) /\ todo[c] \in Seq(Node) /\ done[w] \in Seq(Node)
      OBVIOUS
    <2>2. IsInjective(done[w])
      BY DEF WorkflowOK, NodesFit
    <2> QED
      BY <1>2, <1>4, <2>1, <2>2, UndoingEnds
  <1>6. \A d \in Calls : d # c => SameCall(d)
    BY <1>2 DEF SameCall
  <1>7. \A v \in Workflows : SameWorkflow(v)
    BY <1>2 DEF SameWorkflow
  <1>8. Quiet(w)'
    BY <1>2, <1>4 DEF Quiet
  <1>9. CallOK(c)'
    BY <1>1, <1>2, <1>3, <1>4, <1>5, <1>8 DEF CallOK
  <1>10. WorkflowOK(w)'
    BY <1>2, <1>7, SameWorkflowOK
  <1> QED
    BY <1>1, <1>2, <1>3, <1>6, <1>7, <1>9, <1>10, OwnStep

\* A node goes on, of a workflow that is executed or of one whose call is gone.
LEMMA NodeKeepsOrder ==
  ASSUME OrderIInv, ExecutorIInv', NEW w \in Workflows, NEW n \in Node, NodeStep(w, n)
  PROVE  OrderIInv'
  <1> USE DEF OrderIInv, ExecutorIInv, WTypeOK
  <1>1. /\ UNCHANGED <<dag, workflowOf, life, pc, tier, todo, status, compensated, triggered, cancelledAt>>
        /\ step[w][n] \in {"opening", "scheduled", "succeeded", "failing"}
    BY NodeEffect
  <1>2. PICK s \in Steps \ {"idle"} :
          /\ step' = [step EXCEPT ![w][n] = s]
          /\ \/ done' = done /\ (step[w][n] = "succeeded" <=> s \in {"succeeded", "ok"})
             \/ done' = [done EXCEPT ![w] = Append(@, n)] /\ step[w][n] = "scheduled" /\ s = "succeeded"
    BY NodeEffect
  <1>3. \A v \in Workflows : v # w => step'[v] = step[v] /\ done'[v] = done[v]
    BY <1>2
  <1>4. step'[w][n] = s /\ \A x \in Node : x # n => step'[w][x] = step[w][x]
    BY <1>2
  <1>5. \/ done'[w] = done[w] /\ (step[w][n] = "succeeded" <=> s \in {"succeeded", "ok"})
        \/ done'[w] = Append(done[w], n) /\ step[w][n] = "scheduled" /\ s = "succeeded"
    BY <1>2
  <1>6. NodesFit(w)
    BY DEF WorkflowOK
  <1>7. NodesFit(w)' /\ ToSet(done[w]) \subseteq ToSet(done'[w])
    <2>1. CASE done'[w] = done[w] /\ (step[w][n] = "succeeded" <=> s \in {"succeeded", "ok"})
      <3>1. \A x \in Node : step'[w][x] \in {"succeeded", "ok"} <=> step[w][x] \in {"succeeded", "ok"}
        BY <1>1, <1>4, <2>1
      <3> QED
        BY <1>6, <2>1, <3>1 DEF NodesFit
    <2>2. CASE done'[w] = Append(done[w], n) /\ step[w][n] = "scheduled" /\ s = "succeeded"
      <3>1. n \notin ToSet(done[w])
        BY <1>6, <2>2 DEF NodesFit
      <3>2. done[w] \in Seq(Node) /\ Len(done[w]) \in Nat /\ DOMAIN done[w] = 1 .. Len(done[w])
        OBVIOUS
      <3>3. /\ DOMAIN done'[w] = 1 .. Len(done[w]) + 1 /\ done'[w][Len(done[w]) + 1] = n
            /\ \A i \in 1 .. Len(done[w]) : done'[w][i] = done[w][i]
        BY <2>2, <3>2
      <3>4. \A i \in 1 .. Len(done[w]) + 1 : i \in 1 .. Len(done[w]) \/ i = Len(done[w]) + 1
        <4> HIDE DEF OrderIInv, WTypeOK
        <4>1. Len(done[w]) \in Nat
          BY <3>2
        <4> QED
          BY <4>1
      <3>5. 1 .. Len(done[w]) \subseteq 1 .. Len(done[w]) + 1 /\ Len(done[w]) + 1 \in 1 .. Len(done[w]) + 1
        <4> HIDE DEF OrderIInv, WTypeOK
        <4>1. Len(done[w]) \in Nat
          BY <3>2
        <4> QED
          BY <4>1
      <3>6. ToSet(done'[w]) = ToSet(done[w]) \cup {n}
        <4>1. ToSet(done[w]) = {done[w][i] : i \in 1 .. Len(done[w])}
          BY <3>2 DEF ToSet
        <4>2. ToSet(done'[w]) = {done'[w][i] : i \in 1 .. Len(done[w]) + 1}
          BY <3>3 DEF ToSet
        <4> HIDE DEF OrderIInv
        <4> QED
          BY <3>3, <3>4, <3>5, <4>1, <4>2
      <3>7. IsInjective(done'[w])
        BY <1>6, <3>1, <3>2, <3>3, <3>4 DEF NodesFit, IsInjective, ToSet
      <3>8. {x \in Node : step'[w][x] \in {"succeeded", "ok"}} = {x \in Node : step[w][x] \in {"succeeded", "ok"}} \cup {n}
        <4> HIDE DEF OrderIInv, WTypeOK
        <4>1. n \in Node /\ step'[w][n] = "succeeded"
          BY <1>4, <2>2
        <4> QED
          BY <1>4, <4>1
      <3> QED
        BY <1>6, <3>6, <3>7, <3>8 DEF NodesFit
    <2> QED
      BY <1>5, <2>1, <2>2
  <1>8. Depends(w)'
    <2> SUFFICES ASSUME NEW e \in dag.deps \cup dag.edges, step'[w][e[2]] # "idle" PROVE e[1] \in ToSet(done'[w])
      BY <1>1 DEF Depends
    <2>1. e[2] \in Node
      BY WorkflowAssumption
    <2>2. step[w][e[2]] # "idle"
      BY <1>1, <1>4, <2>1
    <2> QED
      BY <1>7, <2>2 DEF WorkflowOK, Depends
  <1>9. status[w] = "Completed" => ToSet(done'[w]) = Node
    <2>1. ToSet(done'[w]) \subseteq Node
      BY <1>7 DEF NodesFit
    <2> QED
      BY <1>7, <2>1 DEF WorkflowOK
  <1>10. ASSUME NEW v \in Workflows PROVE WorkflowOK(v)'
    <2>1. CASE v = w
      BY <1>1, <1>7, <1>8, <1>9, <2>1 DEF WorkflowOK
    <2>2. CASE v # w
      BY <1>1, <1>3, <2>2, SameWorkflowOK DEF SameWorkflow
    <2> QED
      BY <2>1, <2>2
  <1>11. ASSUME NEW d \in Calls PROVE CallOK(d)'
    <2>1. SameCall(d)
      BY <1>1 DEF SameCall
    <2>2. CASE workflowOf[d] # w
      <3>1. SameWorkflow(workflowOf[d])
        BY <1>1, <1>3, <2>2 DEF SameWorkflow
      <3> QED
        BY <1>1, <2>1, <3>1, SameCallOK
    <2>3. CASE workflowOf[d] = w /\ ~Executing(d)
      <3>1. ~Executing(d)'
        BY <1>1, <2>3 DEF Executing
      <3> QED
        BY <3>1 DEF CallOK, Executing, Underway
    <2>4. CASE workflowOf[d] = w /\ Underway(d)
      <3>1. TiersFit(d)'
        <4> SUFFICES ASSUME NEW k \in 1 .. Len(Tiers), NEW x \in Tiers[k]
                     PROVE  /\ k < tier[d] => step'[w][x] = "ok"
                            /\ k > tier[d] \/ (k = tier[d] /\ pc[d] # "running") => step'[w][x] = "idle"
          BY <1>1, <2>4 DEF TiersFit, Tiers
        <4>1. /\ k < tier[d] => step[w][x] = "ok"
              /\ k > tier[d] \/ (k = tier[d] /\ pc[d] # "running") => step[w][x] = "idle"
          <5>1. TiersFit(d)
            BY <2>4 DEF CallOK
          <5> QED
            BY <2>4, <5>1 DEF TiersFit
        <4>2. CASE x = n
          BY <1>1, <4>1, <4>2
        <4>3. CASE x # n
          <5>1. step'[w][x] = step[w][x]
            BY <1>2, <4>3
          <5> QED
            BY <4>1, <5>1
        <4> QED
          BY <4>2, <4>3
      <3>2. CancelFits(d)'
        BY <1>1, <2>4 DEF CallOK, CancelFits
      <3>3. pc[d] \notin {"compensating", "closing"} /\ Len(Tiers)' = Len(Tiers) /\ (Executing(d)' <=> Executing(d)) /\ Underway(d)'
        BY <1>1, <2>4 DEF Underway, Executing, Tiers
      <3> QED
        BY <1>1, <2>4, <3>1, <3>2, <3>3 DEF CallOK
    <2>5. CASE workflowOf[d] = w /\ pc[d] \in {"compensating", "closing"}
      <3>1. ~Quiet(w)
        BY <1>1 DEF Quiet
      <3>2. pc[d] = "closing" /\ status[w] # "Failed"
        BY <2>5, <3>1 DEF CallOK
      <3>3. Len(Tiers)' = Len(Tiers) /\ (Executing(d)' <=> Executing(d)) /\ ~Underway(d)'
        BY <1>1, <3>2 DEF Underway, Executing, Tiers
      <3> QED
        BY <1>1, <2>5, <3>2, <3>3 DEF CallOK
    <2>6. Executing(d) => Underway(d) \/ pc[d] \in {"compensating", "closing"}
      BY DEF Executing, Underway
    <2> QED
      BY <2>2, <2>3, <2>4, <2>5, <2>6
  <1> QED
    BY <1>10, <1>11

\* A cancellation marks a Running workflow, in the tier its call has reached.
LEMMA CancelKeepsOrder ==
  ASSUME OrderIInv, ExecutorIInv', NEW w \in Workflows, CancelNow(w)
  PROVE  OrderIInv'
  <1> USE DEF OrderIInv, ExecutorIInv, WTypeOK
  <1>1. /\ UNCHANGED <<dag, workflowOf, pc, tier, todo, step, done, compensated, triggered>>
        /\ status[w] \notin Terminal /\ status' = [status EXCEPT ![w] = "CANCELED"]
        /\ cancelledAt' = [cancelledAt EXCEPT ![w] = Reached(w)]
    BY DEF CancelNow, SetStatus, input, calls
  <1>2. status[w] # "Failed" /\ status'[w] = "CANCELED" /\ cancelledAt'[w] = Reached(w)
    BY <1>1 DEF Terminal
  <1>3. \A v \in Workflows : v # w => SameWorkflow(v)
    BY <1>1 DEF SameWorkflow
  <1>4. \A d \in Calls : SameCall(d)
    BY <1>1 DEF SameCall
  <1>5. ASSUME NEW v \in Workflows PROVE WorkflowOK(v)'
    <2>1. CASE v = w
      BY <1>1, <1>2, <2>1 DEF WorkflowOK, NodesFit, Depends
    <2>2. CASE v # w
      BY <1>1, <1>3, <2>2, SameWorkflowOK
    <2> QED
      BY <2>1, <2>2
  <1>6. ASSUME NEW d \in Calls PROVE CallOK(d)'
    <2>1. CASE workflowOf[d] # w
      BY <1>1, <1>3, <1>4, <2>1, SameCallOK
    <2>2. CASE workflowOf[d] = w
      <3>1. TiersFit(d)' <=> TiersFit(d)
        BY <1>1 DEF TiersFit, Tiers
      <3>2. tier[d] <= Reached(w)
        BY <2>2, ReachedBounds
      <3>3. CancelFits(d)'
        BY <1>1, <1>2, <2>2, <3>2 DEF CancelFits
      <3>4. /\ (Executing(d)' <=> Executing(d)) /\ (Underway(d)' <=> Underway(d)) /\ Len(Tiers)' = Len(Tiers)
            /\ pc[d] # "compensating"
        BY <1>1, <1>2, <2>2 DEF Executing, Underway, Tiers, CallOK
      <3> QED
        BY <1>1, <1>2, <2>2, <3>1, <3>3, <3>4 DEF CallOK
    <2> QED
      BY <2>1, <2>2
  <1> QED
    BY <1>5, <1>6

\* A restart forgets every workflow.
LEMMA CrashKeepsOrder ==
  ASSUME OrderIInv, ExecutorIInv', Crash
  PROVE  OrderIInv'
  <1>1. \A w \in Workflows : step'[w] = Idle /\ done'[w] = <<>> /\ compensated'[w] = <<>> /\ status'[w] = None
    BY DEF Crash
  <1>2. ASSUME NEW w \in Workflows PROVE WorkflowOK(w)'
    <2>1. \A n \in Node : step'[w][n] = "idle"
      BY <1>1 DEF Idle
    <2>2. ToSet(done'[w]) = {} /\ IsInjective(done'[w])
      BY <1>1 DEF ToSet, IsInjective
    <2>3. NodesFit(w)'
      BY <2>1, <2>2 DEF NodesFit
    <2>4. Depends(w)'
      <3>1. dag' \in Dags
        BY DEF ExecutorIInv, WTypeOK
      <3>2. \A e \in dag'.deps \cup dag'.edges : e[2] \in Node
        BY <3>1, WorkflowAssumption
      <3> QED
        BY <2>1, <3>2 DEF Depends
    <2> QED
      BY <1>1, <2>3, <2>4 DEF WorkflowOK, None
  <1>3. ASSUME NEW d \in Calls PROVE CallOK(d)'
    <2>1. pc'[d] \in {"idle", "done"}
      BY DEF Crash
    <2> QED
      BY <2>1 DEF CallOK, Executing, Underway
  <1> QED
    BY <1>2, <1>3 DEF OrderIInv

\* initialize brings back workflows that nobody executes.
LEMMA InitializeKeepsOrder ==
  ASSUME OrderIInv, ExecutorIInv', Initialize
  PROVE  OrderIInv'
  <1> USE DEF OrderIInv, ExecutorIInv
  <1>1. /\ life = "restarted" /\ UNCHANGED <<dag, pc, step, done, compensated>>
        /\ \A w \in Workflows : status'[w] = None \/ (status'[w] = saved[w] /\ Restorable(w))
    BY DEF Initialize, input, calls
  <1>2. ASSUME NEW w \in Workflows PROVE WorkflowOK(w)'
    <2>1. status'[w] # "Completed" /\ compensated[w] = <<>>
      BY <1>1 DEF Restorable, RestartIsClean, None
    <2> QED
      BY <1>1, <2>1 DEF WorkflowOK, NodesFit, Depends
  <1>3. ASSUME NEW d \in Calls PROVE CallOK(d)'
    <2>1. pc'[d] \in {"idle", "done"}
      BY <1>1 DEF RestartIsClean
    <2> QED
      BY <2>1 DEF CallOK, Executing, Underway
  <1> QED
    BY <1>2, <1>3

\* The steps of a call that does not execute a workflow, or stops to.
LEMMA OutsideKeepsOrder ==
  ASSUME OrderIInv, ExecutorIInv', NEW c \in Calls, Submit(c) \/ Refuse(c) \/ TierThrows(c) \/ Close(c)
  PROVE  OrderIInv'
  <1> USE DEF OrderIInv, ExecutorIInv, WTypeOK
  <1>1. UNCHANGED <<dag, workflowOf, todo, status, step, done, compensated, triggered, cancelledAt>>
    BY DEF Submit, Refuse, TierThrows, Close, input, memory
  <1>2. /\ pc' = [pc EXCEPT ![c] = "done"] \/ pc' = [pc EXCEPT ![c] = "validating"]
        /\ tier' = tier \/ tier' = [tier EXCEPT ![c] = 0]
    BY DEF Submit, Refuse, TierThrows, Close, Return, MoveTo
  <1>3. ~Executing(c)'
    BY <1>2 DEF Executing
  <1>4. \A d \in Calls : d # c => SameCall(d)
    BY <1>1, <1>2 DEF SameCall
  <1>5. \A v \in Workflows : SameWorkflow(v)
    BY <1>1 DEF SameWorkflow
  <1> QED
    BY <1>1, <1>3, <1>4, <1>5, LeaveStep

LEMMA OrderNext == ASSUME ParserIsSound, OrderIInv, [Next]_vars PROVE OrderIInv'
  <1>1. ExecutorIInv'
    BY ExecutorNext DEF OrderIInv
  <1>2. ASSUME NEW c \in Calls, CallStep(c) PROVE OrderIInv'
    <2>1. CASE Submit(c) \/ Refuse(c) \/ TierThrows(c) \/ Close(c)
      BY <1>1, <2>1, OutsideKeepsOrder
    <2>2. CASE Admit(c)
      BY <1>1, <2>2, AdmitKeepsOrder
    <2>3. CASE Opened(c) \/ CheckTier(c)
      BY <1>1, <2>3, OpenedKeepsOrder
    <2>4. CASE StopTier(c) \/ LoseLease(c) \/ Complete(c)
      BY <1>1, <2>4, EndKeepsOrder
    <2>5. CASE StartTier(c)
      BY <1>1, <2>5, StartKeepsOrder
    <2>6. CASE TierSucceeds(c)
      BY <1>1, <2>6, TierKeepsOrder
    <2>7. CASE TierFails(c)
      BY <1>1, <2>7, FailKeepsOrder
    <2>8. CASE Compensate(c)
      BY <1>1, <2>8, CompensateKeepsOrder
    <2>9. CASE Compensated(c)
      BY <1>1, <2>9, CompensatedKeepsOrder
    <2> QED
      BY <1>2, <2>1, <2>2, <2>3, <2>4, <2>5, <2>6, <2>7, <2>8, <2>9 DEF CallStep
  <1>3. ASSUME NEW w \in Workflows, NEW n \in Node, NodeStep(w, n) PROVE OrderIInv'
    BY <1>1, <1>3, NodeKeepsOrder
  <1>4. ASSUME NEW w \in Workflows, CancelNow(w) PROVE OrderIInv'
    BY <1>1, <1>4, CancelKeepsOrder
  <1>5. ASSUME UNCHANGED <<input, calls, status, step, done, compensated, triggered, cancelledAt>> PROVE OrderIInv'
    <2>1. UNCHANGED <<dag, workflowOf, pc, tier, todo, status, step, done, compensated, triggered, cancelledAt>>
      BY <1>5 DEF input, calls
    <2>2. (\A d \in Calls : SameCall(d)) /\ (\A v \in Workflows : SameWorkflow(v))
      BY <2>1 DEF SameCall, SameWorkflow
    <2> QED
      BY <1>1, <2>1, <2>2, LeaveStep
  <1>6. ASSUME NEW w \in Workflows, CancelSaved(w) \/ Lapse(w) PROVE OrderIInv'
    BY <1>5, <1>6 DEF CancelSaved, Lapse, memory
  <1>7. CASE Shutdown \/ UNCHANGED vars
    BY <1>5, <1>7 DEF Shutdown, vars, memory
  <1>8. CASE Crash
    BY <1>1, <1>8, CrashKeepsOrder
  <1>9. CASE Initialize
    BY <1>1, <1>9, InitializeKeepsOrder
  <1> QED
    BY <1>2, <1>3, <1>4, <1>6, <1>7, <1>8, <1>9 DEF Next, CancelWorkflow, Maintain

LEMMA OrderInit == Init => OrderIInv
  <1> SUFFICES ASSUME Init PROVE OrderIInv
    OBVIOUS
  <1>1. ExecutorIInv
    BY ExecutorInit
  <1>2. ASSUME NEW w \in Workflows PROVE WorkflowOK(w)
    <2>1. (\A n \in Node : step[w][n] = "idle") /\ done[w] = <<>> /\ compensated[w] = <<>> /\ status[w] = None
      BY DEF Init, Idle
    <2>2. ToSet(done[w]) = {} /\ IsInjective(done[w])
      BY <2>1 DEF ToSet, IsInjective
    <2>3. NodesFit(w)
      BY <2>1, <2>2 DEF NodesFit
    <2>4. Depends(w)
      <3>1. \A e \in dag.deps \cup dag.edges : e[2] \in Node
        BY <1>1, WorkflowAssumption DEF ExecutorIInv, WTypeOK
      <3> QED
        BY <2>1, <3>1 DEF Depends
    <2> QED
      BY <2>1, <2>3, <2>4 DEF WorkflowOK, None
  <1>3. ASSUME NEW d \in Calls PROVE CallOK(d)
    <2>1. pc[d] = "idle"
      BY DEF Init
    <2> QED
      BY <2>1, IdleCallOK DEF Executing
  <1> QED
    BY <1>1, <1>2, <1>3 DEF OrderIInv

LEMMA OrderImplies == OrderIInv => TiersInOrder
  <1> SUFFICES ASSUME OrderIInv PROVE TiersInOrder
    OBVIOUS
  <1>1. DependencyOrder
    BY DEF OrderIInv, WorkflowOK, Depends, DependencyOrder
  <1>2. CancelStopsTiers
    BY DEF OrderIInv, CallOK, Underway, CancelFits, CancelStopsTiers
  <1>3. FailureIsCompensated
    BY DEF OrderIInv, CallOK, WorkflowOK, FailureIsCompensated
  <1> QED
    BY <1>1, <1>2, <1>3 DEF TiersInOrder

(***************************************************************************)
(* With a parser that orders the graphs it accepts, no node of a workflow  *)
(* starts before all it depends on have succeeded, a cancelled workflow    *)
(* starts no further tier, and a failed one is undone last node first,     *)
(* whatever the nodes, cancellations, expiries and restarts do in between  *)
(* (executeDAGTiers and executeCompensation, workflow-engine.ts).          *)
(***************************************************************************)
THEOREM TiersAlwaysInOrder == ASSUME ParserIsSound PROVE Spec => []TiersInOrder
  <1>1. OrderIInv /\ [Next]_vars => OrderIInv'
    BY OrderNext
  <1> QED
    BY <1>1, OrderInit, OrderImplies, PTL DEF Spec
=============================================================================
