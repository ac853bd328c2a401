----------------------------- MODULE ApprovalHost -----------------------------
(***************************************************************************)
(* The human-approval authority of the desktop agent                       *)
(* (apps/desktop-agent/src/ui/approval-host.ts): prompts with a time to    *)
(* live, the executor that waits for the decision, the users who submit    *)
(* one, and the cancellation, abort and shutdown that race with them.      *)
(*                                                                         *)
(* submitDecision is suspended once, while the lease is validated again;   *)
(* everything else runs without interruption.  Submissions with a foreign  *)
(* tenant or a wrong nonce throw and change nothing.                       *)
(***************************************************************************)
EXTENDS Naturals

CONSTANTS Prompts,     \* prompt identifiers, one presentation each
          Submitters   \* callers of submitDecision (tray, dashboard)

VARIABLES prompt,      \* state of each ApprovalPromptItem
          timers,      \* prompts with an armed expiry timer
          past,        \* prompts whose expiresAt has passed
          wait,        \* what the executor's waitForDecision promise holds
          resolving,   \* resolvingPrompts
          submission,  \* the submitDecision call each submitter has suspended
          accepted     \* per prompt, submissions that were answered with success

hostVars == <<prompt, timers, past, wait, resolving, submission, accepted>>

PromptStates == {"ABSENT", "PENDING", "APPROVED", "DENIED", "EXPIRED", "CANCELLED"}
Answers == {"APPROVED", "DENIED", "EXPIRED", "rejected"}
Idle == [prompt |-> "none", decision |-> "none"]

HostInit ==
  /\ prompt = [p \in Prompts |-> "ABSENT"]
  /\ timers = {}
  /\ past = {}
  /\ wait = [p \in Prompts |-> "none"]
  /\ resolving = {}
  /\ submission = [s \in Submitters |-> Idle]
  /\ accepted = [p \in Prompts |-> 0]

\* Answer the executor's promise, if it is waiting.
Answered(p, answer) == [wait EXCEPT ![p] = IF @ = "waiting" THEN answer ELSE @]

\* presentPrompt, once its lease check has passed.
PresentPrompt(p) ==
  /\ prompt[p] = "ABSENT"
  /\ prompt' = [prompt EXCEPT ![p] = "PENDING"]
  /\ timers' = timers \cup {p}
  /\ UNCHANGED <<past, wait, resolving, submission, accepted>>

\* The abort listeners of the executors in abort run, and cancelPrompt is called
\* for the prompts in cancel: what is pending is cancelled, its timer cleared.
\* An aborted executor is rejected even when its prompt is no longer pending.
Stop(abort, cancel) ==
  LET open == {p \in abort \cup cancel : prompt[p] = "PENDING"} IN
  /\ prompt' = [p \in Prompts |-> IF p \in open THEN "CANCELLED" ELSE prompt[p]]
  /\ timers' = timers \ open
  /\ wait' = [p \in Prompts |->
                IF wait[p] = "waiting" /\ p \in abort \cup open THEN "rejected" ELSE wait[p]]
  /\ UNCHANGED <<past, resolving, submission, accepted>>

CancelPrompt(p) == prompt[p] = "PENDING" /\ Stop({}, {p})

\* The listener exists while the executor waits.
AbortWait(p) == wait[p] = "waiting" /\ Stop({p}, {})

\* waitForDecision: at once when the prompt is decided or the signal aborted,
\* otherwise the executor is registered as the waiter.
WaitForDecision(p, aborted) ==
  /\ prompt[p] # "ABSENT" /\ wait[p] = "none"
  /\ \/ /\ prompt[p] \in {"APPROVED", "DENIED", "EXPIRED"}
        /\ wait' = [wait EXCEPT ![p] = prompt[p]]
        /\ UNCHANGED <<prompt, timers>>
     \/ /\ prompt[p] = "CANCELLED"
        /\ wait' = [wait EXCEPT ![p] = "rejected"]
        /\ UNCHANGED <<prompt, timers>>
     \/ /\ prompt[p] = "PENDING" /\ aborted
        /\ prompt' = [prompt EXCEPT ![p] = "CANCELLED"]
        /\ timers' = timers \ {p}
        /\ wait' = [wait EXCEPT ![p] = "rejected"]
     \/ /\ prompt[p] = "PENDING" /\ ~aborted
        /\ wait' = [wait EXCEPT ![p] = "waiting"]
        /\ UNCHANGED <<prompt, timers>>
  /\ UNCHANGED <<past, resolving, submission, accepted>>

\* The clock passes expiresAt.
TtlPasses(p) ==
  /\ prompt[p] # "ABSENT" /\ p \notin past
  /\ past' = past \cup {p}
  /\ UNCHANGED <<prompt, timers, wait, resolving, submission, accepted>>

\* performAutoExpire, when the timer fires.
AutoExpire(p) ==
  /\ p \in timers \cap past
  /\ timers' = timers \ {p}
  /\ IF prompt[p] = "PENDING"
       THEN /\ prompt' = [prompt EXCEPT ![p] = "EXPIRED"]
            /\ wait' = Answered(p, "EXPIRED")
       ELSE UNCHANGED <<prompt, wait>>
  /\ UNCHANGED <<past, resolving, submission, accepted>>

\* submitDecision finds the time to live already over: EXPIRED, and it throws.
SubmitTooLate(p) ==
  /\ prompt[p] = "PENDING" /\ p \notin resolving /\ p \in past
  /\ timers' = timers \ {p}
  /\ prompt' = [prompt EXCEPT ![p] = "EXPIRED"]
  /\ wait' = Answered(p, "EXPIRED")
  /\ UNCHANGED <<past, resolving, submission, accepted>>

\* submitDecision up to its await: the timer is cleared, the lease is checked.
SubmitDecision(s, p, decision) ==
  /\ submission[s] = Idle
  /\ prompt[p] = "PENDING" /\ p \notin resolving /\ p \notin past
  /\ resolving' = resolving \cup {p}
  /\ timers' = timers \ {p}
  /\ submission' = [submission EXCEPT ![s] = [prompt |-> p, decision |-> decision]]
  /\ UNCHANGED <<prompt, past, wait, accepted>>

\* A plausible slip: the caller is told APPROVED, whatever the user decided.
DecisionSettlesMutant(s) ==
  LET p == submission[s].prompt IN
  /\ submission[s] # Idle
  /\ prompt' = [prompt EXCEPT ![p] = submission[s].decision]
  /\ wait' = Answered(p, "APPROVED")
  /\ accepted' = [accepted EXCEPT ![p] = @ + 1]
  /\ resolving' = resolving \ {p}
  /\ submission' = [submission EXCEPT ![s] = Idle]
  /\ UNCHANGED <<timers, past>>

\* The lease is still valid: the decision is stored, without looking at the
\* state again, and the waiter is answered.
DecisionSettles(s) ==
  LET p == submission[s].prompt IN
  /\ submission[s] # Idle
  /\ prompt' = [prompt EXCEPT ![p] = submission[s].decision]
  /\ wait' = Answered(p, submission[s].decision)
  /\ accepted' = [accepted EXCEPT ![p] = @ + 1]
  /\ resolving' = resolving \ {p}
  /\ submission' = [submission EXCEPT ![s] = Idle]
  /\ UNCHANGED <<timers, past>>

\* The lease is no longer valid: DENIED, and the call throws before it comes to
\* the waiter.
DecisionRefused(s) ==
  LET p == submission[s].prompt IN
  /\ submission[s] # Idle
  /\ prompt' = [prompt EXCEPT ![p] = "DENIED"]
  /\ resolving' = resolving \ {p}
  /\ submission' = [submission EXCEPT ![s] = Idle]
  /\ UNCHANGED <<timers, past, wait, accepted>>

\* shutdown: timers cleared, waiters rejected, pending prompts cancelled.
Shutdown ==
  /\ timers' = {}
  /\ wait' = [p \in Prompts |-> IF wait[p] = "waiting" THEN "rejected" ELSE wait[p]]
  /\ prompt' = [p \in Prompts |-> IF prompt[p] = "PENDING" THEN "CANCELLED" ELSE prompt[p]]
  /\ UNCHANGED <<past, resolving, submission, accepted>>

----------------------------------------------------------------------------
\* What the host and its users do on their own.
UserStep ==
  \/ \E p \in Prompts : TtlPasses(p) \/ AutoExpire(p) \/ SubmitTooLate(p)
  \/ \E s \in Submitters, p \in Prompts, d \in {"APPROVED", "DENIED"} : SubmitDecision(s, p, d)
  \/ \E s \in Submitters : DecisionSettles(s) \/ DecisionRefused(s)
  \/ Shutdown

HostNext ==
  \/ UserStep
  \/ \E p \in Prompts :
       \/ PresentPrompt(p) \/ CancelPrompt(p) \/ AbortWait(p)
       \/ \E aborted \in BOOLEAN : WaitForDecision(p, aborted)

HostSpec == HostInit /\ [][HostNext]_hostVars

\* Time passes, timers fire and lease validations end; nobody has to answer,
\* cancel or abort.
HostFairness ==
  /\ \A p \in Prompts : WF_hostVars(TtlPasses(p)) /\ WF_hostVars(AutoExpire(p))
  /\ \A s \in Submitters : WF_hostVars(DecisionSettles(s) \/ DecisionRefused(s))

HostFairSpec == HostSpec /\ HostFairness

----------------------------------------------------------------------------
HostTypeOK ==
  /\ prompt \in [Prompts -> PromptStates]
  /\ timers \subseteq Prompts
  /\ past \subseteq Prompts
  /\ wait \in [Prompts -> {"none", "waiting"} \cup Answers]
  /\ resolving \subseteq Prompts
  /\ submission \in [Submitters ->
       {Idle} \cup [prompt : Prompts, decision : {"APPROVED", "DENIED"}]]
  /\ accepted \in [Prompts -> Nat]

\* Two users, or one user clicking twice, never both get a decision accepted for
\* the same prompt, however their calls overlap with expiry and cancellation.
AcceptedOnce == \A p \in Prompts : accepted[p] <= 1

\* The executor proceeds (APPROVED) only on a submission that was accepted, and
\* the stored prompt then says so too.
ApprovalIsBacked ==
  \A p \in Prompts :
    wait[p] = "APPROVED" => prompt[p] = "APPROVED" /\ accepted[p] = 1

\* A pending prompt can always still end: its timer is armed, or a submission is
\* under way.  No path clears the timer and forgets the prompt.
PendingCanEnd ==
  \A p \in Prompts : prompt[p] = "PENDING" =>
    \/ p \in timers /\ p \notin resolving
    \/ p \notin timers /\ \E s \in Submitters : submission[s].prompt = p

\* submitDecision across its await: decisions, expiry and cancellation race, and
\* still one decision is accepted, it backs what the executor was told, and no
\* prompt is left pending with nothing to end it.
DecisionsAreSound == AcceptedOnce /\ ApprovalIsBacked /\ PendingCanEnd

\* The bookkeeping behind them: a prompt is resolving exactly while one
\* suspended submission is for it.
ResolvingIsExact ==
  /\ \A p \in Prompts : p \in resolving <=> \E s \in Submitters : submission[s].prompt = p
  /\ \A s1, s2 \in Submitters :
       submission[s1] # Idle /\ submission[s1].prompt = submission[s2].prompt => s1 = s2

\* Every prompt that is presented is decided, expires or is cancelled.
PromptEnds == \A p \in Prompts : prompt[p] = "PENDING" ~> prompt[p] # "PENDING"

\* approval-host.ts: "state must be PENDING" for a decision, an "Atomic state
\* transition": a prompt that was decided, expired or cancelled stays so.
DecidedIsFinal ==
  [][\A p \in Prompts :
       prompt[p] \notin {"ABSENT", "PENDING"} => prompt'[p] = prompt[p]]_hostVars

\* approval-host.ts on waitForDecision: "Resolves when approved, denied, or
\* auto-expired. Rejects if cancelled, aborted, or shut down."
WaiterIsAnswered == \A p \in Prompts : wait[p] = "waiting" ~> wait[p] \in Answers
=============================================================================
