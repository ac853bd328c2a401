---------------------------- MODULE RuntimeProofs ----------------------------
(***************************************************************************)
(* Proofs about the runtimes of the desktop agent, the local models among  *)
(* them, and about the scheduler that feeds them, each for every value of  *)
(* its constants: every set of calls, tasks, plugins, sessions, texts and  *)
(* models and every limit.  They share no variable, so that each has an    *)
(* inductive invariant of its own.                                         *)
(***************************************************************************)
EXTENDS PluginRuntime, TerminalRuntime, BrowserRuntime, FileRuntime, ClipboardRuntime,
        TaskScheduler, LocalAi, SeqSelectionProofs, FiniteSetTheorems, TLAPS

-----------------------------------------------------------------------------
(* The plugin runtime.                                                     *)

PluginStates == {"UNREGISTERED", "INSTALLED", "ACTIVATED", "SUSPENDED", "QUARANTINED"}

\* A call that awaits its lease names a plugin.
PluginTypeOK ==
  /\ catalog \in [Plugins -> [state : PluginStates, requested : SUBSET Capabilities]]
  /\ quarantined \subseteq Plugins
  /\ activeHostsCount = 0
  /\ pluginCall \in [PluginCalls ->
       [phase : {"idle", "leasing", "over"}, op : PluginOps \cup {"none"},
        plugin : Plugins \cup {"none"}, granted : SUBSET (PluginOps \cup Capabilities)]]
  /\ \A c \in PluginCalls : pluginCall[c].phase = "leasing" => pluginCall[c].plugin \in Plugins

PluginIInv == PluginTypeOK /\ QuarantineHolds

\* Whatever comes back from a lease, a call is over with it.
LEMMA PluginAnswerStep ==
  ASSUME PluginTypeOK, NEW c \in PluginCalls, PluginAnswered(c)
  PROVE  /\ pluginCall' \in [PluginCalls ->
              [phase : {"idle", "leasing", "over"}, op : PluginOps \cup {"none"},
               plugin : Plugins \cup {"none"}, granted : SUBSET (PluginOps \cup Capabilities)]]
         /\ \A d \in PluginCalls : pluginCall'[d].phase = "leasing" => pluginCall'[d].plugin \in Plugins
  BY DEF PluginTypeOK, PluginAnswered, NoPluginCall

\* setPluginState leaves the state of a plugin or replaces it by the one asked for.
LEMMA SetPluginStateStep ==
  ASSUME PluginTypeOK, NEW p \in Plugins, NEW s \in PluginStates, SetPluginState(p, s)
  PROVE  /\ catalog' \in [Plugins -> [state : PluginStates, requested : SUBSET Capabilities]]
         /\ \A q \in Plugins : catalog'[q].state = catalog[q].state \/ (q = p /\ catalog'[q].state = s)
         /\ catalog'[p].state \in {"UNREGISTERED", "QUARANTINED", s}
  BY DEF PluginTypeOK, SetPluginState

\* Every operation leaves a plugin of the quarantine store out of use.
LEMMA PluginStep == PluginIInv /\ [PluginNext]_pluginVars => PluginIInv'
  <1> SUFFICES ASSUME PluginIInv, [PluginNext]_pluginVars
               PROVE  PluginIInv'
    OBVIOUS
  <1> USE DEF PluginIInv
  <1>1. ASSUME NEW c \in PluginCalls, NEW op \in PluginOps, NEW p \in Plugins,
               NEW scope \in {op, "invoke"} \cup Capabilities, AskPlugin(c, op, p, {scope})
        PROVE  PluginIInv'
    <2>1. {scope} \in SUBSET (PluginOps \cup Capabilities)
      BY DEF PluginOps
    <2> QED
      BY <1>1, <2>1 DEF AskPlugin, UnchangedStores, PluginTypeOK, QuarantineHolds
  <1>2. ASSUME NEW c \in PluginCalls, PluginAnswered(c), UnchangedStores
        PROVE  PluginIInv'
    BY <1>2, PluginAnswerStep DEF UnchangedStores, PluginTypeOK, QuarantineHolds
  <1>3. ASSUME NEW c \in PluginCalls, NEW pkg \in Packages, InstallPlugin(c, pkg)
        PROVE  PluginIInv'
    <2>1. pluginCall[c].plugin \in Plugins \ quarantined /\ pkg.requested \in SUBSET Capabilities
      BY <1>3 DEF InstallPlugin, Runs, PluginTypeOK, Packages
    <2> QED
      BY <1>3, <2>1, PluginAnswerStep
      DEF InstallPlugin, RegisterPackage, PluginTypeOK, QuarantineHolds, PluginStates
  <1>4. ASSUME NEW c \in PluginCalls, ActivatePlugin(c) PROVE PluginIInv'
    <2>1. pluginCall[c].plugin \in Plugins \ quarantined
      BY <1>4 DEF ActivatePlugin, Runs, PluginTypeOK
    <2>2. /\ catalog' \in [Plugins -> [state : PluginStates, requested : SUBSET Capabilities]]
          /\ \A q \in Plugins : \/ catalog'[q].state = catalog[q].state
                                \/ q = pluginCall[c].plugin /\ catalog'[q].state = "ACTIVATED"
      BY <1>4, <2>1, SetPluginStateStep DEF ActivatePlugin, PluginStates
    <2> QED
      BY <1>4, <2>1, <2>2, PluginAnswerStep DEF ActivatePlugin, PluginTypeOK, QuarantineHolds
  <1>5. ASSUME NEW c \in PluginCalls, SuspendPlugin(c) PROVE PluginIInv'
    <2>1. pluginCall[c].plugin \in Plugins
      BY <1>5 DEF SuspendPlugin, Runs, PluginTypeOK
    <2>2. /\ catalog' \in [Plugins -> [state : PluginStates, requested : SUBSET Capabilities]]
          /\ \A q \in Plugins : \/ catalog'[q].state = catalog[q].state
                                \/ q = pluginCall[c].plugin /\ catalog'[q].state = "SUSPENDED"
      BY <1>5, <2>1, SetPluginStateStep DEF SuspendPlugin, PluginStates
    <2> QED
      BY <1>5, <2>1, <2>2, PluginAnswerStep DEF SuspendPlugin, PluginTypeOK, QuarantineHolds
  <1>6. ASSUME NEW c \in PluginCalls, QuarantinePlugin(c) PROVE PluginIInv'
    <2>1. pluginCall[c].plugin \in Plugins
      BY <1>6 DEF QuarantinePlugin, Runs, PluginTypeOK
    <2>2. /\ catalog' \in [Plugins -> [state : PluginStates, requested : SUBSET Capabilities]]
          /\ \A q \in Plugins : \/ catalog'[q].state = catalog[q].state
                                \/ q = pluginCall[c].plugin /\ catalog'[q].state = "QUARANTINED"
          /\ catalog'[pluginCall[c].plugin].state \in {"UNREGISTERED", "QUARANTINED"}
      BY <1>6, <2>1, SetPluginStateStep DEF QuarantinePlugin, PluginStates
    <2> QED
      BY <1>6, <2>1, <2>2, PluginAnswerStep DEF QuarantinePlugin, PluginTypeOK, QuarantineHolds
  <1>7. ASSUME NEW p \in Plugins, LiftQuarantine(p) PROVE PluginIInv'
    BY <1>7 DEF LiftQuarantine, PluginTypeOK, QuarantineHolds
  <1>8. ASSUME NEW p \in Plugins, RemoveEntry(p) PROVE PluginIInv'
    BY <1>8 DEF RemoveEntry, NoEntry, PluginTypeOK, QuarantineHolds, PluginStates
  <1>9. CASE UNCHANGED pluginVars
    BY <1>9 DEF pluginVars, PluginTypeOK, QuarantineHolds
  <1> QED
    BY <1>1, <1>2, <1>3, <1>4, <1>5, <1>6, <1>7, <1>8, <1>9
    DEF PluginNext, DenyPlugin, VerifyPluginPackage, InvokePlugin, UnchangedStores

\* A plugin in the quarantine store is not in use, although installs and
\* activations that were asked for before the quarantine still come back.
THEOREM QuarantineAlwaysHolds == PluginSpec => []QuarantineHolds
  <1>1. PluginInit => PluginIInv
    BY DEF PluginInit, PluginIInv, PluginTypeOK, QuarantineHolds, NoEntry, NoPluginCall, PluginStates
  <1> QED
    BY <1>1, PluginStep, PTL DEF PluginSpec, PluginIInv

-----------------------------------------------------------------------------
(* The terminal runtime.                                                   *)

TermTypeOK ==
  /\ termCall \in [Commands -> {"idle", "leasing", "waiting", "over"}]
  /\ termResult = [c \in Commands |-> termResult[c]]
  /\ child \in [Commands -> {"none", "alive", "exited", "failed"}]
  /\ status \in [Commands -> {"none", "RUNNING", "TIMED_OUT", "EXITED", "KILLED"}]
  /\ activeProcesses \subseteq Commands /\ deadline \subseteq Commands
  /\ emitted \in [Commands -> [Streams -> Nat]] /\ kept \in [Commands -> [Streams -> Nat]]

\* A living child has a call that waits for it, or one that was told that it
\* cannot be killed; an entry of the table is of a call that waits, and nobody
\* has ended or killed it.
TermTracked ==
  /\ \A c \in Commands :
       child[c] = "alive" =>
         \/ /\ termCall[c] = "waiting"
            /\ (c \in activeProcesses /\ c \in deadline) \/ c \in signalled
         \/ c \in unkillable /\ termCall[c] = "over" /\ termResult[c] = "error"
  /\ \A c \in activeProcesses : termCall[c] = "waiting" /\ status[c] \in {"RUNNING", "TIMED_OUT"}

\* What the buffers hold.
TermOutput ==
  /\ \A c \in Commands, s \in Streams :
       kept[c][s] = IF emitted[c][s] > MaxOutputSize THEN MaxOutputSize ELSE emitted[c][s]
  /\ truncated = {c \in Commands : \E s \in Streams : emitted[c][s] > MaxOutputSize}

TermIInv == TermTypeOK /\ TermTracked /\ TermOutput

\* A chunk fills the buffer up to its limit and is flagged when it does not fit.
LEMMA DataStep ==
  ASSUME TermIInv, NEW c \in Commands, NEW s \in Streams, NEW n \in ChunkSizes, Data(c, s, n)
  PROVE  TermIInv'
  <1> USE TerminalAssumption
  <1>1. n \in Nat \ {0} /\ emitted[c][s] \in Nat /\ kept[c][s] \in Nat
    BY DEF ChunkSizes, TermIInv, TermTypeOK
  <1>2. emitted' \in [Commands -> [Streams -> Nat]] /\ kept' \in [Commands -> [Streams -> Nat]]
    <2>1. [emitted[c] EXCEPT ![s] = @ + n] \in [Streams -> Nat]
      BY <1>1 DEF TermIInv, TermTypeOK
    <2>2. [kept[c] EXCEPT ![s] = @ + n] \in [Streams -> Nat] /\ [kept[c] EXCEPT ![s] = MaxOutputSize] \in [Streams -> Nat]
      BY <1>1 DEF TermIInv, TermTypeOK
    <2> QED
      BY <2>1, <2>2 DEF Data, Keep, TermIInv, TermTypeOK
  <1>3. /\ emitted'[c][s] = emitted[c][s] + n
        /\ \A d \in Commands, t \in Streams : <<d, t>> # <<c, s>> =>
             emitted'[d][t] = emitted[d][t] /\ kept'[d][t] = kept[d][t]
    BY <1>1 DEF Data, Keep, TermIInv, TermTypeOK
  <1>4. kept'[c][s] = IF emitted'[c][s] > MaxOutputSize THEN MaxOutputSize ELSE emitted'[c][s]
    BY <1>1, <1>3 DEF Data, Keep, TermIInv, TermTypeOK, TermOutput
  <1>5. truncated' = IF emitted'[c][s] > MaxOutputSize THEN truncated \cup {c} ELSE truncated
    BY <1>1, <1>3 DEF Data, Keep, TermIInv, TermTypeOK, TermOutput
  <1>6. TermOutput'
    <2>1. \A d \in Commands, t \in Streams :
            kept'[d][t] = IF emitted'[d][t] > MaxOutputSize THEN MaxOutputSize ELSE emitted'[d][t]
      BY <1>3, <1>4 DEF TermIInv, TermOutput
    <2>2. ASSUME NEW d \in Commands
          PROVE  d \in truncated' <=> \E t \in Streams : emitted'[d][t] > MaxOutputSize
      <3>1. CASE d # c
        BY <3>1, <1>3, <1>5 DEF TermIInv, TermOutput
      <3>2. CASE d = c
        <4>1. CASE emitted'[c][s] > MaxOutputSize
          BY <3>2, <4>1, <1>5
        <4>2. CASE ~(emitted'[c][s] > MaxOutputSize)
          <5>1. ~(emitted[c][s] > MaxOutputSize)
            BY <4>2, <1>1, <1>3
          <5>2. \A t \in Streams : emitted'[c][t] > MaxOutputSize <=> emitted[c][t] > MaxOutputSize
            BY <4>2, <5>1, <1>3
          <5>3. c \in truncated <=> \E t \in Streams : emitted[c][t] > MaxOutputSize
            BY DEF TermIInv, TermOutput
          <5> QED
            BY <3>2, <4>2, <5>2, <5>3, <1>5
        <4> QED
          BY <4>1, <4>2
      <3> QED
        BY <3>1, <3>2
    <2>3. truncated' \subseteq Commands
      BY <1>5 DEF TermIInv, TermOutput
    <2> QED
      BY <2>1, <2>2, <2>3 DEF TermOutput
  <1> QED
    BY <1>2, <1>6 DEF Data, TermIInv, TermTypeOK, TermTracked

\* Every step of the calls, the children, the timers and the kills.
LEMMA TermStep == TermIInv /\ [TermNext]_termVars => TermIInv'
  <1> SUFFICES ASSUME TermIInv, [TermNext]_termVars
               PROVE  TermIInv'
    OBVIOUS
  <1> USE DEF TermIInv
  <1>1. ASSUME UnchangedOutput, TermTypeOK', TermTracked' PROVE TermIInv'
    BY <1>1 DEF UnchangedOutput, TermOutput
  <1>2. ASSUME NEW c \in Commands,
               ExecuteCommand(c) \/ DenyCommand(c) \/ Spawn(c) \/ SpawnFails(c)
        PROVE  TermIInv'
    <2>1. TermTypeOK' /\ UnchangedOutput
      BY <1>2 DEF TermTypeOK, ExecuteCommand, DenyCommand, BuildDeniedResult, Spawn, SpawnFails, UnchangedOutput
    <2>2. TermTracked'
      BY <1>2 DEF TermTypeOK, TermTracked, ExecuteCommand, DenyCommand, BuildDeniedResult, Spawn, SpawnFails
    <2> QED
      BY <1>1, <2>1, <2>2
  <1>3. ASSUME NEW c \in Commands, Deadline(c) \/ Exit(c) \/ CloseChild(c) PROVE TermIInv'
    <2>1. TermTypeOK' /\ UnchangedOutput
      BY <1>3 DEF TermTypeOK, Deadline, Exit, CloseChild, TerminateChild, UnchangedOutput
    <2>2. CASE Deadline(c)
      <3>1. PICK refused \in SUBSET {c} :
              TerminateChild({c}, refused) /\ activeProcesses' = activeProcesses \ refused
        BY <2>2 DEF Deadline
      <3>2. \A d \in Commands \ {c} : /\ termCall'[d] = termCall[d] /\ termResult'[d] = termResult[d]
                                       /\ (d \in activeProcesses') = (d \in activeProcesses)
                                       /\ (d \in deadline') = (d \in deadline)
        BY <2>2, <3>1 DEF Deadline, TerminateChild
      <3>3. UNCHANGED child /\ signalled \subseteq signalled' /\ unkillable \subseteq unkillable'
        BY <2>2, <3>1 DEF Deadline, TerminateChild
      <3>4. \A d \in activeProcesses' : termCall'[d] = "waiting" /\ status'[d] \in {"RUNNING", "TIMED_OUT"}
        BY <2>2, <3>1 DEF Deadline, TerminateChild, TermTypeOK, TermTracked
      <3>5. child[c] = "alive" =>
              \/ termCall'[c] = "waiting" /\ c \in signalled'
              \/ c \in unkillable' /\ termCall'[c] = "over" /\ termResult'[c] = "error"
        BY <3>1 DEF TerminateChild, Killable, TermTracked
      <3>6. TermTracked'
        BY <3>2, <3>3, <3>4, <3>5 DEF TermTracked
      <3> QED
        BY <1>1, <2>1, <3>6
    <2>3. CASE Exit(c) \/ CloseChild(c)
      <3>1. TermTracked'
        BY <2>3 DEF TermTypeOK, TermTracked, Exit, CloseChild
      <3> QED
        BY <1>1, <2>1, <3>1
    <2> QED
      BY <1>3, <2>2, <2>3
  <1>4. ASSUME NEW c \in Commands, KillProcess(c) \/ KillRefused(c) \/ Kill(c) PROVE TermIInv'
    <2>1. TermTypeOK' /\ UnchangedOutput
      BY <1>4 DEF TermTypeOK, KillProcess, KillRefused, Kill, KillEntries, TerminateChild, UnchangedOutput
    <2>2. TermTracked'
      BY <1>4 DEF TermTypeOK, TermTracked, KillProcess, KillRefused, Kill, KillEntries, TerminateChild, Killable
    <2> QED
      BY <1>1, <2>1, <2>2
  <1>5. CASE KillAll
    <2>1. TermTypeOK' /\ UnchangedOutput
      BY <1>5 DEF TermTypeOK, KillAll, KillEntries, TerminateChild, UnchangedOutput
    <2>2. TermTracked'
      BY <1>5 DEF TermTypeOK, TermTracked, KillAll, KillEntries, TerminateChild, Killable
    <2> QED
      BY <1>1, <2>1, <2>2
  <1>6. CASE UNCHANGED termVars
    BY <1>6 DEF termVars, TermTypeOK, TermTracked, TermOutput
  <1> QED
    BY <1>2, <1>3, <1>4, <1>5, <1>6, DataStep DEF TermNext

\* No child of the terminal escapes its supervisor, and its buffers hold
\* exactly what fits, in whatever order ends, deadlines and kills come.
THEOREM ChildrenAlwaysSupervised == TermSpec => []ChildrenSupervised
  <1>1. TermInit => TermIInv
    BY TerminalAssumption DEF TermInit, TermIInv, TermTypeOK, TermTracked, TermOutput
  <1>2. TermIInv => ChildrenSupervised
    BY DEF TermIInv, TermTracked, TermOutput, ChildrenSupervised, ListProcesses
  <1> QED
    BY <1>1, <1>2, TermStep, PTL DEF TermSpec

-----------------------------------------------------------------------------
(* The browser runtime.                                                    *)

BrowserCallRecord ==
  [phase : {"idle", "leasing", "over"}, op : Browsing \cup {"create", "none"}, by : Callers \cup {"none"},
   on : BrowserCalls \cup {"none"}, url : Urls \cup {"none"}, allowed : SUBSET DOMAIN Covers,
   limit : Nat, result : {"none", "DENIED", "SUCCESS", "FAILED", "INTERVENTION_REQUIRED"}]

BrowserTypeOK ==
  /\ sessions \subseteq BrowserCalls /\ IsFiniteSet(sessions) /\ undeleted \subseteq BrowserCalls
  /\ ownerOf \in [BrowserCalls -> Callers \cup {"none"}]
  /\ history \in [BrowserCalls -> SUBSET ((Callers \cup {"none"}) \X (Urls \cup {"none"}))]
  /\ limitOf \in [BrowserCalls -> Nat]
  /\ browserCall \in [BrowserCalls -> BrowserCallRecord]

\* Whichever sessions are cleared, those that are left fit under the limit of
\* one of them: the limit is kept by every set of the sessions listed.
LimitsHold == \A T \in SUBSET sessions : T # {} => \E s \in T : Cardinality(T) <= limitOf[s]

\* A session, its profile and its history come from a call that is over, and
\* a navigation that awaits its lease has passed the URL checks.
CallsBehindSessions ==
  \A b \in BrowserCalls :
    /\ browserCall[b].phase # "over" => b \notin sessions \cup undeleted /\ history[b] = {}
    /\ browserCall[b].phase = "leasing" /\ browserCall[b].op = "navigate" => browserCall[b].url \notin Blocked

ProfilesExact == profiles = sessions \cup undeleted /\ sessions \cap undeleted = {}

VisitsAllowed ==
  \A s \in BrowserCalls : \A v \in history[s] :
    SessionTaskOf[v[1]] = SessionTaskOf[ownerOf[s]] /\ v[2] \notin Blocked

BrowserIInv ==
  BrowserTypeOK /\ LimitsHold /\ CallsBehindSessions /\ ProfilesExact /\ VisitsAllowed

\* An answer ends the call and no other.
LEMMA AnswerStep ==
  ASSUME BrowserTypeOK, NEW b \in BrowserCalls, NEW r \in {"DENIED", "SUCCESS", "FAILED", "INTERVENTION_REQUIRED"},
         Answer(b, r)
  PROVE  /\ browserCall' \in [BrowserCalls -> BrowserCallRecord]
         /\ browserCall'[b].phase = "over"
         /\ \A d \in BrowserCalls \ {b} : browserCall'[d] = browserCall[d]
  <1>1. [NoBrowserCall EXCEPT !.phase = "over", !.result = r] \in BrowserCallRecord
    BY DEF NoBrowserCall, BrowserCallRecord
  <1>2. [NoBrowserCall EXCEPT !.phase = "over", !.result = r].phase = "over"
    BY DEF NoBrowserCall
  <1> QED
    BY <1>1, <1>2 DEF Answer, BrowserTypeOK

\* A call that only answers, or that only asks, leaves the sessions alone.
LEMMA AnsweredStep ==
  ASSUME BrowserIInv, NEW b \in BrowserCalls, NEW r \in {"DENIED", "SUCCESS", "FAILED", "INTERVENTION_REQUIRED"},
         Answer(b, r), UNCHANGED <<sessions, ownerOf, history, profiles, undeleted, limitOf>>
  PROVE  BrowserIInv'
  <1>1. BrowserTypeOK' /\ CallsBehindSessions'
    BY AnswerStep DEF BrowserIInv, BrowserTypeOK, CallsBehindSessions
  <1> QED
    BY <1>1 DEF BrowserIInv, LimitsHold, ProfilesExact, VisitsAllowed

\* A call asks for a session or for an operation on one.
LEMMA BrowserAskStep ==
  ASSUME BrowserIInv, NEW b \in BrowserCalls, browserCall[b].phase = "idle",
         NEW c \in BrowserCallRecord, c.op = "navigate" => c.url \notin Blocked, c.phase = "leasing",
         browserCall' = [browserCall EXCEPT ![b] = c],
         UNCHANGED <<sessions, ownerOf, history, profiles, undeleted, limitOf>>
  PROVE  BrowserIInv'
  <1>1. BrowserTypeOK' /\ CallsBehindSessions'
    BY DEF BrowserIInv, BrowserTypeOK, CallsBehindSessions
  <1> QED
    BY <1>1 DEF BrowserIInv, LimitsHold, ProfilesExact, VisitsAllowed

\* A session that is created keeps the limit of its own request, and every
\* set of sessions without it keeps the limit it had.
LEMMA CreateSessionStep ==
  ASSUME BrowserIInv, NEW b \in BrowserCalls, CreateSession(b)
  PROVE  BrowserIInv'
  <1> USE DEF BrowserIInv
  <1>1. /\ browserCall' \in [BrowserCalls -> BrowserCallRecord]
        /\ browserCall'[b].phase = "over"
        /\ \A d \in BrowserCalls \ {b} : browserCall'[d] = browserCall[d]
    BY AnswerStep DEF CreateSession
  <1>2. b \notin sessions /\ b \notin undeleted /\ history[b] = {}
    BY DEF CreateSession, CallsBehindSessions
  <1>3. browserCall[b].limit \in Nat /\ browserCall[b].by \in Callers \cup {"none"}
    BY DEF BrowserTypeOK, BrowserCallRecord
  <1>4. /\ IsFiniteSet(sessions \cup {b})
        /\ Cardinality(sessions \cup {b}) = Cardinality(sessions) + 1
        /\ Cardinality(sessions) \in Nat
    BY <1>2, FS_AddElement, FS_CardinalityType DEF BrowserTypeOK
  <1>5. BrowserTypeOK'
    BY <1>1, <1>3, <1>4 DEF CreateSession, BrowserTypeOK
  <1>6. LimitsHold'
    <2> SUFFICES ASSUME NEW T \in SUBSET (sessions \cup {b}), T # {}
                 PROVE  \E s \in T : Cardinality(T) <= limitOf'[s]
      BY DEF LimitsHold, CreateSession
    <2>1. CASE b \in T
      <3>1. Cardinality(T) \in Nat /\ Cardinality(T) <= Cardinality(sessions \cup {b})
        BY <1>4, FS_Subset, FS_CardinalityType
      <3>2. limitOf'[b] = browserCall[b].limit
        BY DEF CreateSession, BrowserTypeOK
      <3> QED
        BY <1>3, <1>4, <2>1, <3>1, <3>2 DEF CreateSession, BelowLimit
    <2>2. CASE b \notin T
      <3>1. PICK s \in T : Cardinality(T) <= limitOf[s]
        BY <2>2 DEF LimitsHold
      <3>2. limitOf'[s] = limitOf[s]
        BY <2>2 DEF CreateSession, BrowserTypeOK
      <3> QED
        BY <3>1, <3>2
    <2> QED
      BY <2>1, <2>2
  <1>7. CallsBehindSessions'
    BY <1>1 DEF CallsBehindSessions, CreateSession
  <1>8. ProfilesExact'
    BY <1>2 DEF ProfilesExact, CreateSession
  <1>9. VisitsAllowed'
    BY <1>2 DEF VisitsAllowed, CreateSession, BrowserTypeOK
  <1> QED
    BY <1>5, <1>6, <1>7, <1>8, <1>9

\* Clearing sessions takes their profiles, or leaves those that cannot be removed.
LEMMA ClearStep ==
  ASSUME BrowserIInv, NEW S \in SUBSET sessions, Clear(S), UNCHANGED <<ownerOf, history, limitOf>>,
         browserCall' \in [BrowserCalls -> BrowserCallRecord],
         \A d \in BrowserCalls : browserCall'[d] = browserCall[d] \/ browserCall'[d].phase = "over"
  PROVE  BrowserIInv'
  <1> USE DEF BrowserIInv
  <1>1. IsFiniteSet(sessions')
    BY FS_Subset DEF BrowserTypeOK, Clear
  <1>2. PICK stuck \in SUBSET (S \cap profiles) :
          profiles' = profiles \ (S \ stuck) /\ undeleted' = undeleted \cup stuck
    BY DEF Clear
  <1>3. sessions' = sessions \ S
    BY DEF Clear
  <1>4. BrowserTypeOK'
    BY <1>1, <1>2, <1>3 DEF BrowserTypeOK
  <1>5. LimitsHold'
    BY <1>3 DEF LimitsHold
  <1>6. CallsBehindSessions'
    BY <1>2, <1>3 DEF CallsBehindSessions
  <1>7. ProfilesExact'
    BY <1>2, <1>3 DEF ProfilesExact
  <1>8. VisitsAllowed'
    BY DEF VisitsAllowed
  <1> QED
    BY <1>4, <1>5, <1>6, <1>7, <1>8

\* A navigation adds a visit of the task the session belongs to.
LEMMA NavigateStep ==
  ASSUME BrowserIInv, NEW b \in BrowserCalls, Navigate(b)
  PROVE  BrowserIInv'
  <1> USE DEF BrowserIInv
  <1> DEFINE s == browserCall[b].on
             visit == <<browserCall[b].by, browserCall[b].url>>
  <1>1. /\ browserCall' \in [BrowserCalls -> BrowserCallRecord]
        /\ browserCall'[b].phase = "over"
        /\ \A d \in BrowserCalls \ {b} : browserCall'[d] = browserCall[d]
    BY AnswerStep DEF Navigate
  <1>2. /\ s \in sessions /\ s \in BrowserCalls
        /\ SessionTaskOf[ownerOf[s]] = SessionTaskOf[browserCall[b].by]
        /\ browserCall[b].url \notin Blocked
        /\ browserCall[b].phase = "leasing"
    BY DEF Navigate, Admitted, ValidateSessionAccess, CallsBehindSessions, BrowserTypeOK
  <1>3. visit \in (Callers \cup {"none"}) \X (Urls \cup {"none"})
    BY DEF BrowserTypeOK, BrowserCallRecord
  <1>4. /\ history' = [history EXCEPT ![s] = @ \cup {visit}]
        /\ UNCHANGED <<sessions, ownerOf, profiles, undeleted, limitOf>>
    BY DEF Navigate, UpdateSessionUrl
  <1>5. BrowserTypeOK'
    BY <1>1, <1>2, <1>3, <1>4 DEF BrowserTypeOK
  <1>6. CallsBehindSessions'
    BY <1>1, <1>2, <1>4 DEF CallsBehindSessions, BrowserTypeOK
  <1>7. VisitsAllowed'
    BY <1>2, <1>4 DEF VisitsAllowed, BrowserTypeOK
  <1> QED
    BY <1>4, <1>5, <1>6, <1>7 DEF LimitsHold, ProfilesExact

\* Every call of the browser and every cleanup.
LEMMA BrowserStep == BrowserIInv /\ [BrowserNext]_browserVars => BrowserIInv'
  <1> SUFFICES ASSUME BrowserIInv, [BrowserNext]_browserVars
               PROVE  BrowserIInv'
    OBVIOUS
  <1>1. ASSUME NEW b \in BrowserCalls, NEW by \in Callers, NEW n \in SessionLimits, AskSession(b, by, n)
        PROVE  BrowserIInv'
    <2> DEFINE c == [browserCall[b] EXCEPT !.phase = "leasing", !.op = "create", !.by = by, !.limit = n]
    <2>1. c \in BrowserCallRecord /\ c.phase = "leasing" /\ c.op = "create"
      BY <1>1, BrowserAssumption, ZenonT(30) DEF BrowserIInv, BrowserTypeOK, BrowserCallRecord
    <2>2. browserCall' = [browserCall EXCEPT ![b] = c]
      BY <1>1 DEF AskSession, BrowserIInv, BrowserTypeOK
    <2> QED
      BY <1>1, <2>1, <2>2, BrowserAskStep DEF AskSession
  <1>2. ASSUME NEW b \in BrowserCalls, NEW op \in Browsing, NEW by \in Callers, NEW s \in BrowserCalls \ {b},
               NEW u \in Urls \cup {"none"}, NEW allowed \in SUBSET DOMAIN Covers,
               AskBrowser(b, op, by, s, u, allowed)
        PROVE  BrowserIInv'
    <2> DEFINE c == [phase |-> "leasing", op |-> op, by |-> by, on |-> s, url |-> u, allowed |-> allowed,
                     limit |-> 0, result |-> "none"]
    <2>1. CASE op = "navigate" /\ ~ValidateUrl(u, allowed)
      BY <1>2, <2>1, AnsweredStep DEF AskBrowser
    <2>2. CASE ~(op = "navigate" /\ ~ValidateUrl(u, allowed))
      <3>1. c \in BrowserCallRecord /\ c.phase = "leasing"
        BY DEF BrowserCallRecord
      <3>2. c.op = "navigate" => c.url \notin Blocked
        BY <2>2 DEF ValidateUrl
      <3>3. browserCall' = [browserCall EXCEPT ![b] = c]
        BY <1>2, <2>2 DEF AskBrowser
      <3> QED
        BY <1>2, <3>1, <3>2, <3>3, BrowserAskStep DEF AskBrowser
    <2> QED
      BY <2>1, <2>2
  <1>3. ASSUME NEW b \in BrowserCalls,
               RefuseBrowser(b) \/ AtLimit(b) \/ NoAccess(b) \/ ExtractContent(b) \/ InteractForm(b)
               \/ CaptureScreenshot(b) \/ DownloadFile(b) \/ UploadFile(b)
        PROVE  BrowserIInv'
    <2>1. /\ \E r \in {"DENIED", "SUCCESS", "FAILED", "INTERVENTION_REQUIRED"} : Answer(b, r)
          /\ UNCHANGED <<sessions, ownerOf, history, profiles, undeleted, limitOf>>
      BY <1>3 DEF RefuseBrowser, AtLimit, NoAccess, ExtractContent, InteractForm, CaptureScreenshot,
                  DownloadFile, UploadFile
    <2> QED
      BY <2>1, AnsweredStep
  <1>4. ASSUME NEW b \in BrowserCalls, ClearSession(b) PROVE BrowserIInv'
    <2>1. {browserCall[b].on} \in SUBSET sessions
      BY <1>4 DEF ClearSession, Admitted, ValidateSessionAccess
    <2>2. /\ browserCall' \in [BrowserCalls -> BrowserCallRecord]
          /\ \A d \in BrowserCalls : browserCall'[d] = browserCall[d] \/ browserCall'[d].phase = "over"
      BY <1>4, AnswerStep DEF ClearSession, BrowserIInv
    <2> QED
      BY <1>4, <2>1, <2>2, ClearStep DEF ClearSession
  <1>5. CASE CleanupAbandonedSessions
    BY <1>5, ClearStep DEF CleanupAbandonedSessions, BrowserIInv, BrowserTypeOK
  <1>6. CASE UNCHANGED browserVars
    BY <1>6 DEF browserVars, BrowserIInv, BrowserTypeOK, LimitsHold, CallsBehindSessions, ProfilesExact,
                VisitsAllowed
  <1> QED
    BY <1>1, <1>2, <1>3, <1>4, <1>5, <1>6, CreateSessionStep, NavigateStep DEF BrowserNext

\* The sessions stay under the limit one of them was created under, their
\* profiles are theirs or could not be removed, and no session visits a URL
\* that is blocked or that another task asked for.
THEOREM SessionsAlwaysContained == BrowserSpec => []SessionsContained
  <1>1. BrowserInit => BrowserIInv
    BY FS_EmptySet DEF BrowserInit, BrowserIInv, BrowserTypeOK, LimitsHold, CallsBehindSessions, ProfilesExact,
                       VisitsAllowed, NoBrowserCall, BrowserCallRecord
  <1>2. BrowserIInv => SessionsContained
    BY DEF BrowserIInv, LimitsHold, ProfilesExact, VisitsAllowed, SessionsContained
  <1> QED
    BY <1>1, <1>2, BrowserStep, PTL DEF BrowserSpec

-----------------------------------------------------------------------------
(* The device runtime.                                                     *)

DevicePhases == {"idle", "leasing", "adapter", "over"}

DeviceTypeOK ==
  /\ agentState \in {"READY", "STOPPED"}
  /\ activeOperationsCount \in Int
  /\ deviceCall \in [DeviceCalls -> [phase : DevicePhases, op : Operations \cup {"none"},
                                     scope : Operations \cup Wildcards \cup {"none"}]]
  /\ IsFiniteSet(AtAdapter) /\ IsFiniteSet(outlived)

\* The count misses exactly the operations the last shutdown found running,
\* and it never goes over the limit.
CountExact ==
  /\ activeOperationsCount = Cardinality(AtAdapter) - Cardinality(outlived)
  /\ activeOperationsCount <= MaxConcurrentOperations

DeviceIInv ==
  DeviceTypeOK /\ CountExact /\ (agentState = "STOPPED" => deviceClip = "none")

\* Two finite sets differ in what each has and the other has not.
LEMMA SymmetricDifference ==
  ASSUME NEW S, NEW T, IsFiniteSet(S), IsFiniteSet(T)
  PROVE  /\ Cardinality(S \ T) \in Nat /\ Cardinality(T \ S) \in Nat
         /\ Cardinality(S \ T) - Cardinality(T \ S) = Cardinality(S) - Cardinality(T)
  <1>0. S \cap T = T \cap S /\ S \cap T \in SUBSET S
    OBVIOUS
  <1>1. IsFiniteSet(S \ T) /\ IsFiniteSet(T \ S) /\ IsFiniteSet(S \cap T)
    BY <1>0, FS_Difference, FS_Subset
  <1>2. /\ Cardinality(S \ T) = Cardinality(S) - Cardinality(S \cap T)
        /\ Cardinality(T \ S) = Cardinality(T) - Cardinality(T \cap S)
    BY FS_Difference
  <1>3. /\ Cardinality(S) \in Nat /\ Cardinality(T) \in Nat /\ Cardinality(S \cap T) \in Nat
        /\ Cardinality(S \ T) \in Nat /\ Cardinality(T \ S) \in Nat
    BY <1>1, FS_CardinalityType
  <1>4. Cardinality(T \cap S) = Cardinality(S \cap T)
    BY <1>0
  <1> QED
    BY <1>2, <1>3, <1>4

\* A call that does not come to or from its adapter changes no count.
LEMMA DeviceCallStep ==
  ASSUME DeviceIInv, NEW d \in DeviceCalls, deviceCall[d].phase # "adapter",
         NEW c \in [phase : DevicePhases, op : Operations \cup {"none"},
                    scope : Operations \cup Wildcards \cup {"none"}],
         c.phase # "adapter", deviceCall' = [deviceCall EXCEPT ![d] = c],
         UNCHANGED <<agentState, deviceStops, activeOperationsCount, deviceClip, outlived>>
  PROVE  DeviceIInv'
  <1>1. AtAdapter' = AtAdapter
    BY DEF AtAdapter, DeviceIInv, DeviceTypeOK
  <1> QED
    BY <1>1 DEF DeviceIInv, DeviceTypeOK, CountExact

\* A call that is over has no operation any more.
LEMMA DeviceOverStep ==
  ASSUME DeviceIInv, NEW d \in DeviceCalls, DeviceOver(d)
  PROVE  /\ deviceCall' \in [DeviceCalls -> [phase : DevicePhases, op : Operations \cup {"none"},
                                            scope : Operations \cup Wildcards \cup {"none"}]]
         /\ AtAdapter' = AtAdapter \ {d}
  <1>1. [NoDeviceCall EXCEPT !.phase = "over"] = [phase |-> "over", op |-> "none", scope |-> "none"]
    BY DEF NoDeviceCall
  <1> QED
    BY <1>1 DEF DeviceOver, AtAdapter, DeviceIInv, DeviceTypeOK, DevicePhases

\* Every call, stop and restart.
LEMMA DeviceStep == DeviceIInv /\ [DeviceNext]_deviceVars => DeviceIInv'
  <1> SUFFICES ASSUME DeviceIInv, [DeviceNext]_deviceVars
               PROVE  DeviceIInv'
    OBVIOUS
  <1> USE DeviceAssumption
  <1>0. /\ Cardinality(AtAdapter) \in Nat /\ Cardinality(outlived) \in Nat
    BY FS_CardinalityType DEF DeviceIInv, DeviceTypeOK
  <1>1. ASSUME NEW d \in DeviceCalls, deviceCall[d].phase # "adapter", DeviceOver(d),
               UNCHANGED <<agentState, deviceStops, activeOperationsCount, deviceClip, outlived>>
        PROVE  DeviceIInv'
    <2>1. AtAdapter' = AtAdapter
      BY <1>1, DeviceOverStep DEF AtAdapter
    <2> QED
      BY <1>1, <2>1, DeviceOverStep DEF DeviceIInv, DeviceTypeOK, CountExact
  <1>2. ASSUME NEW d \in DeviceCalls, NEW op \in Operations,
               NEW scope \in {op, MapOperationToCapability(op), "*"}, Execute(d, op, scope)
        PROVE  DeviceIInv'
    <2>1. [phase |-> "leasing", op |-> op, scope |-> scope]
            \in [phase : DevicePhases, op : Operations \cup {"none"},
                 scope : Operations \cup Wildcards \cup {"none"}]
      BY DEF DevicePhases, MapOperationToCapability, Wildcards, Operations
    <2>2. CASE IsLifecycleUnsafe
      BY <1>1, <1>2, <2>2 DEF Execute
    <2>3. CASE ~IsLifecycleUnsafe
      BY <1>2, <2>1, <2>3, DeviceCallStep DEF Execute
    <2> QED
      BY <2>2, <2>3
  <1>3. ASSUME NEW d \in DeviceCalls, RefuseDevice(d) \/ NotDispatched(d) PROVE DeviceIInv'
    BY <1>1, <1>3 DEF RefuseDevice, NotDispatched
  <1>4. ASSUME NEW d \in DeviceCalls, Dispatch(d) PROVE DeviceIInv'
    <2>1. AtAdapter' = AtAdapter \cup {d} /\ d \notin AtAdapter
      BY <1>4 DEF Dispatch, AtAdapter, DeviceIInv, DeviceTypeOK
    <2>2. IsFiniteSet(AtAdapter') /\ Cardinality(AtAdapter') = Cardinality(AtAdapter) + 1
      BY <2>1, FS_AddElement DEF DeviceIInv, DeviceTypeOK
    <2>3. deviceCall' \in [DeviceCalls -> [phase : DevicePhases, op : Operations \cup {"none"},
                                          scope : Operations \cup Wildcards \cup {"none"}]]
      BY <1>4 DEF Dispatch, DeviceIInv, DeviceTypeOK, DevicePhases
    <2>4. CountExact'
      BY <1>0, <1>4, <2>2 DEF Dispatch, Dispatches, CountExact, DeviceIInv, DeviceTypeOK
    <2> QED
      BY <1>4, <2>2, <2>3, <2>4 DEF Dispatch, Dispatches, IsLifecycleUnsafe, DeviceIInv, DeviceTypeOK
  <1>5. ASSUME NEW d \in DeviceCalls, AdapterDone(d) PROVE DeviceIInv'
    <2>1. AtAdapter' = AtAdapter \ {d} /\ d \in AtAdapter
      BY <1>5, DeviceOverStep DEF AdapterDone, AtAdapter
    <2>2. IsFiniteSet(AtAdapter') /\ Cardinality(AtAdapter') = Cardinality(AtAdapter) - 1
      BY <2>1, FS_RemoveElement DEF DeviceIInv, DeviceTypeOK
    <2>3. CountExact'
      BY <1>0, <1>5, <2>2 DEF AdapterDone, CountExact, DeviceIInv, DeviceTypeOK
    <2> QED
      BY <1>5, <2>2, <2>3, DeviceOverStep DEF AdapterDone, DeviceIInv, DeviceTypeOK
  <1>6. CASE DeviceShutdown
    <2>1. AtAdapter' = AtAdapter /\ outlived' = AtAdapter
      BY <1>6 DEF DeviceShutdown, AtAdapter
    <2>2. CountExact'
      BY <1>0, <1>6, <2>1 DEF DeviceShutdown, CountExact
    <2> QED
      BY <1>6, <2>1, <2>2 DEF DeviceShutdown, DeviceIInv, DeviceTypeOK
  <1>7. CASE DeviceRestart
    <2>1. AtAdapter' = AtAdapter
      BY <1>7 DEF DeviceRestart, AtAdapter
    <2> QED
      BY <1>7, <2>1 DEF DeviceRestart, DeviceIInv, DeviceTypeOK, CountExact
  <1>8. CASE UNCHANGED deviceVars
    <2>1. AtAdapter' = AtAdapter
      BY <1>8 DEF deviceVars, AtAdapter
    <2> QED
      BY <1>8, <2>1 DEF deviceVars, DeviceIInv, DeviceTypeOK, CountExact
  <1> QED
    BY <1>2, <1>3, <1>4, <1>5, <1>6, <1>7, <1>8 DEF DeviceNext

\* A stopped agent leaves nothing on its clipboard, and the count of running
\* operations is off by exactly what the last shutdown found running.
THEOREM StopAlwaysLeavesNothing == DeviceSpec => []StopLeavesNothing
  <1>1. DeviceInit => DeviceIInv
    <2> SUFFICES ASSUME DeviceInit PROVE DeviceIInv
      OBVIOUS
    <2>1. AtAdapter = {}
      BY DEF DeviceInit, AtAdapter, NoDeviceCall
    <2> QED
      BY <2>1, FS_EmptySet, DeviceAssumption
      DEF DeviceInit, DeviceIInv, DeviceTypeOK, CountExact, NoDeviceCall, DevicePhases
  <1>2. DeviceIInv => StopLeavesNothing
    <2> SUFFICES ASSUME DeviceIInv PROVE StopLeavesNothing
      OBVIOUS
    <2>1. /\ Cardinality(AtAdapter) \in Nat /\ Cardinality(outlived) \in Nat
          /\ Cardinality(AtAdapter \ outlived) \in Nat /\ Cardinality(outlived \ AtAdapter) \in Nat
          /\ Cardinality(AtAdapter \ outlived) - Cardinality(outlived \ AtAdapter)
               = Cardinality(AtAdapter) - Cardinality(outlived)
      BY SymmetricDifference, FS_CardinalityType DEF DeviceIInv, DeviceTypeOK
    <2>2. Cardinality(AtAdapter) - Cardinality(outlived) <= MaxConcurrentOperations
      BY DEF DeviceIInv, CountExact
    <2>3. Cardinality(AtAdapter \ outlived) <= MaxConcurrentOperations + Cardinality(outlived \ AtAdapter)
      BY <2>1, <2>2, DeviceAssumption
    <2> QED
      BY <2>3 DEF DeviceIInv, CountExact, StopLeavesNothing
  <1> QED
    BY <1>1, <1>2, DeviceStep, PTL DEF DeviceSpec

-----------------------------------------------------------------------------
(* Files.                                                                  *)

Contents == FsCalls \cup {"old", "absent", "dir"}
FsRecord == [phase : {"idle", "leasing", "snapped", "hashing", "over"}, kind : FsKinds \cup {"none"},
             context : DOMAIN RootOf \cup {"none"}, from : Locations \cup {"none"},
             at : Names \cup {"none"}, took : Contents]

FsTypeOK ==
  /\ fsDisk \in [Locations -> Contents] /\ fsTorn \in [Locations -> FsCalls \cup {"none"}]
  /\ fsBackup \in [FsCalls -> Contents \cup {"none"}] /\ fsSnapshots \in SUBSET FsCalls
  /\ fsCall \in [FsCalls -> FsRecord]

\* The places that a call with a snapshot goes on to change, or to restore.
Located(q) == q.at \in DOMAIN CanonicalPath /\ (q.kind = "move" => q.from \in Locations)

FsCallSound(q) ==
  /\ q.phase \in {"idle", "leasing", "snapped"} => q.took = "absent"
  /\ q.phase = "leasing" => q.context \in DOMAIN RootOf
  /\ q.phase = "leasing" /\ q.kind \in {"copy", "move"} => q.from \in Locations
  /\ q.phase = "snapped" => Located(q)

FsCallsSound ==
  /\ \A c \in FsCalls : FsCallSound(fsCall[c])
  /\ \A c \in fsSnapshots : fsCall[c].phase \in {"snapped", "hashing", "over"} /\ Located(fsCall[c])

\* Somebody else was faster, or the backup is gone.
Excused(c) == c \in fsRaced \/ c \in fsSwept \/ c \in fsRazed

\* A backup that is still to be needed is the file's content.
BackupsMatch ==
  \A c \in FsCalls :
    fsCall[c].phase = "snapped" /\ fsCall[c].kind \in {"write", "delete"} =>
      fsDisk[Target(c)] = "dir" \/ fsBackup[c] = fsDisk[Target(c)] \/ Excused(c)
BackupsHeld ==
  \A c \in FsCalls : fsCall[c].took \notin {"absent", "dir"} => fsBackup[c] = fsCall[c].took \/ Excused(c)

\* The call that a crash interrupted is over, and stays what it was.
TornByCopies ==
  \A l \in Locations : fsTorn[l] # "none" => fsCall[fsTorn[l]].phase = "over" /\ fsCall[fsTorn[l]].kind = "copy"

FsIInv == FsTypeOK /\ FsCallsSound /\ BackupsMatch /\ BackupsHeld /\ TornByCopies

\* No content appears from nowhere, and no half-written file.
DiskMoves ==
  /\ fsDisk' \in [Locations -> Contents] /\ fsTorn' \in [Locations -> FsCalls \cup {"none"}]
  /\ \A l \in Locations : fsTorn'[l] # "none" => \E m \in Locations : fsTorn'[l] = fsTorn[m]

\* Backups only go with a directory.
BackupsMove ==
  /\ fsBackup' \in [FsCalls -> Contents \cup {"none"}] /\ fsRazed \subseteq fsRazed'
  /\ \A d \in FsCalls : fsBackup'[d] = fsBackup[d] \/ d \in fsRazed'

\* A call goes on, and the disk changes: whoever held a backup of the old content has been raced.
LEMMA FsMoves ==
  ASSUME FsIInv, NEW c \in FsCalls, NEW q \in FsRecord, fsCall' = [fsCall EXCEPT ![c] = q],
         DiskMoves, Race(c), BackupsMove, UNCHANGED <<fsSnapshots, fsSwept>>,
         q.phase # "snapped", FsCallSound(q), fsCall[c].phase = "over" => q = fsCall[c],
         c \in fsSnapshots => q.phase \in {"hashing", "over"} /\ Located(q),
         q.took \notin {"absent", "dir"} => fsBackup[c] = q.took \/ Excused(c)
  PROVE  FsIInv'
  <1> USE DEF FsIInv
  <1>1. /\ fsCall'[c] = q /\ \A d \in FsCalls \ {c} : fsCall'[d] = fsCall[d] /\ Target(d)' = Target(d)
        /\ FsTypeOK'
    BY DEF FsTypeOK, DiskMoves, BackupsMove, Target
  <1>2. FsCallsSound'
    BY <1>1 DEF FsCallsSound, FsTypeOK
  <1>3. fsRaced \subseteq fsRaced' /\ fsSwept' = fsSwept /\ fsRazed \subseteq fsRazed'
    BY DEF Race, BackupsMove
  <1>4. BackupsHeld'
    <2> SUFFICES ASSUME NEW d \in FsCalls, fsCall'[d].took \notin {"absent", "dir"}
                 PROVE  fsBackup'[d] = fsCall'[d].took \/ Excused(d)'
      BY DEF BackupsHeld
    <2>1. fsBackup[d] = fsCall'[d].took \/ Excused(d)
      BY <1>1 DEF BackupsHeld
    <2> QED
      BY <1>3, <2>1 DEF BackupsMove, Excused
  <1>5. BackupsMatch'
    <2> SUFFICES ASSUME NEW d \in FsCalls, fsCall'[d].phase = "snapped", fsCall'[d].kind \in {"write", "delete"},
                        ~Excused(d)', fsDisk'[Target(d)'] # "dir"
                 PROVE  fsBackup'[d] = fsDisk'[Target(d)']
      BY DEF BackupsMatch, Target
    <2>1. d # c /\ fsCall[d].phase = "snapped" /\ fsCall[d].kind \in {"write", "delete"} /\ ~Excused(d)
      BY <1>1, <1>3 DEF Excused
    <2>2. Target(d) \in Locations
      BY <2>1, FsAssumption DEF FsCallsSound, FsCallSound, Located, Target
    <2>3. fsDisk'[Target(d)] = fsDisk[Target(d)]
      BY <2>1, <2>2 DEF Race, Excused
    <2>4. fsBackup[d] = fsDisk[Target(d)]
      BY <1>1, <2>1, <2>3 DEF BackupsMatch
    <2> QED
      BY <1>1, <2>1, <2>3, <2>4 DEF BackupsMove, Excused
  <1>6. TornByCopies'
    BY <1>1 DEF TornByCopies, DiskMoves, FsTypeOK
  <1> QED
    BY <1>1, <1>2, <1>4, <1>5, <1>6

LEMMA QuietDisk ==
  ASSUME FsIInv, NEW c \in FsCalls, UNCHANGED <<fsDisk, fsTorn, fsRaced>>
  PROVE  DiskMoves /\ Race(c)
  BY DEF FsIInv, FsTypeOK, DiskMoves, Race

LEMMA QuietBackups ==
  ASSUME FsIInv, UNCHANGED <<fsBackup, fsRazed>>
  PROVE  BackupsMove
  BY DEF FsIInv, FsTypeOK, BackupsMove

\* The call is over, whatever has changed.
LEMMA SettleStep ==
  ASSUME FsIInv, NEW c \in FsCalls, Settle(c), fsCall[c].phase \in {"leasing", "snapped", "hashing"},
         DiskMoves, Race(c), BackupsMove, UNCHANGED <<fsSnapshots, fsSwept>>
  PROVE  FsIInv'
  <1>0. fsCall[c] \in FsRecord
    BY DEF FsIInv, FsTypeOK
  <1>h. fsCall[c].took \notin {"absent", "dir"} => fsBackup[c] = fsCall[c].took \/ Excused(c)
    BY DEF FsIInv, BackupsHeld
  <1>1. CASE c \in fsSnapshots
    <2> DEFINE q == [fsCall[c] EXCEPT !.phase = "over"]
    <2>1. fsCall' = [fsCall EXCEPT ![c] = q]
      BY <1>1 DEF Settle, FsIInv, FsTypeOK
    <2>2. /\ q \in FsRecord /\ q.phase = "over" /\ q.took = fsCall[c].took
          /\ q.at = fsCall[c].at /\ q.from = fsCall[c].from /\ q.kind = fsCall[c].kind
      BY <1>0 DEF FsRecord
    <2> HIDE DEF q
    <2>3. Located(q) /\ FsCallSound(q)
      BY <1>1, <2>2 DEF FsIInv, FsCallsSound, FsCallSound, Located
    <2> QED
      BY <1>h, <2>1, <2>2, <2>3, FsMoves
  <1>2. CASE c \notin fsSnapshots
    <2> DEFINE q == [Unasked EXCEPT !.phase = "over", !.took = fsCall[c].took]
    <2>1. fsCall' = [fsCall EXCEPT ![c] = q]
      BY <1>2 DEF Settle, FsIInv, FsTypeOK
    <2>2. Unasked \in FsRecord /\ fsCall[c].took \in Contents
      BY <1>0 DEF FsRecord, Unasked, Contents
    <2>3. q \in FsRecord /\ q.phase = "over" /\ q.took = fsCall[c].took
      BY <2>2 DEF FsRecord
    <2> HIDE DEF q
    <2>4. FsCallSound(q)
      BY <2>3 DEF FsCallSound
    <2> QED
      BY <1>h, <1>2, <2>1, <2>3, <2>4, FsMoves
  <1> QED
    BY <1>1, <1>2

\* The mutation is done, of a file that was not there or of one with a backup.
LEMMA DoneStep ==
  ASSUME FsIInv, NEW c \in FsCalls, NEW destroyed \in Contents, Done(c, destroyed),
         DiskMoves, Race(c), BackupsMove,
         UNCHANGED <<fsSnapshots, fsSwept>>, fsCall[c].phase \in {"leasing", "snapped"},
         destroyed \notin {"absent", "dir"} => fsBackup[c] = destroyed \/ Excused(c)
  PROVE  FsIInv'
  <1> DEFINE q == [fsCall[c] EXCEPT !.phase = "hashing", !.took = destroyed]
  <1>0. fsCall[c] \in FsRecord
    BY DEF FsIInv, FsTypeOK
  <1>1. fsCall' = [fsCall EXCEPT ![c] = q]
    BY DEF Done, FsIInv, FsTypeOK
  <1>2. /\ q \in FsRecord /\ q.phase = "hashing" /\ q.took = destroyed
        /\ q.at = fsCall[c].at /\ q.from = fsCall[c].from /\ q.kind = fsCall[c].kind
    BY <1>0 DEF FsRecord
  <1> HIDE DEF q
  <1>3. FsCallSound(q) /\ (c \in fsSnapshots => Located(q))
    BY <1>2 DEF FsIInv, FsCallsSound, FsCallSound, Located
  <1> QED
    BY <1>1, <1>2, <1>3, FsMoves

LEMMA PlacedIsDisk ==
  ASSUME FsIInv, NEW l, NEW content \in Contents
  PROVE  Placed(l, content) \in [Locations -> Contents]
  BY DEF Placed, FsIInv, FsTypeOK, Contents

LEMMA ChangeMovesDisk ==
  ASSUME FsIInv, NEW c \in FsCalls, NEW l \in Locations, NEW content \in Contents, Change(c, l, content)
  PROVE  DiskMoves /\ Race(c)
  BY PlacedIsDisk DEF Change, DiskMoves, FsIInv, FsTypeOK

LEMMA FailsAtStep ==
  ASSUME FsIInv, NEW c \in FsCalls, NEW l \in Locations, FailsAt(c, l), fsCall[c].phase \in {"leasing", "snapped"},
         UNCHANGED <<fsBackup, fsSnapshots, fsSwept, fsRazed>>
  PROVE  FsIInv'
  <1>1. fsDisk[l] \in Contents /\ fsDisk \in [Locations -> Contents] /\ fsTorn \in [Locations -> FsCalls \cup {"none"}]
    BY DEF FsIInv, FsTypeOK
  <1>2. fsDisk' = fsDisk \/ fsDisk' = Placed(l, fsDisk[l])
    BY DEF FailsAt
  <1>3. DiskMoves
    BY <1>1, <1>2, PlacedIsDisk DEF DiskMoves, FailsAt
  <1> QED
    BY <1>3, QuietBackups, SettleStep DEF FailsAt

\* The backup is the content of the file at that moment; of a directory there is none.
LEMMA CreateSnapshotStep ==
  ASSUME FsIInv, NEW c \in FsCalls, NEW l \in Locations, CreateSnapshot(c, l), Admits(c), Exists(l),
         fsCall[c].kind \in {"write", "delete"} => l = Target(c),
         UNCHANGED <<fsTorn, fsSwept, fsRazed>>
  PROVE  FsIInv'
  <1> DEFINE q == [fsCall[c] EXCEPT !.phase = "snapped"]
             store == StoredIn[fsCall[c].context]
  <1>0. fsCall[c] \in FsRecord /\ fsCall[c].phase = "leasing" /\ fsCall[c].took = "absent" /\ c \notin fsSnapshots
    BY DEF FsIInv, FsTypeOK, FsCallsSound, FsCallSound, Admits
  <1>1. fsCall' = [fsCall EXCEPT ![c] = q]
    BY DEF CreateSnapshot, FsIInv, FsTypeOK
  <1>2. /\ q \in FsRecord /\ q.phase = "snapped" /\ q.took = "absent"
        /\ q.at = fsCall[c].at /\ q.from = fsCall[c].from /\ q.kind = fsCall[c].kind
    BY <1>0 DEF FsRecord
  <1> HIDE DEF q
  <1>3. Located(q) /\ FsCallSound(q)
    BY <1>0, <1>2 DEF FsIInv, FsCallsSound, FsCallSound, Located, Admits, PathIsValid, Resolves
  <1>4. /\ fsCall'[c] = q /\ \A d \in FsCalls \ {c} : fsCall'[d] = fsCall[d] /\ Target(d)' = Target(d)
        /\ Target(c)' = Target(c)
        /\ fsCall' \in [FsCalls -> FsRecord]
    BY <1>1, <1>2 DEF FsIInv, FsTypeOK, Target
  <1>5. /\ fsSnapshots' \in SUBSET FsCalls /\ fsSnapshots' \subseteq fsSnapshots \cup {c}
        /\ fsBackup' \in [FsCalls -> Contents \cup {"none"}] /\ fsDisk' \in [Locations -> Contents]
        /\ \A d \in FsCalls \ {c} : fsBackup'[d] = fsBackup[d]
        /\ fsDisk'[l] = "dir" \/ fsBackup'[c] = fsDisk'[l]
    <2>1. CASE IsFile(l)
      <3>1. /\ \A d \in store : ~IsFile(d)
            /\ fsDisk' = [m \in Locations |-> IF m \in store THEN "dir" ELSE fsDisk[m]]
            /\ fsSnapshots' = fsSnapshots \cup {c} /\ fsBackup' = [fsBackup EXCEPT ![c] = fsDisk[l]]
        BY <2>1 DEF CreateSnapshot
      <3> HIDE DEF store
      <3>2. l \notin store /\ fsDisk'[l] = fsDisk[l]
        BY <2>1, <3>1
      <3> QED
        BY <3>1, <3>2 DEF FsIInv, FsTypeOK, Contents
    <2>2. CASE ~IsFile(l)
      <3>1. UNCHANGED <<fsDisk, fsSnapshots, fsBackup>> /\ fsDisk[l] = "dir"
        BY <2>2 DEF CreateSnapshot, IsFile, Exists
      <3> QED
        BY <3>1 DEF FsIInv, FsTypeOK
    <2> QED
      BY <2>1, <2>2
  <1>6. FsTypeOK' /\ FsCallsSound'
    BY <1>2, <1>3, <1>4, <1>5 DEF FsIInv, FsTypeOK, FsCallsSound
  <1>7. BackupsHeld'
    BY <1>2, <1>4, <1>5 DEF FsIInv, BackupsHeld, Excused, CreateSnapshot, Race
  <1>8. BackupsMatch'
    <2> SUFFICES ASSUME NEW d \in FsCalls, fsCall'[d].phase = "snapped", fsCall'[d].kind \in {"write", "delete"},
                        ~Excused(d)', fsDisk'[Target(d)'] # "dir"
                 PROVE  fsBackup'[d] = fsDisk'[Target(d)']
      BY DEF BackupsMatch, Target
    <2>1. CASE d = c
      BY <1>2, <1>4, <1>5, <2>1
    <2>2. CASE d # c
      <3>1. fsCall[d].phase = "snapped" /\ fsCall[d].kind \in {"write", "delete"} /\ ~Excused(d)
        BY <1>4, <2>2 DEF Excused, CreateSnapshot, Race
      <3>2. Target(d) \in Locations
        BY <3>1, FsAssumption DEF FsIInv, FsCallsSound, FsCallSound, Located, Target
      <3>3. fsDisk'[Target(d)] = fsDisk[Target(d)]
        BY <2>2, <3>1, <3>2 DEF CreateSnapshot, Race, Excused
      <3> QED
        BY <1>4, <1>5, <2>2, <3>1, <3>3 DEF FsIInv, BackupsMatch
    <2> QED
      BY <2>1, <2>2
  <1>9. TornByCopies'
    BY <1>0, <1>4 DEF FsIInv, FsTypeOK, TornByCopies
  <1> QED
    BY <1>6, <1>7, <1>8, <1>9 DEF FsIInv

LEMMA RazeMovesBackups ==
  ASSUME FsIInv, NEW away, Raze(away)
  PROVE  BackupsMove
  BY DEF Raze, BackupsMove, FsIInv, FsTypeOK

LEMMA MoveStep ==
  ASSUME FsIInv, NEW c \in FsCalls, MoveFile(c)
  PROVE  FsIInv'
  <1> DEFINE src == fsCall[c].from
             dst == Target(c)
  <1>0. fsCall[c].phase = "snapped" /\ Located(fsCall[c]) /\ src \in Locations /\ dst \in Locations
    BY FsAssumption DEF FsIInv, FsTypeOK, FsCallsSound, FsCallSound, MoveFile, Snapped, Located, Target
  <1>1. UNCHANGED <<fsBackup, fsSnapshots, fsSwept, fsRazed>> /\ BackupsMove
    BY QuietBackups DEF MoveFile
  <1>2. CASE FailsAt(c, dst)
    <2> HIDE DEF dst
    <2> QED
      BY <1>0, <1>1, <1>2, FailsAtStep
  <1>3. CASE ~FailsAt(c, dst)
    <2>1. /\ fsDisk' = [m \in Locations |-> IF m = src /\ m # dst THEN "absent" ELSE Placed(dst, fsDisk[src])[m]]
          /\ fsTorn' = [fsTorn EXCEPT ![src] = "none", ![dst] = fsTorn[src]]
          /\ Race(c) /\ Done(c, "absent")
      BY <1>3 DEF MoveFile
    <2> HIDE DEF src, dst
    <2>2. fsDisk[src] \in Contents /\ "absent" \in Contents
      BY <1>0 DEF FsIInv, FsTypeOK, Contents
    <2>3. Placed(dst, fsDisk[src]) \in [Locations -> Contents]
      BY <2>2, PlacedIsDisk
    <2>4. DiskMoves
      BY <1>0, <2>1, <2>2, <2>3 DEF DiskMoves, FsIInv, FsTypeOK
    <2> QED
      BY <1>0, <1>1, <2>1, <2>2, <2>4, DoneStep
  <1> QED
    BY <1>2, <1>3

LEMMA MoveDirectoryStep ==
  ASSUME FsIInv, NEW c \in FsCalls, MoveDirectory(c)
  PROVE  FsIInv'
  <1> DEFINE src == fsCall[c].from
             dst == Target(c)
             Relative(m) == CHOOSE e \in Entries : Under[dst][e] = m
  <1>0. /\ fsCall[c].phase = "snapped" /\ src \in Directories /\ dst \in Directories
        /\ Race(c) /\ Raze(BackupsIn(src)) /\ Settle(c) /\ UNCHANGED <<fsSnapshots, fsSwept>>
    BY DEF MoveDirectory, Snapped
  <1>1. /\ fsDisk' = [m \in Locations |-> IF m \in Within(dst) THEN fsDisk[Under[src][Relative(m)]]
                                          ELSE IF m \in Within(src) \cup {src} THEN "absent"
                                          ELSE Placed(dst, "dir")[m]]
        /\ fsTorn' = [m \in Locations |-> IF m \in Within(dst) THEN fsTorn[Under[src][Relative(m)]]
                                          ELSE IF m \in Within(src) THEN "none" ELSE fsTorn[m]]
    BY DEF MoveDirectory
  <1> HIDE DEF src, dst
  <1>2. \A m \in Within(dst) : Relative(m) \in Entries
    BY <1>0 DEF Within
  <1> HIDE DEF Relative
  <1>3. \A m \in Within(dst) : Under[src][Relative(m)] \in Locations
    BY <1>0, <1>2, FsAssumption
  <1>4. "dir" \in Contents /\ "absent" \in Contents
    BY DEF Contents
  <1>5. Placed(dst, "dir") \in [Locations -> Contents]
    BY <1>4, PlacedIsDisk
  <1>6. DiskMoves
    BY <1>1, <1>3, <1>4, <1>5 DEF DiskMoves, FsIInv, FsTypeOK
  <1> QED
    BY <1>0, <1>6, RazeMovesBackups, SettleStep

LEMMA DeleteStep ==
  ASSUME FsIInv, NEW c \in FsCalls, DeleteFile(c)
  PROVE  FsIInv'
  <1> DEFINE l == Target(c)
  <1>1. fsCall[c].phase = "snapped" /\ fsCall[c].kind = "delete" /\ UNCHANGED <<fsSnapshots, fsSwept>>
    BY DEF DeleteFile, Snapped
  <1>2. l \in Locations
    BY <1>1, FsAssumption DEF FsIInv, FsCallsSound, FsCallSound, Located, Target
  <1>3. PICK gone, away :
          /\ fsDisk' = [m \in Locations |-> IF m \in gone THEN "absent" ELSE fsDisk[m]]
          /\ fsTorn' = [m \in Locations |-> IF m \in gone THEN "none" ELSE fsTorn[m]]
          /\ Race(c) /\ Raze(away) /\ (Done(c, fsDisk[l]) \/ Settle(c))
    BY DEF DeleteFile
  <1>4. DiskMoves
    BY <1>3 DEF DiskMoves, FsIInv, FsTypeOK, Contents
  <1>5. fsDisk[l] \in Contents /\ (fsDisk[l] \notin {"absent", "dir"} => fsBackup[c] = fsDisk[l] \/ Excused(c))
    BY <1>1, <1>2 DEF FsIInv, FsTypeOK, BackupsMatch
  <1> HIDE DEF l
  <1>6. BackupsMove
    BY <1>3, RazeMovesBackups
  <1> QED
    BY <1>1, <1>3, <1>4, <1>5, <1>6, DoneStep, SettleStep

LEMMA AskStep ==
  ASSUME FsIInv, NEW c \in FsCalls, NEW kind \in FsKinds, NEW context \in DOMAIN RootOf,
         NEW source \in Names, NEW path \in Names, Ask(c, kind, context, source, path)
  PROVE  FsIInv'
  <1> DEFINE ends == [fsCall[c] EXCEPT !.phase = "over"]
             from == IF kind \in {"copy", "move"} THEN CanonicalPath[source] ELSE "none"
             goes == [fsCall[c] EXCEPT !.phase = "leasing", !.kind = kind, !.context = context, !.at = path,
                                       !.from = from]
  <1>0. fsCall[c] \in FsRecord /\ fsCall[c].phase = "idle" /\ fsCall[c].took = "absent" /\ c \notin fsSnapshots
    BY DEF FsIInv, FsTypeOK, FsCallsSound, FsCallSound, Ask
  <1>1. /\ DiskMoves /\ Race(c) /\ BackupsMove /\ UNCHANGED <<fsSnapshots, fsSwept>>
        /\ \/ fsCall' = [fsCall EXCEPT ![c] = ends]
           \/ /\ fsCall' = [fsCall EXCEPT ![c] = goes]
              /\ kind \in {"copy", "move"} => Resolves(source)
    BY QuietDisk, QuietBackups DEF Ask, PathIsValid, FsIInv, FsTypeOK, UnchangedFiles
  <1>2. CASE fsCall' = [fsCall EXCEPT ![c] = ends]
    <2>1. ends \in FsRecord /\ ends.phase = "over" /\ ends.took = "absent"
      BY <1>0 DEF FsRecord
    <2>2. FsCallSound(ends)
      BY <2>1 DEF FsCallSound
    <2> HIDE DEF ends
    <2> QED
      BY <1>0, <1>1, <1>2, <2>1, <2>2, FsMoves
  <1>3. CASE fsCall' = [fsCall EXCEPT ![c] = goes] /\ (kind \in {"copy", "move"} => Resolves(source))
    <2>1. from \in Locations \cup {"none"} /\ (kind \in {"copy", "move"} => from \in Locations)
      BY <1>3, FsAssumption DEF Resolves
    <2> HIDE DEF from
    <2>2. /\ goes \in FsRecord /\ goes.phase = "leasing" /\ goes.took = "absent" /\ goes.kind = kind
          /\ goes.from = from /\ goes.context = context
      BY <1>0, <2>1 DEF FsRecord
    <2> HIDE DEF goes
    <2>3. FsCallSound(goes)
      BY <2>1, <2>2 DEF FsCallSound
    <2> QED
      BY <1>0, <1>1, <1>3, <2>2, <2>3, FsMoves
  <1> QED
    BY <1>1, <1>2, <1>3

\* No call goes on, and the manager has forgotten every snapshot.
LEMMA FsCrashStep ==
  ASSUME FsIInv, NEW c \in FsCalls, Crash(c)
  PROVE  FsIInv'
  <1>1. \A d \in FsCalls :
          /\ fsCall'[d] \in FsRecord /\ fsCall'[d].took = fsCall[d].took /\ fsCall'[d].kind = fsCall[d].kind
          /\ fsCall'[d].phase = IF fsCall[d].phase = "idle" THEN "idle" ELSE "over"
    <2> SUFFICES ASSUME NEW d \in FsCalls
                 PROVE  /\ fsCall'[d] \in FsRecord /\ fsCall'[d].took = fsCall[d].took
                        /\ fsCall'[d].kind = fsCall[d].kind
                        /\ fsCall'[d].phase = IF fsCall[d].phase = "idle" THEN "idle" ELSE "over"
      OBVIOUS
    <2>1. fsCall[d] \in FsRecord
      BY DEF FsIInv, FsTypeOK
    <2>2. fsCall'[d] = [fsCall[d] EXCEPT !.phase = IF fsCall[d].phase = "idle" THEN fsCall[d].phase ELSE "over"]
      BY DEF Crash
    <2> QED
      BY <2>1, <2>2 DEF FsRecord
  <1>2. \/ UNCHANGED <<fsDisk, fsTorn>>
        \/ /\ Target(c) \in Locations /\ fsCall[c].kind = "copy" /\ fsTorn' = [fsTorn EXCEPT ![Target(c)] = c]
           /\ fsDisk' = Placed(Target(c), fsDisk[fsCall[c].from]) /\ fsCall[c].from \in Locations
    BY FsAssumption DEF Crash, Admits, PathIsValid, Resolves, Target, FsIInv, FsCallsSound, FsCallSound
  <1>3. fsCall[c].phase # "idle" /\ fsSnapshots' = {} /\ UNCHANGED <<fsBackup, fsRaced, fsSwept, fsRazed>>
        /\ fsCall' \in [FsCalls -> FsRecord]
    BY <1>1 DEF Crash
  <1>4. fsDisk' \in [Locations -> Contents]
    <2>1. \A l \in Locations : fsDisk[l] \in Contents
      BY DEF FsIInv, FsTypeOK
    <2> QED
      BY <1>2, <2>1, PlacedIsDisk DEF FsIInv, FsTypeOK
  <1>5. FsTypeOK'
    BY <1>2, <1>3, <1>4 DEF FsIInv, FsTypeOK
  <1>6. FsCallsSound'
    BY <1>1, <1>3 DEF FsIInv, FsCallsSound, FsCallSound
  <1>7. BackupsMatch' /\ BackupsHeld'
    BY <1>1, <1>3 DEF FsIInv, BackupsMatch, BackupsHeld, Excused
  <1>8. TornByCopies'
    BY <1>1, <1>2, <1>3 DEF FsIInv, FsTypeOK, TornByCopies
  <1> QED
    BY <1>5, <1>6, <1>7, <1>8 DEF FsIInv

LEMMA FsStepKeeps ==
  ASSUME FsIInv, NEW c \in FsCalls, FsStep(c)
  PROVE  FsIInv'
  <1> USE FsAssumption
  <1>1. CASE \E k \in FsKinds, x \in DOMAIN RootOf, m, n \in Names : Ask(c, k, x, m, n)
    BY <1>1, AskStep
  <1>2. CASE Refuse(c) \/ ReadFile(c) \/ StatFile(c) \/ ListDirectory(c) \/ VerifyPreconditions(c) \/ Evidence(c)
    <2>1. Settle(c) /\ UnchangedFiles /\ fsCall[c].phase \in {"leasing", "hashing"}
      BY <1>2 DEF Refuse, ReadFile, StatFile, ListDirectory, VerifyPreconditions, Evidence, Admits
    <2> QED
      BY <2>1, QuietDisk, QuietBackups, SettleStep DEF UnchangedFiles
  <1>3. CASE CopyFile(c) \/ WriteNewFile(c)
    <2>1. fsCall[c].phase = "leasing" /\ Target(c) \in Locations /\ UNCHANGED <<fsBackup, fsSnapshots, fsSwept, fsRazed>>
      BY <1>3 DEF CopyFile, WriteNewFile, Admits, PathIsValid, Resolves, Target
    <2>2. CopyFile(c) => fsDisk[fsCall[c].from] \in Contents
      BY DEF CopyFile, Admits, FsIInv, FsTypeOK, FsCallsSound, FsCallSound
    <2>3. \/ \E content \in Contents : Change(c, Target(c), content) /\ Done(c, "absent")
          \/ FailsAt(c, Target(c))
      BY <1>3, <2>2 DEF CopyFile, WriteNewFile, Contents
    <2>4. "absent" \in Contents
      BY DEF Contents
    <2> QED
      BY <2>1, <2>3, <2>4, ChangeMovesDisk, QuietBackups, DoneStep, FailsAtStep
  <1>5. CASE SnapshotBeforeWrite(c) \/ SnapshotBeforeDelete(c)
    <2>1. Target(c) \in Locations
      BY <1>5 DEF SnapshotBeforeWrite, SnapshotBeforeDelete, Admits, PathIsValid, Resolves, Target
    <2> QED
      BY <1>5, <2>1, CreateSnapshotStep DEF SnapshotBeforeWrite, SnapshotBeforeDelete
  <1>6. CASE SnapshotBeforeMove(c)
    <2>1. fsCall[c].from \in Locations
      BY <1>6 DEF SnapshotBeforeMove, Admits, FsIInv, FsCallsSound, FsCallSound
    <2> QED
      BY <1>6, <2>1, CreateSnapshotStep DEF SnapshotBeforeMove
  <1>7. CASE WriteFile(c)
    <2>1. fsCall[c].phase = "snapped" /\ fsCall[c].kind = "write" /\ UNCHANGED <<fsBackup, fsSnapshots, fsSwept, fsRazed>>
      BY <1>7 DEF WriteFile, Snapped
    <2>2. Target(c) \in Locations
      BY <2>1 DEF FsIInv, FsCallsSound, FsCallSound, Located, Target
    <2>3. /\ fsDisk[Target(c)] \in Contents /\ c \in Contents
          /\ fsDisk[Target(c)] # "dir" => fsBackup[c] = fsDisk[Target(c)] \/ Excused(c)
      BY <2>1, <2>2 DEF FsIInv, FsTypeOK, BackupsMatch, Contents
    <2>4. FailsAt(c, Target(c)) \/ (Change(c, Target(c), c) /\ Done(c, fsDisk[Target(c)]))
      BY <1>7 DEF WriteFile
    <2> QED
      BY <2>1, <2>2, <2>3, <2>4, ChangeMovesDisk, QuietBackups, DoneStep, FailsAtStep
  <1>8. CASE RestoreSnapshot(c)
    <2> DEFINE l == IF fsCall[c].kind = "move" THEN fsCall[c].from ELSE Target(c)
    <2>1. c \in fsSnapshots /\ Located(fsCall[c]) /\ FsCallSound(fsCall[c]) /\ fsCall[c].phase = "over"
      BY <1>8 DEF RestoreSnapshot, FsIInv, FsCallsSound
    <2>2. l \in Locations /\ fsBackup[c] \in Contents /\ fsCall[c] \in FsRecord /\ fsCall' = [fsCall EXCEPT ![c] = fsCall[c]]
      BY <1>8, <2>1 DEF Located, Target, RestoreSnapshot, FsIInv, FsTypeOK
    <2>3. Change(c, l, fsBackup[c]) /\ UNCHANGED <<fsBackup, fsSnapshots, fsSwept, fsRazed>>
      BY <1>8 DEF RestoreSnapshot
    <2>4. fsCall[c].took \notin {"absent", "dir"} => fsBackup[c] = fsCall[c].took \/ Excused(c)
      BY DEF FsIInv, BackupsHeld
    <2> HIDE DEF l
    <2>5. DiskMoves /\ Race(c) /\ BackupsMove
      BY <2>2, <2>3, ChangeMovesDisk, QuietBackups
    <2> QED
      BY <2>1, <2>2, <2>3, <2>4, <2>5, FsMoves
  <1> QED
    BY <1>1, <1>2, <1>3, <1>5, <1>6, <1>7, <1>8, MoveStep, MoveDirectoryStep, DeleteStep, FsCrashStep DEF FsStep

(***************************************************************************)
(* Whatever calls, jails, restores, shutdowns and crashes interleave: what *)
(* a write or a delete of a file destroyed is in its backup, unless it was *)
(* raced at its snapshot, swept by a shutdown, or its backup went with a   *)
(* directory that was deleted or moved; and a file is only ever torn by a  *)
(* copy (runtimes/filesystem/runtime.ts, snapshot.ts).  A delete of a      *)
(* directory keeps nothing.                                                *)
(***************************************************************************)
THEOREM ReplacedIsAlwaysKept == FsSpec => []ReplacedIsKept
  <1>1. FsInit => FsIInv
    <2> SUFFICES ASSUME FsInit PROVE FsIInv
      OBVIOUS
    <2>1. Unasked \in FsRecord /\ Unasked.phase = "idle" /\ Unasked.took = "absent"
      BY DEF Unasked, FsRecord, Contents
    <2>2. \A c \in FsCalls : fsCall[c] = Unasked
      BY DEF FsInit
    <2>3. FsTypeOK
      BY <2>1 DEF FsInit, FsTypeOK, Contents
    <2>4. FsCallsSound
      BY <2>1, <2>2 DEF FsInit, FsCallsSound, FsCallSound
    <2>5. BackupsMatch /\ BackupsHeld
      BY <2>1, <2>2 DEF BackupsMatch, BackupsHeld
    <2>6. TornByCopies
      BY DEF FsInit, TornByCopies
    <2> QED
      BY <2>3, <2>4, <2>5, <2>6 DEF FsIInv
  <1>2. FsIInv /\ [FsNext]_fsVars => FsIInv'
    <2> SUFFICES ASSUME FsIInv, [FsNext]_fsVars PROVE FsIInv'
      OBVIOUS
    <2>1. CASE ClearAllSnapshots
      BY <2>1 DEF ClearAllSnapshots, FsIInv, FsTypeOK, FsCallsSound, BackupsMatch, BackupsHeld, TornByCopies, Target, Excused
    <2>2. ASSUME UNCHANGED fsCall, UnchangedFiles PROVE FsIInv'
      BY <2>2 DEF UnchangedFiles, FsIInv, FsTypeOK, FsCallsSound, BackupsMatch, BackupsHeld, TornByCopies, Target, Excused
    <2>3. CASE \E w \in Workspaces : UnregisterWorkspace(w) \/ \E m \in {"readOnly", "writable"} : RegisterWorkspace(w, m)
      BY <2>2, <2>3 DEF UnregisterWorkspace, RegisterWorkspace
    <2>4. CASE UNCHANGED fsVars
      BY <2>2, <2>4 DEF fsVars, UnchangedFiles
    <2> QED
      BY <2>1, <2>3, <2>4, FsStepKeeps DEF FsNext
  <1>3. FsIInv => ReplacedIsKept
    BY DEF FsIInv, BackupsHeld, TornByCopies, ReplacedIsKept, Excused
  <1> QED
    BY <1>1, <1>2, <1>3, PTL DEF FsSpec

-----------------------------------------------------------------------------
(* The clipboard of the system.                                            *)

ClipSteps == {"written", "same", "other", "cleared"}
ClipTexts == [text : {ClipTextOf[w] : w \in ClipWrites} \cup {"empty", "mine"},
              from : ClipWrites \cup {"none", "owner"}]

ClipTypeOK ==
  /\ clipboard \in ClipTexts
  /\ clipWrite \in [ClipWrites -> {"idle", "leasing", "writing", "over"}]
  /\ autoClearTimer \in ClipWrites \cup {"none"} /\ timerArmed \in BOOLEAN
  /\ timerArmed => autoClearTimer \in ClipWrites
  /\ clipTurns \in Seq(ClipSteps \X ClipWrites)

\* What would cancel the timer of another write when its turn comes.
Disarms(i) == clipTurns[i][1] \in {"written", "cleared"}

\* A write waits for its turn exactly once.
TurnsAreSingle ==
  /\ \A i \in 1 .. Len(clipTurns) : clipTurns[i][1] = "written" => clipWrite[clipTurns[i][2]] = "writing"
  /\ \A i, j \in 1 .. Len(clipTurns) :
       clipTurns[i][1] = "written" /\ clipTurns[j][1] = "written" /\ clipTurns[i][2] = clipTurns[j][2] => i = j

\* Turns come in the order of the provider's calls: behind the turn of the write whose
\* text is on the clipboard nothing waits that would disarm its timer.
LastWriteIsLast(w) ==
  /\ clipWrite[w] \in {"writing", "over"} /\ clipboard.text = ClipTextOf[w]
  /\ clipWrite[w] = "over" => \A i \in 1 .. Len(clipTurns) : ~Disarms(i)
  /\ clipWrite[w] = "over" /\ w \in ClipSensitive => autoClearTimer \in {w, "none"}
  /\ clipWrite[w] = "writing" =>
       \A i \in 1 .. Len(clipTurns) :
         clipTurns[i] = <<"written", w>> => \A j \in 1 .. Len(clipTurns) : j > i => ~Disarms(j)
TextIsLast == clipboard.from \in ClipWrites => LastWriteIsLast(clipboard.from)

Watched(w) ==
  \/ w \in waived
  \/ timerArmed /\ ClipTextOf[autoClearTimer] = clipboard.text
  \/ \E i \in 1 .. Len(clipTurns) : clipTurns[i][1] = "same" /\ ClipTextOf[clipTurns[i][2]] = clipboard.text
TextIsWatched == clipboard.from \in ClipSensitive /\ clipWrite[clipboard.from] = "over" => Watched(clipboard.from)

ClipIInv == ClipTypeOK /\ TurnsAreSingle /\ TextIsLast /\ TextIsWatched

\* A turn is taken from the front ...
LEMMA TurnTaken ==
  ASSUME ClipTypeOK, NEW step, NEW w, Turn(step, w)
  PROVE  /\ Len(clipTurns) \in Nat /\ Len(clipTurns) >= 1
         /\ clipTurns[1][1] = step /\ clipTurns[1][2] = w /\ clipTurns[1] = <<step, w>>
         /\ Tail(clipTurns) \in Seq(ClipSteps \X ClipWrites)
         /\ Len(Tail(clipTurns)) = Len(clipTurns) - 1
         /\ \A i \in 1 .. Len(clipTurns) - 1 : Tail(clipTurns)[i] = clipTurns[i + 1]
  BY DEF ClipTypeOK, Turn

\* ... and put at the end.
LEMMA TurnAdded ==
  ASSUME NEW turns \in Seq(ClipSteps \X ClipWrites), NEW step \in ClipSteps, NEW w \in ClipWrites
  PROVE  /\ Append(turns, <<step, w>>) \in Seq(ClipSteps \X ClipWrites)
         /\ Len(turns) \in Nat /\ Len(Append(turns, <<step, w>>)) = Len(turns) + 1
         /\ \A i \in 1 .. Len(turns) : Append(turns, <<step, w>>)[i] = turns[i]
         /\ Append(turns, <<step, w>>)[Len(turns) + 1] = <<step, w>>
         /\ Append(turns, <<step, w>>)[Len(turns) + 1][1] = step
         /\ Append(turns, <<step, w>>)[Len(turns) + 1][2] = w
  OBVIOUS

LEMMA WriteTextStep ==
  ASSUME ClipIInv, NEW w \in ClipWrites, WriteText(w)
  PROVE  ClipIInv'
  <1> USE ClipAssumption DEF ClipIInv
  <1>1. /\ clipTurns' \in Seq(ClipSteps \X ClipWrites)
        /\ Len(clipTurns) \in Nat /\ Len(clipTurns') = Len(clipTurns) + 1
        /\ \A i \in 1 .. Len(clipTurns) : clipTurns'[i] = clipTurns[i]
        /\ clipTurns'[Len(clipTurns) + 1] = <<"written", w>>
        /\ clipTurns'[Len(clipTurns) + 1][1] = "written" /\ clipTurns'[Len(clipTurns) + 1][2] = w
    BY TurnAdded DEF WriteText, Later, ClipTypeOK, ClipSteps
  <1>2. /\ clipWrite[w] = "leasing" /\ clipWrite' = [clipWrite EXCEPT ![w] = "writing"]
        /\ clipboard'.text = ClipTextOf[w] /\ clipboard'.from = w /\ clipboard' \in ClipTexts
        /\ UNCHANGED <<autoClearTimer, timerArmed, waived>>
    BY DEF WriteText, ClipTexts
  <1>3. ClipTypeOK'
    BY <1>1, <1>2 DEF ClipTypeOK
  <1>4. TurnsAreSingle'
    <2>1. \A i \in 1 .. Len(clipTurns') : i = Len(clipTurns) + 1 \/ (i \in 1 .. Len(clipTurns) /\ clipTurns'[i] = clipTurns[i])
      BY <1>1
    <2>2. \A i \in 1 .. Len(clipTurns) :
            clipTurns[i][1] = "written" => clipWrite[clipTurns[i][2]] = "writing" /\ clipTurns[i][2] # w
      BY <1>2 DEF TurnsAreSingle
    <2>3. \A x \in ClipWrites \ {w} : clipWrite'[x] = clipWrite[x]
      BY <1>2 DEF ClipTypeOK
    <2>4. \A i \in 1 .. Len(clipTurns) : clipTurns[i][2] \in ClipWrites
      BY DEF ClipTypeOK
    <2>5. clipWrite'[w] = "writing"
      BY <1>2 DEF ClipTypeOK
    <2>6. \A i \in 1 .. Len(clipTurns') : clipTurns'[i][1] = "written" => clipWrite'[clipTurns'[i][2]] = "writing"
      BY <1>1, <2>1, <2>2, <2>3, <2>4, <2>5
    <2>7. \A i, j \in 1 .. Len(clipTurns') :
            clipTurns'[i][1] = "written" /\ clipTurns'[j][1] = "written" /\ clipTurns'[i][2] = clipTurns'[j][2] => i = j
      BY <1>1, <2>1, <2>2 DEF TurnsAreSingle
    <2> QED
      BY <2>6, <2>7 DEF TurnsAreSingle
  <1>5. TextIsLast'
    <2>1. clipWrite'[w] = "writing"
      BY <1>2 DEF ClipTypeOK
    <2>2. \A i \in 1 .. Len(clipTurns) : clipTurns'[i] # <<"written", w>>
      BY <1>1, <1>2 DEF TurnsAreSingle
    <2> QED
      BY <1>1, <1>2, <2>1, <2>2 DEF TextIsLast, LastWriteIsLast
  <1>6. TextIsWatched'
    BY <1>2 DEF TextIsWatched, ClipTypeOK
  <1> QED
    BY <1>3, <1>4, <1>5, <1>6

\* The turn of a write: if its text is still there, no other turn was behind it.
LEMMA WrittenStep ==
  ASSUME ClipIInv, NEW w \in ClipWrites, Written(w)
  PROVE  ClipIInv'
  <1> USE ClipAssumption DEF ClipIInv
  <1>1. /\ Len(clipTurns) \in Nat /\ Len(clipTurns) >= 1
        /\ clipTurns[1][1] = "written" /\ clipTurns[1][2] = w /\ clipTurns[1] = <<"written", w>>
        /\ clipTurns' \in Seq(ClipSteps \X ClipWrites) /\ Len(clipTurns') = Len(clipTurns) - 1
        /\ \A i \in 1 .. Len(clipTurns) - 1 : clipTurns'[i] = clipTurns[i + 1]
    BY TurnTaken DEF Written
  <1>2. clipWrite[w] = "writing" /\ \A i \in 2 .. Len(clipTurns) : ~(clipTurns[i][1] = "written" /\ clipTurns[i][2] = w)
    BY <1>1 DEF TurnsAreSingle
  <1>3. /\ clipWrite' = [clipWrite EXCEPT ![w] = "over"] /\ UNCHANGED <<clipboard, waived>>
        /\ w \in ClipSensitive => autoClearTimer' = w /\ timerArmed' = TRUE
        /\ w \notin ClipSensitive => autoClearTimer' = "none" /\ timerArmed' = FALSE
    BY DEF Written, Arms, ClearTimeout
  <1>4. ClipTypeOK'
    BY <1>1, <1>3 DEF ClipTypeOK
  <1>5. TurnsAreSingle'
    <2>1. \A i \in 1 .. Len(clipTurns') : i + 1 \in 2 .. Len(clipTurns) /\ clipTurns'[i] = clipTurns[i + 1]
      BY <1>1
    <2>2. \A i \in 2 .. Len(clipTurns) :
            clipTurns[i][1] = "written" => clipWrite[clipTurns[i][2]] = "writing" /\ clipTurns[i][2] # w
      BY <1>2 DEF TurnsAreSingle
    <2>3. \A x \in ClipWrites \ {w} : clipWrite'[x] = clipWrite[x]
      BY <1>3 DEF ClipTypeOK
    <2>4. \A i \in 2 .. Len(clipTurns) : clipTurns[i][2] \in ClipWrites
      BY DEF ClipTypeOK
    <2>5. \A i, j \in 2 .. Len(clipTurns) :
            clipTurns[i][1] = "written" /\ clipTurns[j][1] = "written" /\ clipTurns[i][2] = clipTurns[j][2] => i = j
      BY <1>1 DEF TurnsAreSingle
    <2>6. \A i \in 1 .. Len(clipTurns') : clipTurns'[i][1] = "written" => clipWrite'[clipTurns'[i][2]] = "writing"
      BY <2>1, <2>2, <2>3, <2>4
    <2>7. \A i, j \in 1 .. Len(clipTurns') :
            clipTurns'[i][1] = "written" /\ clipTurns'[j][1] = "written" /\ clipTurns'[i][2] = clipTurns'[j][2] => i = j
      BY <2>1, <2>5
    <2> QED
      BY <2>6, <2>7 DEF TurnsAreSingle
  <1>6. CASE clipboard.from = w
    <2>1. clipWrite'[w] = "over" /\ clipboard'.from = w /\ clipboard'.text = ClipTextOf[w]
      BY <1>3, <1>6 DEF ClipTypeOK, TextIsLast, LastWriteIsLast
    <2>2. \A j \in 2 .. Len(clipTurns) : ~Disarms(j)
      BY <1>1, <1>2, <1>6 DEF TextIsLast, LastWriteIsLast
    <2>3. \A i \in 1 .. Len(clipTurns') : clipTurns'[i][1] \notin {"written", "cleared"}
      BY <1>1, <2>2 DEF Disarms
    <2>4. TextIsLast'
      BY <1>3, <2>1, <2>3 DEF TextIsLast, LastWriteIsLast, Disarms
    <2>5. TextIsWatched'
      BY <1>3, <2>1 DEF TextIsWatched, Watched
    <2> QED
      BY <1>4, <1>5, <2>4, <2>5
  <1>7. CASE clipboard.from # w
    <2> DEFINE x == clipboard.from
    <2>1. x \in ClipWrites => clipWrite[x] = "writing" /\ clipWrite'[x] = "writing"
      <3> SUFFICES ASSUME x \in ClipWrites PROVE clipWrite[x] = "writing" /\ clipWrite'[x] = "writing"
        OBVIOUS
      <3>1. Disarms(1) /\ 1 \in 1 .. Len(clipTurns)
        BY <1>1 DEF Disarms
      <3>2. clipWrite[x] = "writing"
        BY <3>1 DEF TextIsLast, LastWriteIsLast
      <3> QED
        BY <1>3, <1>7, <3>2 DEF ClipTypeOK
    <2>2. TextIsLast'
      <3> SUFFICES ASSUME x \in ClipWrites PROVE LastWriteIsLast(x)'
        BY <1>3 DEF TextIsLast
      <3>1. ASSUME NEW i \in 1 .. Len(clipTurns'), clipTurns'[i] = <<"written", x>>, NEW j \in 1 .. Len(clipTurns'), j > i
            PROVE  clipTurns'[j][1] \notin {"written", "cleared"}
        <4>1. i + 1 \in 1 .. Len(clipTurns) /\ j + 1 \in 1 .. Len(clipTurns) /\ j + 1 > i + 1
          BY <1>1, <3>1
        <4>2. clipTurns[i + 1] = <<"written", x>> /\ clipTurns'[j] = clipTurns[j + 1]
          BY <1>1, <3>1
        <4>3. ~Disarms(j + 1)
          BY <2>1, <4>1, <4>2 DEF TextIsLast, LastWriteIsLast
        <4> QED
          BY <4>2, <4>3 DEF Disarms
      <3>2. clipboard'.text = ClipTextOf[x]
        BY <1>3 DEF TextIsLast, LastWriteIsLast
      <3> QED
        BY <1>3, <2>1, <3>1, <3>2 DEF LastWriteIsLast, Disarms
    <2>3. TextIsWatched'
      BY <1>3, <2>1 DEF TextIsWatched
    <2> QED
      BY <1>4, <1>5, <2>2, <2>3
  <1> QED
    BY <1>6, <1>7

\* Another turn is taken; what it does to the clipboard and the timer is given.
LEMMA TurnStep ==
  ASSUME ClipIInv, NEW w \in ClipWrites, NEW step \in {"same", "other", "cleared"}, Turn(step, w),
         clipTurns' = Tail(clipTurns), UNCHANGED <<clipboard, clipWrite>>,
         \/ step # "cleared" /\ UNCHANGED <<autoClearTimer, timerArmed>>
         \/ step = "cleared" /\ autoClearTimer' = "none" /\ timerArmed' = FALSE,
         waived' = IF step = "same" THEN waived \cup ({w, clipboard.from} \cap ClipWrites) ELSE waived
  PROVE  ClipIInv'
  <1> USE ClipAssumption DEF ClipIInv
  <1>1. /\ Len(clipTurns) \in Nat /\ Len(clipTurns) >= 1
        /\ clipTurns[1][1] = step /\ clipTurns[1][2] = w
        /\ clipTurns' \in Seq(ClipSteps \X ClipWrites) /\ Len(clipTurns') = Len(clipTurns) - 1
        /\ \A i \in 1 .. Len(clipTurns) - 1 : clipTurns'[i] = clipTurns[i + 1]
    BY TurnTaken
  <1>2. ClipTypeOK'
    <2>1. /\ autoClearTimer' \in ClipWrites \cup {"none"} /\ timerArmed' \in BOOLEAN
          /\ timerArmed' => autoClearTimer' \in ClipWrites
      <3>1. CASE UNCHANGED <<autoClearTimer, timerArmed>>
        BY <3>1 DEF ClipTypeOK
      <3>2. CASE autoClearTimer' = "none" /\ timerArmed' = FALSE
        BY <3>2
      <3> QED
        BY <3>1, <3>2
    <2> QED
      BY <1>1, <2>1 DEF ClipTypeOK
  <1>3. TurnsAreSingle'
    <2>1. \A i \in 1 .. Len(clipTurns') : i + 1 \in 1 .. Len(clipTurns) /\ clipTurns'[i] = clipTurns[i + 1]
      BY <1>1
    <2>2. \A i \in 1 .. Len(clipTurns') : clipTurns'[i][1] = "written" => clipWrite'[clipTurns'[i][2]] = "writing"
      BY <2>1 DEF TurnsAreSingle
    <2>3. \A i, j \in 1 .. Len(clipTurns') :
            clipTurns'[i][1] = "written" /\ clipTurns'[j][1] = "written" /\ clipTurns'[i][2] = clipTurns'[j][2] => i = j
      BY <2>1 DEF TurnsAreSingle
    <2> QED
      BY <2>2, <2>3 DEF TurnsAreSingle
  <1>4. TextIsLast'
    BY <1>1, SMTT(30) DEF TextIsLast, LastWriteIsLast, Disarms, ClipTypeOK
  <1>5. TextIsWatched'
    <2> DEFINE x == clipboard.from
    <2> SUFFICES ASSUME x \in ClipSensitive, clipWrite[x] = "over" PROVE Watched(x)'
      BY DEF TextIsWatched
    <2>1. x \in ClipWrites /\ step # "cleared"
      BY <1>1 DEF TextIsLast, LastWriteIsLast, Disarms
    <2>2. CASE step = "same"
      BY <2>1, <2>2 DEF Watched
    <2>3. CASE step = "other"
      <3>1. Watched(x)
        BY DEF TextIsWatched
      <3>2. CASE \E i \in 1 .. Len(clipTurns) : clipTurns[i][1] = "same" /\ ClipTextOf[clipTurns[i][2]] = clipboard.text
        <4>1. PICK i \in 1 .. Len(clipTurns) : clipTurns[i][1] = "same" /\ ClipTextOf[clipTurns[i][2]] = clipboard.text
          BY <3>2
        <4>2. i - 1 \in 1 .. Len(clipTurns') /\ clipTurns'[i - 1] = clipTurns[i]
          BY <1>1, <2>3, <4>1
        <4> QED
          BY <4>1, <4>2 DEF Watched
      <3> QED
        BY <2>3, <3>1, <3>2 DEF Watched
    <2> QED
      BY <2>1, <2>2, <2>3
  <1> QED
    BY <1>2, <1>3, <1>4, <1>5

\* The text is taken off the clipboard, or replaced by one that is not the agent's.
LEMMA TextGone ==
  ASSUME ClipIInv, clipboard'.from \notin ClipWrites, clipboard' \in ClipTexts, UNCHANGED clipWrite,
         autoClearTimer' \in ClipWrites \cup {"none"}, timerArmed' \in BOOLEAN,
         timerArmed' => autoClearTimer' \in ClipWrites,
         clipTurns' \in Seq(ClipSteps \X ClipWrites), TurnsAreSingle'
  PROVE  ClipIInv'
  BY ClipAssumption DEF ClipIInv, ClipTypeOK, TextIsLast, TextIsWatched

\* The timer is cleared because the write it was set for is waived.
LEMMA WaivedStep ==
  ASSUME ClipIInv, UNCHANGED <<clipboard, clipWrite, clipTurns>>,
         autoClearTimer' = "none", timerArmed' = FALSE, waived' = waived \cup ({autoClearTimer} \ {"none"})
  PROVE  ClipIInv'
  <1> USE ClipAssumption DEF ClipIInv
  <1>1. ClipTypeOK' /\ TurnsAreSingle'
    BY DEF ClipTypeOK, TurnsAreSingle
  <1>2. TextIsLast'
    BY DEF TextIsLast, LastWriteIsLast, Disarms
  <1>3. TextIsWatched'
    <2> SUFFICES ASSUME clipboard.from \in ClipSensitive, clipWrite[clipboard.from] = "over"
                 PROVE  Watched(clipboard.from)'
      BY DEF TextIsWatched
    <2>1. Watched(clipboard.from) /\ autoClearTimer \in {clipboard.from, "none"}
      BY DEF TextIsWatched, TextIsLast, LastWriteIsLast
    <2>2. timerArmed => autoClearTimer # "none"
      BY DEF ClipTypeOK
    <2> QED
      BY <2>1, <2>2 DEF Watched
  <1> QED
    BY <1>1, <1>2, <1>3

\* The timer goes off: what is to be cleared is looked at first.
LEMMA TimerFiresStep == ASSUME ClipIInv, TimerFires PROVE ClipIInv'
  <1> USE ClipAssumption DEF ClipIInv
  <1>1. PICK step \in {"same", "other"} :
          /\ clipTurns' = Append(clipTurns, <<step, autoClearTimer>>)
          /\ clipboard.text = ClipTextOf[autoClearTimer] => step = "same"
    BY DEF TimerFires, Later
  <1>2. autoClearTimer \in ClipWrites /\ step \in ClipSteps
    BY DEF TimerFires, ClipTypeOK, ClipSteps
  <1>3. /\ clipTurns' \in Seq(ClipSteps \X ClipWrites)
        /\ Len(clipTurns) \in Nat /\ Len(clipTurns') = Len(clipTurns) + 1
        /\ \A i \in 1 .. Len(clipTurns) : clipTurns'[i] = clipTurns[i]
        /\ clipTurns'[Len(clipTurns) + 1][1] = step /\ clipTurns'[Len(clipTurns) + 1][2] = autoClearTimer
    BY <1>1, <1>2, TurnAdded DEF ClipTypeOK
  <1>4. UNCHANGED <<clipboard, clipWrite, autoClearTimer, waived>> /\ timerArmed' = FALSE
    BY DEF TimerFires
  <1>5. \A i \in 1 .. Len(clipTurns') :
          \/ i = Len(clipTurns) + 1 /\ clipTurns'[i][1] \notin {"written", "cleared"}
          \/ i \in 1 .. Len(clipTurns) /\ clipTurns'[i] = clipTurns[i]
    BY <1>3
  <1>6. ClipTypeOK'
    BY <1>3, <1>4 DEF ClipTypeOK
  <1>7. TurnsAreSingle'
    <2>1. \A i \in 1 .. Len(clipTurns') :
            clipTurns'[i][1] = "written" => i \in 1 .. Len(clipTurns) /\ clipTurns'[i] = clipTurns[i]
      BY <1>5
    <2>2. TurnsAreSingle
      OBVIOUS
    <2>3. \A i \in 1 .. Len(clipTurns') : clipTurns'[i][1] = "written" => clipWrite'[clipTurns'[i][2]] = "writing"
      BY <1>4, <2>1, <2>2 DEF TurnsAreSingle
    <2>4. \A i, j \in 1 .. Len(clipTurns') :
            clipTurns'[i][1] = "written" /\ clipTurns'[j][1] = "written" /\ clipTurns'[i][2] = clipTurns'[j][2] => i = j
      BY <2>1, <2>2 DEF TurnsAreSingle
    <2> QED
      BY <2>3, <2>4 DEF TurnsAreSingle
  <1>8. TextIsLast'
    <2> SUFFICES ASSUME clipboard.from \in ClipWrites PROVE LastWriteIsLast(clipboard.from)'
      BY <1>4 DEF TextIsLast
    <2>1. PICK x \in ClipWrites : x = clipboard.from /\ x = clipboard'.from /\ LastWriteIsLast(x)
      BY <1>4 DEF TextIsLast
    <2>2. clipWrite'[x] = "over" => \A i \in 1 .. Len(clipTurns') : clipTurns'[i][1] \notin {"written", "cleared"}
      BY <1>4, <1>5, <2>1 DEF LastWriteIsLast, Disarms
    <2>3. clipWrite'[x] = "writing" =>
            \A i \in 1 .. Len(clipTurns') :
              clipTurns'[i] = <<"written", x>> =>
                \A j \in 1 .. Len(clipTurns') : j > i => clipTurns'[j][1] \notin {"written", "cleared"}
      BY <1>3, <1>4, <1>5, <2>1 DEF LastWriteIsLast, Disarms
    <2> QED
      BY <1>4, <2>1, <2>2, <2>3 DEF LastWriteIsLast, Disarms
  <1>9. TextIsWatched'
    <2> SUFFICES ASSUME clipboard.from \in ClipSensitive, clipWrite[clipboard.from] = "over"
                 PROVE  Watched(clipboard.from)'
      BY <1>4 DEF TextIsWatched
    <2>1. Watched(clipboard.from)
      BY DEF TextIsWatched
    <2>2. Len(clipTurns) + 1 \in 1 .. Len(clipTurns') /\ \A i \in 1 .. Len(clipTurns) : i \in 1 .. Len(clipTurns')
      BY <1>3
    <2>3. CASE ClipTextOf[autoClearTimer] = clipboard.text
      BY <1>1, <1>3, <1>4, <2>2, <2>3 DEF Watched
    <2>4. CASE \E i \in 1 .. Len(clipTurns) : clipTurns[i][1] = "same" /\ ClipTextOf[clipTurns[i][2]] = clipboard.text
      BY <1>3, <1>4, <2>2, <2>4 DEF Watched
    <2> QED
      BY <1>4, <2>1, <2>3, <2>4 DEF Watched
  <1> QED
    BY <1>6, <1>7, <1>8, <1>9

LEMMA AutoClearStep ==
  ASSUME ClipIInv, NEW w \in ClipWrites, AutoClear(w)
  PROVE  ClipIInv'
  <1> USE ClipAssumption
  <1>1. /\ Len(clipTurns) \in Nat /\ Len(clipTurns) >= 1
        /\ Tail(clipTurns) \in Seq(ClipSteps \X ClipWrites)
        /\ Len(Tail(clipTurns)) = Len(clipTurns) - 1
        /\ \A i \in 1 .. Len(clipTurns) - 1 : Tail(clipTurns)[i] = clipTurns[i + 1]
    BY TurnTaken DEF AutoClear, ClipIInv
  <1>2. /\ clipTurns' \in Seq(ClipSteps \X ClipWrites)
        /\ Len(clipTurns') = Len(clipTurns)
        /\ \A i \in 1 .. Len(clipTurns) - 1 : clipTurns'[i] = clipTurns[i + 1]
        /\ clipTurns'[Len(clipTurns)][1] = "cleared"
    <2> DEFINE turns == Tail(clipTurns)
    <2>1. clipTurns' = Append(turns, <<"cleared", w>>) /\ "cleared" \in ClipSteps
      BY DEF AutoClear, ClipSteps
    <2>2. turns \in Seq(ClipSteps \X ClipWrites) /\ Len(turns) = Len(clipTurns) - 1
      BY <1>1
    <2>3. \A i \in 1 .. Len(clipTurns) - 1 : turns[i] = clipTurns[i + 1]
      BY <1>1
    <2> HIDE DEF turns
    <2>4. /\ clipTurns' \in Seq(ClipSteps \X ClipWrites) /\ Len(clipTurns') = Len(turns) + 1
          /\ \A i \in 1 .. Len(turns) : clipTurns'[i] = turns[i]
          /\ clipTurns'[Len(turns) + 1][1] = "cleared"
      BY <2>1, <2>2, TurnAdded
    <2> QED
      BY <1>1, <2>2, <2>3, <2>4
  <1>3. TurnsAreSingle'
    <2>1. \A i \in 1 .. Len(clipTurns') :
            \/ clipTurns'[i][1] # "written"
            \/ i + 1 \in 1 .. Len(clipTurns) /\ clipTurns'[i] = clipTurns[i + 1]
      BY <1>1, <1>2
    <2>2. \A i \in 1 .. Len(clipTurns') : clipTurns'[i][1] = "written" => clipWrite'[clipTurns'[i][2]] = "writing"
      BY <2>1 DEF AutoClear, ClipIInv, TurnsAreSingle
    <2>3. \A i, j \in 1 .. Len(clipTurns') :
            clipTurns'[i][1] = "written" /\ clipTurns'[j][1] = "written" /\ clipTurns'[i][2] = clipTurns'[j][2] => i = j
      BY <1>1, <2>1 DEF ClipIInv, TurnsAreSingle
    <2> QED
      BY <2>2, <2>3 DEF TurnsAreSingle
  <1>4. clipboard'.from \notin ClipWrites /\ clipboard' \in ClipTexts
    BY DEF AutoClear, Empty, ClipTexts
  <1> QED
    BY <1>2, <1>3, <1>4, TextGone DEF AutoClear, ClipIInv, ClipTypeOK

LEMMA ClipStep == ClipIInv /\ [ClipNext]_clipVars => ClipIInv'
  <1> SUFFICES ASSUME ClipIInv, [ClipNext]_clipVars PROVE ClipIInv'
    OBVIOUS
  <1> USE ClipAssumption
  <1>1. ASSUME NEW w \in ClipWrites, WriteClipboard(w) \/ WriteRefused(w) PROVE ClipIInv'
    <2>1. /\ UNCHANGED <<clipboard, autoClearTimer, timerArmed, clipTurns, waived>>
          /\ clipWrite[w] \in {"idle", "leasing"} /\ clipWrite' \in [ClipWrites -> {"idle", "leasing", "writing", "over"}]
          /\ \A x \in ClipWrites \ {w} : clipWrite'[x] = clipWrite[x]
      BY <1>1 DEF WriteClipboard, WriteRefused, ClipIInv, ClipTypeOK
    <2>2. clipboard.from # w
      BY <2>1 DEF ClipIInv, TextIsLast, LastWriteIsLast
    <2>3. ClipTypeOK'
      BY <2>1 DEF ClipIInv, ClipTypeOK
    <2>4. TurnsAreSingle'
      <3>1. \A i \in 1 .. Len(clipTurns) : clipTurns[i][2] \in ClipWrites
        BY DEF ClipIInv, ClipTypeOK
      <3> QED
        BY <2>1, <3>1 DEF ClipIInv, TurnsAreSingle
    <2>5. TextIsLast' /\ TextIsWatched'
      BY <2>1, <2>2 DEF ClipIInv, TextIsLast, LastWriteIsLast, Disarms, TextIsWatched, Watched
    <2> QED
      BY <2>3, <2>4, <2>5 DEF ClipIInv
  <1>2. ASSUME NEW w \in ClipWrites, AutoClearGivesUp(w) PROVE ClipIInv'
    <2>1. CASE Turn("same", w)
      BY <1>2, <2>1, TurnStep DEF AutoClearGivesUp
    <2>2. CASE Turn("other", w) /\ ~Turn("same", w)
      BY <1>2, <2>2, TurnStep DEF AutoClearGivesUp
    <2> QED
      BY <1>2, <2>1, <2>2 DEF AutoClearGivesUp
  <1>3. ASSUME NEW w \in ClipWrites, AutoCleared(w) PROVE ClipIInv'
    BY <1>3, TurnStep DEF AutoCleared, ClearTimeout
  <1>4. CASE ClearClipboard \/ OwnerCopies
    <2>1. clipboard'.from \notin ClipWrites /\ clipboard' \in ClipTexts
      BY <1>4 DEF ClearClipboard, OwnerCopies, Empty, ClipTexts
    <2>2. TurnsAreSingle'
      BY <1>4 DEF ClearClipboard, OwnerCopies, ClipIInv, TurnsAreSingle
    <2>3. UNCHANGED <<clipWrite, clipTurns>>
      BY <1>4 DEF ClearClipboard, OwnerCopies
    <2>4. (autoClearTimer' = "none" /\ timerArmed' = FALSE) \/ UNCHANGED <<autoClearTimer, timerArmed>>
      BY <1>4 DEF ClearClipboard, OwnerCopies, ClearTimeout
    <2>5. /\ autoClearTimer' \in ClipWrites \cup {"none"} /\ timerArmed' \in BOOLEAN
          /\ timerArmed' => autoClearTimer' \in ClipWrites
      <3>1. CASE UNCHANGED <<autoClearTimer, timerArmed>>
        BY <3>1 DEF ClipIInv, ClipTypeOK
      <3>2. CASE autoClearTimer' = "none" /\ timerArmed' = FALSE
        BY <3>2
      <3> QED
        BY <2>4, <3>1, <3>2
    <2> QED
      BY <2>1, <2>2, <2>3, <2>5, TextGone DEF ClipIInv, ClipTypeOK
  <1>5. CASE CancelAutoClear \/ ClipShutdown
    BY <1>5, WaivedStep DEF CancelAutoClear, ClipShutdown, ClearTimeout
  <1>6. CASE UNCHANGED clipVars
    BY <1>6 DEF clipVars, ClipIInv, ClipTypeOK, TurnsAreSingle, TextIsLast, LastWriteIsLast, Disarms, TextIsWatched, Watched
  <1> QED
    BY <1>1, <1>2, <1>3, <1>4, <1>5, <1>6, WriteTextStep, WrittenStep, AutoClearStep, TimerFiresStep DEF ClipNext

(***************************************************************************)
(* However writes, timers, clearings and the owner of the machine come     *)
(* between the calls of the provider: a sensitive text on the clipboard    *)
(* whose write has returned is watched (clipboard-runtime.ts,              *)
(* writeClipboard and performAutoClear).                                   *)
(***************************************************************************)
THEOREM SensitiveIsAlwaysWatched == ClipSpec => []SensitiveIsWatched
  <1>1. ClipInit => ClipIInv
    <2> SUFFICES ASSUME ClipInit PROVE ClipIInv
      OBVIOUS
    <2>1. clipboard \in ClipTexts /\ clipboard.from \notin ClipWrites
      BY ClipAssumption DEF ClipInit, Empty, ClipTexts
    <2>2. ClipTypeOK
      <3>1. autoClearTimer = "none" /\ timerArmed = FALSE /\ clipTurns = <<>>
        BY DEF ClipInit
      <3>2. clipTurns \in Seq(ClipSteps \X ClipWrites)
        BY <3>1
      <3>3. timerArmed \in BOOLEAN /\ ~timerArmed
        BY <3>1
      <3>4. clipWrite \in [ClipWrites -> {"idle", "leasing", "writing", "over"}]
        BY DEF ClipInit
      <3> QED
        BY <2>1, <3>1, <3>2, <3>3, <3>4 DEF ClipTypeOK
    <2>3. TurnsAreSingle
      BY DEF ClipInit, TurnsAreSingle
    <2> QED
      BY <2>1, <2>2, <2>3, ClipAssumption DEF ClipIInv, TextIsLast, TextIsWatched
  <1>2. ClipIInv => SensitiveIsWatched
    <2> SUFFICES ASSUME ClipIInv PROVE SensitiveIsWatched
      OBVIOUS
    <2>1. DOMAIN clipTurns = 1 .. Len(clipTurns)
      BY DEF ClipIInv, ClipTypeOK
    <2>2. ReadClipboard.text = clipboard.text
      BY DEF ReadClipboard
    <2> QED
      BY <2>1, <2>2 DEF ClipIInv, TextIsWatched, Watched, SensitiveIsWatched
  <1> QED
    BY <1>1, <1>2, ClipStep, PTL DEF ClipSpec

(***************************************************************************)
(* Both clipboards at once: the device runtime's is empty while the agent  *)
(* is stopped, the system's is watched (device/runtime.ts,                 *)
(* clipboard-runtime.ts).                                                  *)
(***************************************************************************)
THEOREM ClipboardsAlwaysContained == DeviceSpec /\ ClipSpec => []ClipboardsContained
  BY StopAlwaysLeavesNothing, SensitiveIsAlwaysWatched, PTL DEF ClipboardsContained

-----------------------------------------------------------------------------
(* The scheduler.                                                          *)

\* An item is in a lane; and once at most.
Holds(items, c) == \E i \in DOMAIN items : items[i] = c
Once(items, c) == \A i, j \in DOMAIN items : items[i] = c /\ items[j] = c => i = j

LEMMA AppendHolds ==
  ASSUME NEW items \in Seq(Calls), NEW c \in Calls
  PROVE  /\ Append(items, c) \in Seq(Calls)
         /\ \A d : Holds(Append(items, c), d) <=> Holds(items, d) \/ d = c
         /\ \A d : Once(items, d) /\ (d = c => ~Holds(items, c)) => Once(Append(items, c), d)
  <1>1. /\ Append(items, c) \in Seq(Calls) /\ Len(Append(items, c)) = Len(items) + 1 /\ Len(items) \in Nat
        /\ \A i \in 1 .. Len(items) : Append(items, c)[i] = items[i]
        /\ Append(items, c)[Len(items) + 1] = c
    OBVIOUS
  <1> DEFINE s == Append(items, c)
  <1> HIDE DEF s
  <1>2. DOMAIN s = 1 .. Len(items) + 1 /\ DOMAIN items = 1 .. Len(items)
    BY <1>1 DEF s
  <1>3. \A i \in DOMAIN s : (i \in DOMAIN items /\ s[i] = items[i]) \/ (i = Len(items) + 1 /\ s[i] = c)
    BY <1>1, <1>2 DEF s
  <1>4. \A d : Once(items, d) /\ (d = c => ~Holds(items, c)) => Once(s, d)
    BY <1>1, <1>2, <1>3 DEF Once, Holds, s
  <1>5. \A d : Holds(s, d) <=> Holds(items, d) \/ d = c
    BY <1>1, <1>2, <1>3 DEF Holds, s
  <1> QED
    BY <1>1, <1>4, <1>5 DEF s

LEMMA WithoutHolds ==
  ASSUME NEW items \in Seq(Calls), NEW i \in DOMAIN items
  PROVE  /\ Without(items, i) \in Seq(Calls)
         /\ \A d : Holds(Without(items, i), d) => Holds(items, d)
         /\ \A d : Once(items, d) => Once(Without(items, i), d)
         /\ Once(items, items[i]) => ~Holds(Without(items, i), items[i])
  <1> DEFINE r == Without(items, i)
  <1>1. /\ r \in Seq(Calls) /\ Len(r) = Len(items) - 1 /\ Len(items) \in Nat /\ i \in 1 .. Len(items)
        /\ \A k \in 1 .. Len(items) - 1 : r[k] = IF k < i THEN items[k] ELSE items[k + 1]
    BY WithoutPlace
  <1> HIDE DEF r
  <1>2. DOMAIN r = 1 .. Len(items) - 1 /\ DOMAIN items = 1 .. Len(items)
    BY <1>1
  <1> DEFINE old(k) == IF k < i THEN k ELSE k + 1
  <1>3. \A k \in DOMAIN r : old(k) \in DOMAIN items \ {i} /\ r[k] = items[old(k)]
    BY <1>1, <1>2
  <1>4. \A k, l \in DOMAIN r : old(k) = old(l) => k = l
    BY <1>1, <1>2
  <1> HIDE DEF old
  <1>5. \A d : Once(items, d) => Once(r, d)
    BY <1>3, <1>4 DEF Once
  <1>6. (\A d : Holds(r, d) => Holds(items, d)) /\ (Once(items, items[i]) => ~Holds(r, items[i]))
    BY <1>3 DEF Holds, Once
  <1> QED
    BY <1>1, <1>5, <1>6 DEF r

LEMMA TailHolds ==
  ASSUME NEW items \in Seq(Calls), items # <<>>
  PROVE  /\ Tail(items) \in Seq(Calls) /\ Holds(items, Head(items)) /\ Head(items) \in Calls
         /\ \A d : Holds(Tail(items), d) => Holds(items, d)
         /\ \A d : Once(items, d) => Once(Tail(items), d)
         /\ Once(items, Head(items)) => ~Holds(Tail(items), Head(items))
  <1>1. /\ Len(items) \in Nat /\ Len(items) > 0 /\ DOMAIN items = 1 .. Len(items) /\ Head(items) = items[1]
        /\ Tail(items) \in Seq(Calls) /\ Len(Tail(items)) = Len(items) - 1
        /\ \A k \in 1 .. Len(items) - 1 : Tail(items)[k] = items[k + 1]
    OBVIOUS
  <1> DEFINE r == Tail(items)
  <1>2. DOMAIN r = 1 .. Len(items) - 1
    BY <1>1
  <1> HIDE DEF r
  <1>3. \A k \in DOMAIN r : k + 1 \in DOMAIN items /\ k + 1 # 1 /\ r[k] = items[k + 1]
    BY <1>1, <1>2 DEF r
  <1>4. \A k, l \in DOMAIN r : k + 1 = l + 1 => k = l
    BY <1>1, <1>2
  <1>5. \A d : Once(items, d) => Once(r, d)
    BY <1>3, <1>4 DEF Once
  <1>6. 1 \in DOMAIN items
    BY <1>1
  <1>7. (\A d : Holds(r, d) => Holds(items, d)) /\ (Once(items, Head(items)) => ~Holds(r, Head(items)))
    BY <1>1, <1>3, <1>6 DEF Holds, Once
  <1> QED
    BY <1>1, <1>5, <1>6, <1>7 DEF Holds, r

LEMMA ItemsAtHolds ==
  ASSUME NEW items \in Seq(Calls), NEW places, places \subseteq DOMAIN items
  PROVE  /\ ItemsAt(items, places) \in Seq(Calls)
         /\ \A d : Once(items, d) => Once(ItemsAt(items, places), d)
         /\ \A d : Holds(ItemsAt(items, places), d) => Holds(items, d)
  <1> DEFINE r == ItemsAt(items, places)
  <1>1. r \in Seq(Calls) /\ Len(r) = Cardinality(places) /\ InOrderAt(r, items, places)
    BY ItemsAtPlaces
  <1> HIDE DEF r
  <1>2. PICK at \in [1 .. Cardinality(places) -> places] :
          /\ \A k \in 1 .. Cardinality(places) : r[k] = items[at[k]]
          /\ \A k, l \in 1 .. Cardinality(places) : k < l => at[k] < at[l]
    BY <1>1 DEF InOrderAt
  <1>3. DOMAIN r = 1 .. Cardinality(places) /\ Cardinality(places) \in Nat /\ DOMAIN items \subseteq Nat
    BY <1>1
  <1>4. \A k \in DOMAIN r : at[k] \in DOMAIN items /\ at[k] \in Nat /\ k \in Nat /\ r[k] = items[at[k]]
    BY <1>2, <1>3
  <1>5. ASSUME NEW d, Once(items, d) PROVE Once(r, d)
    <2> SUFFICES ASSUME NEW k \in DOMAIN r, NEW l \in DOMAIN r, r[k] = d, r[l] = d PROVE k = l
      BY DEF Once
    <2>1. at[k] = at[l]
      BY <1>4, <1>5 DEF Once
    <2>2. ~(k < l) /\ ~(l < k)
      BY <1>2, <1>3, <1>4, <2>1
    <2> QED
      BY <1>4, <2>2
  <1>6. \A d : Holds(r, d) => Holds(items, d)
    BY <1>4 DEF Holds
  <1> QED
    BY <1>1, <1>5, <1>6 DEF r

\* Who has the item of a call: a lane, the loop or the call itself.
Waits(c) == Holds(queue, c) \/ Holds(retries, c)
LoopHolds(c) == loop.item = c /\ loop.at \notin {"reindexing", "restoring"}
CallHolds(c) == pc[c] \in {"unindexing", "unstoring", "executing"}

SchedulerTypes ==
  /\ pc \in [Calls -> {"idle", "indexing", "storing", "dispatching", "validating", "unindexing",
                       "unstoring", "executing", "reindexing", "restoring", "done"}]
  /\ loop \in [at : {"off", "validating", "unindexing", "dropping", "forgetting", "unstoring", "executing",
                     "reindexing", "restoring"}, item : Calls \cup {None}]
  /\ loop.at = "off" <=> loop.item = None
  /\ cancel \in [at : {"off", "checkpointing", "unindexing", "unstoring"}, task : Tasks \cup {None}]
  /\ queue \in Seq(Calls) /\ retries \in Seq(Calls)
  /\ stored \in [Tasks -> Calls \cup {None}]
  /\ boot = [on |-> boot.on, left |-> boot.left, kept |-> boot.kept]
  /\ enqueued \subseteq Calls

\* An item comes from a call that queued it.
AreEnqueued ==
  /\ \A c \in Calls : Waits(c) \/ loop.item = c \/ pc[c] \notin {"idle", "done"} => c \in enqueued
  /\ \A c \in enqueued : pc[c] # "idle"
  /\ \A t \in Tasks : stored[t] # None => TaskOf[stored[t]] = t /\ stored[t] \in enqueued
  /\ cancel.at # "off" => \E c \in enqueued : TaskOf[c] = cancel.task

\* While initialize is under way no call is; of a task it has not looked at there is
\* nothing but the entry and the record, and the others that wait are in remainingIndex.
Booting ==
  boot.on =>
    /\ \A c \in Calls : /\ pc[c] \in {"idle", "done"}
                        /\ Waits(c) \/ loop.item = c => TaskOf[c] \in boot.kept
    /\ \A t \in boot.left : t # "null" /\ t \in ListedTasks \cup lost /\ (cancel.at # "off" => cancel.task # t)
    /\ \A c \in Calls : TaskOf[c] \in boot.left => ~Waits(c) /\ loop.item # c

\* Of an item whose task no other call has queued: somebody has it;
OneToken(c) ==
  /\ Once(queue, c) /\ Once(retries, c)
  /\ ~(Holds(queue, c) /\ Holds(retries, c))
  /\ Waits(c) => ~LoopHolds(c) /\ ~CallHolds(c)
  /\ LoopHolds(c) => ~CallHolds(c)

\* while it waits its record is there
Persisted(c) ==
  Waits(c) /\ pc[c] \in {"dispatching", "validating", "done"} /\ loop.item # c => stored[TaskOf[c]] = c

\* and its entry, unless another handler's write has taken it out;
Entered(c) ==
  Waits(c) /\ pc[c] \notin {"indexing", "reindexing"} /\ ~(loop.item = c /\ loop.at = "reindexing")
  => TaskOf[c] \in ListedTasks \cup lost

\* and while a cancellation is under way nobody has the item it took.
CancelAlone(c) ==
  cancel.at # "off" /\ cancel.task = TaskOf[c] => ~Waits(c) /\ ~LoopHolds(c) /\ ~CallHolds(c)

ItsOwn(c) == OneToken(c) /\ Persisted(c) /\ Entered(c) /\ CancelAlone(c)

SchedulerIInv ==
  /\ SchedulerTypes /\ AreEnqueued /\ Booting
  /\ \A c \in Calls : Alone(TaskOf[c]) => ItsOwn(c)

LEMMA SchedulerStarts == Init => SchedulerIInv
  <1> SUFFICES ASSUME Init PROVE SchedulerIInv
    OBVIOUS
  <1>1. SchedulerTypes
    BY DEF Init, SchedulerTypes, Off, NoCancel, NoBoot, None
  <1>2. \A c : ~Holds(<<>>, c) /\ Once(<<>>, c)
    BY DEF Holds, Once
  <1> QED
    BY <1>1, <1>2, SchedulerAssumption
       DEF Init, SchedulerIInv, AreEnqueued, Booting, ItsOwn, OneToken, Persisted, Entered, CancelAlone,
           Off, NoCancel, NoBoot, None, Waits, LoopHolds, CallHolds

\* Two calls that have queued items of a task that one call has queued are one.
LEMMA Same ==
  ASSUME NEW c \in enqueued, NEW d \in enqueued, TaskOf[c] = TaskOf[d], Alone(TaskOf[c]) \/ Alone(TaskOf[d])
  PROVE  c = d
  BY DEF Alone

\* A write of the index keeps what it does not take out, or remembers it.
LEMMA IndexWritten ==
  ASSUME NEW h, NEW u \in Tasks, AddToIndex(h, u) \/ DropFromIndex(h, u)
  PROVE  /\ \A t : t # u /\ t # "null" /\ t \in ListedTasks \cup lost => t \in (ListedTasks \cup lost)'
         /\ AddToIndex(h, u) => u \in (ListedTasks \cup lost)'
  BY SchedulerAssumption DEF AddToIndex, DropFromIndex, SetIndex, ListedTasks, Null

\* The rest of the record does not count.
LEMMA RecordWritten ==
  ASSUME SchedulerTypes, NEW c \in Calls
  PROVE  /\ StoreItem(c) => stored' = [stored EXCEPT ![TaskOf[c]] = c]
         /\ \A t \in Tasks : ForgetItem(t) => stored' = [stored EXCEPT ![t] = None]
  BY DEF StoreItem, ForgetItem

\* The steps of a call that leave the lanes alone.
LEMMA CallMoves ==
  ASSUME SchedulerIInv, NEW c \in Calls,
         \/ ScheduleRefused(c) \/ WriteIndex(c) \/ WriteItem(c) \/ DispatchLater(c) \/ DispatchNow(c)
         \/ Unindex(c) \/ Finish(c) \/ Reindex(c) \/ Restore(c)
  PROVE  SchedulerIInv'
  <1> DEFINE t == TaskOf[c]
             CallWrites == pc[c] \in {"storing", "restoring"} /\ stored' = [stored EXCEPT ![t] = c] /\ UNCHANGED <<index, lost>>
             Enters == pc[c] \in {"indexing", "reindexing"} /\ AddToIndex(c, t) /\ UNCHANGED stored
             Leaves == pc[c] = "unindexing" /\ DropFromIndex(c, t) /\ UNCHANGED stored
  <1>1. /\ UNCHANGED <<loop, cancel, queue, retries, boot, enqueued>>
        /\ pc'[c] # "idle" /\ pc' = [pc EXCEPT ![c] = pc'[c]] /\ pc' \in [Calls -> {"idle", "indexing", "storing", "dispatching",
             "validating", "unindexing", "unstoring", "executing", "reindexing", "restoring", "done"}]
        /\ pc[c] # "done" /\ (pc[c] = "idle" => pc'[c] = "done" /\ ~boot.on)
        /\ CallHolds(c)' => CallHolds(c)
        /\ CallWrites \/ Enters \/ Leaves \/ UNCHANGED <<stored, index, lost>>
        /\ pc'[c] \in {"dispatching", "validating", "done"} =>
             pc[c] \in {"idle", "dispatching", "validating", "executing"} \/ CallWrites
        /\ pc[c] \in {"indexing", "reindexing"} => Enters
        /\ pc'[c] \notin {"indexing", "reindexing"}
    BY RecordWritten
       DEF SchedulerIInv, SchedulerTypes, ScheduleRefused, WriteIndex, WriteItem, DispatchLater, DispatchNow, Unindex,
           Finish, Reindex, Restore, Return, MoveTo, CallHolds
  <1>2. /\ t \in Tasks /\ (pc[c] # "idle" => c \in enqueued) /\ ~boot.on
        /\ \A d \in Calls \ {c} : pc'[d] = pc[d]
    BY <1>1, SchedulerAssumption DEF SchedulerIInv, SchedulerTypes, AreEnqueued, Booting
  <1>3. (\A u \in Tasks \ {t} : stored'[u] = stored[u]) /\ (stored'[t] = stored[t] \/ CallWrites)
        /\ (CallWrites => stored'[t] = c) /\ stored' \in [Tasks -> Calls \cup {None}]
    BY <1>1, <1>2 DEF SchedulerIInv, SchedulerTypes
  <1>4. /\ \A u \in Tasks : u # t /\ u \in ListedTasks \cup lost => u \in (ListedTasks \cup lost)'
        /\ Leaves \/ (t \in ListedTasks \cup lost => t \in (ListedTasks \cup lost)')
        /\ Enters => t \in (ListedTasks \cup lost)'
    <2>1. CASE UNCHANGED <<index, lost>> /\ ~Enters
      BY <2>1 DEF ListedTasks
    <2>2. CASE Enters \/ Leaves
      BY <2>2, <1>2, IndexWritten, SchedulerAssumption
    <2> QED
      BY <1>1, <2>1, <2>2
  <1>5. SchedulerTypes' /\ Booting'
    BY <1>1, <1>2, <1>3 DEF SchedulerIInv, SchedulerTypes, Booting
  <1>6. AreEnqueued'
    BY <1>1, <1>2, <1>3 DEF SchedulerIInv, SchedulerTypes, AreEnqueued, Waits
  <1> HIDE DEF CallWrites, Enters, Leaves
  <1>7. ASSUME NEW x \in Calls, Alone(TaskOf[x])' PROVE ItsOwn(x)'
    <2>1. Alone(TaskOf[x]) /\ ItsOwn(x) /\ TaskOf[x] \in Tasks
      BY <1>1, <1>7, SchedulerAssumption DEF Alone, SchedulerIInv
    <2>2. (Waits(x)' <=> Waits(x)) /\ (LoopHolds(x)' <=> LoopHolds(x)) /\ (CallHolds(x)' => CallHolds(x))
      BY <1>1, <1>2 DEF Waits, LoopHolds, CallHolds
    <2>3. Waits(x) => x \in enqueued
      BY DEF SchedulerIInv, AreEnqueued
    <2>4. Waits(x) /\ x # c /\ pc[c] # "idle" => TaskOf[x] # t
      BY <1>2, <2>1, <2>3, Same
    <2>5. OneToken(x)' /\ CancelAlone(x)'
      BY <1>1, <2>1, <2>2 DEF ItsOwn, OneToken, CancelAlone
    <2>6. Persisted(x)'
      BY <1>1, <1>2, <1>3, <2>1, <2>2, <2>3, <2>4 DEF ItsOwn, OneToken, Persisted, CallHolds, CallWrites, SchedulerIInv, AreEnqueued
    <2>7. Entered(x)'
      BY <1>1, <1>2, <1>4, <2>1, <2>2, <2>3, <2>4 DEF ItsOwn, OneToken, Entered, CallHolds, Leaves, Enters, SchedulerIInv, AreEnqueued
    <2> QED
      BY <2>5, <2>6, <2>7 DEF ItsOwn
  <1> QED
    BY <1>5, <1>6, <1>7 DEF SchedulerIInv

\* enqueue puts the item at the end of one lane, if anywhere.
LEMMA Enqueued ==
  ASSUME SchedulerTypes, NEW c \in Calls, NEW n, Enqueue(c, n)
  PROVE  /\ queue' \in Seq(Calls) /\ retries' \in Seq(Calls)
         /\ queue' = queue \/ retries' = retries
         /\ \A d : d # c => (Holds(queue', d) => Holds(queue, d)) /\ (Holds(retries', d) => Holds(retries, d))
         /\ \A d : d # c => (Once(queue, d) => Once(queue', d)) /\ (Once(retries, d) => Once(retries', d))
         /\ ~Waits(c) /\ Once(queue, c) /\ Once(retries, c)
            => Once(queue', c) /\ Once(retries', c) /\ ~(Holds(queue', c) /\ Holds(retries', c))
  <1>1. queue \in Seq(Calls) /\ retries \in Seq(Calls)
    BY DEF SchedulerTypes
  <1>2. CASE queue' = queue /\ retries' = retries
    BY <1>1, <1>2 DEF Waits
  <1>3. CASE queue' = Append(queue, c) /\ retries' = retries
    BY <1>1, <1>3, AppendHolds DEF Waits
  <1>4. CASE queue' = queue /\ retries' = Append(retries, c)
    BY <1>1, <1>4, AppendHolds DEF Waits
  <1> QED
    BY <1>2, <1>3, <1>4 DEF Enqueue

\* queue.remove takes one item of the task out of the lane it is in.
LEMMA Taken ==
  ASSUME SchedulerTypes, NEW t, IsQueued(t), RemoveFromQueue(t)
  PROVE  /\ queue' \in Seq(Calls) /\ retries' \in Seq(Calls)
         /\ \A d : (Holds(queue', d) => Holds(queue, d)) /\ (Holds(retries', d) => Holds(retries, d))
         /\ \A d : (Once(queue, d) => Once(queue', d)) /\ (Once(retries, d) => Once(retries', d))
         /\ \E c \in Calls : TaskOf[c] = t /\ Waits(c) /\ (OneToken(c) => ~Waits(c)')
  <1>0. queue \in Seq(Calls) /\ retries \in Seq(Calls)
    BY DEF SchedulerTypes
  <1>1. PICK q \in Calls : TaskOf[q] = t /\ Waits(q)
    BY <1>0 DEF IsQueued, Queued, ToSet, Holds, Waits
  <1>2. ASSUME NEW items \in Seq(Calls), PlacesOf(items, t) # {}
        PROVE  /\ Min(PlacesOf(items, t)) \in DOMAIN items /\ items[Min(PlacesOf(items, t))] \in Calls
               /\ TaskOf[items[Min(PlacesOf(items, t))]] = t
    <2>1. PlacesOf(items, t) \subseteq Nat
      BY DEF PlacesOf
    <2>2. Min(PlacesOf(items, t)) \in PlacesOf(items, t)
      <3> HIDE DEF PlacesOf
      <3> QED
        BY <1>2, <2>1, LeastNat DEF Min
    <2> QED
      BY <2>2 DEF PlacesOf
  <1>3. CASE PlacesOf(queue, t) # {}
    <2> DEFINE i == Min(PlacesOf(queue, t))
               c == queue[i]
    <2>1. queue' = Without(queue, i) /\ retries' = retries
      BY <1>3 DEF RemoveFromQueue
    <2>2. i \in DOMAIN queue /\ c \in Calls /\ TaskOf[c] = t
      BY <1>0, <1>2, <1>3
    <2> HIDE DEF i
    <2>3. /\ queue' \in Seq(Calls) /\ \A d : (Holds(queue', d) => Holds(queue, d)) /\ (Once(queue, d) => Once(queue', d))
          /\ Once(queue, c) => ~Holds(queue', c)
      BY <1>0, <2>1, <2>2, WithoutHolds
    <2>4. Holds(queue, c)
      BY <2>2 DEF Holds
    <2> QED
      BY <1>0, <2>1, <2>2, <2>3, <2>4 DEF Waits, OneToken
  <1>4. CASE PlacesOf(queue, t) = {}
    <2> DEFINE i == Min(PlacesOf(retries, t))
               c == retries[i]
    <2>1. retries' = Without(retries, i) /\ queue' = queue
      BY <1>4 DEF RemoveFromQueue
    <2>2. PlacesOf(retries, t) # {}
      BY <1>1, <1>4 DEF Waits, Holds, PlacesOf
    <2>3. i \in DOMAIN retries /\ c \in Calls /\ TaskOf[c] = t
      BY <1>0, <1>2, <2>2
    <2> HIDE DEF i
    <2>4. /\ retries' \in Seq(Calls) /\ \A d : (Holds(retries', d) => Holds(retries, d)) /\ (Once(retries, d) => Once(retries', d))
          /\ Once(retries, c) => ~Holds(retries', c)
      BY <1>0, <2>1, <2>3, WithoutHolds
    <2>5. Holds(retries, c)
      BY <2>3 DEF Holds
    <2> QED
      BY <1>0, <2>1, <2>3, <2>4, <2>5 DEF Waits, OneToken
  <1> QED
    BY <1>3, <1>4

LEMMA ScheduleKeeps ==
  ASSUME SchedulerIInv, NEW c \in Calls, Schedule(c)
  PROVE  SchedulerIInv'
  <1>1. /\ pc[c] = "idle" /\ ~boot.on /\ Enqueue(c, 0) /\ pc' = [pc EXCEPT ![c] = "indexing"]
        /\ enqueued' = enqueued \cup {c} /\ UNCHANGED <<loop, cancel, stored, index, lost, boot>>
    BY DEF Schedule, MoveTo
  <1>2. c \notin enqueued /\ ~Waits(c) /\ loop.item # c
    BY <1>1 DEF SchedulerIInv, SchedulerTypes, AreEnqueued
  <1>3. /\ queue' \in Seq(Calls) /\ retries' \in Seq(Calls)
        /\ \A d : d # c => (Holds(queue', d) => Holds(queue, d)) /\ (Holds(retries', d) => Holds(retries, d))
        /\ \A d : d # c => (Once(queue, d) => Once(queue', d)) /\ (Once(retries, d) => Once(retries', d))
        /\ Once(queue, c) /\ Once(retries, c)
           => Once(queue', c) /\ Once(retries', c) /\ ~(Holds(queue', c) /\ Holds(retries', c))
    BY <1>1, <1>2, Enqueued DEF SchedulerIInv
  <1>4. SchedulerTypes' /\ Booting'
    BY <1>1, <1>3 DEF SchedulerIInv, SchedulerTypes, Booting
  <1>5. AreEnqueued'
    BY <1>1, <1>3 DEF SchedulerIInv, SchedulerTypes, AreEnqueued, Waits
  <1>6. ASSUME NEW x \in Calls, Alone(TaskOf[x])' PROVE ItsOwn(x)'
    <2>1. Alone(TaskOf[x]) /\ ItsOwn(x)
      BY <1>1, <1>6 DEF Alone, SchedulerIInv
    <2>2. CASE x # c
      <3>1. /\ (Waits(x)' => Waits(x)) /\ (LoopHolds(x)' <=> LoopHolds(x)) /\ (CallHolds(x)' <=> CallHolds(x))
            /\ pc'[x] = pc[x] /\ UNCHANGED (ListedTasks \cup lost)
        BY <1>1, <1>3, <2>2 DEF SchedulerIInv, SchedulerTypes, Waits, LoopHolds, CallHolds, ListedTasks
      <3> QED
        BY <1>1, <1>3, <2>1, <2>2, <3>1 DEF ItsOwn, OneToken, Persisted, Entered, CancelAlone
    <2>3. CASE x = c
      <3>1. ~LoopHolds(x)' /\ ~CallHolds(x)' /\ pc'[x] = "indexing"
        BY <1>1, <1>2, <2>3 DEF SchedulerIInv, SchedulerTypes, LoopHolds, CallHolds
      <3>2. ~(cancel.at # "off" /\ cancel.task = TaskOf[x])
        BY <1>1, <1>2, <1>6, <2>3 DEF SchedulerIInv, AreEnqueued, Alone
      <3> QED
        BY <1>1, <1>3, <2>1, <2>3, <3>1, <3>2 DEF ItsOwn, OneToken, Persisted, Entered, CancelAlone
    <2> QED
      BY <2>2, <2>3
  <1> QED
    BY <1>4, <1>5, <1>6 DEF SchedulerIInv

LEMMA ValidatedKeeps ==
  ASSUME SchedulerIInv, NEW c \in Calls, Validated(c)
  PROVE  SchedulerIInv'
  <1>1. /\ pc[c] = "validating" /\ UNCHANGED <<loop, cancel, stored, index, lost, boot, enqueued>>
        /\ \/ pc' = [pc EXCEPT ![c] = "done"] /\ UNCHANGED <<queue, retries>>
           \/ IsQueued(TaskOf[c]) /\ RemoveFromQueue(TaskOf[c]) /\ pc' = [pc EXCEPT ![c] = "unindexing"]
    BY DEF Validated, Return, MoveTo
  <1>2. c \in enqueued /\ ~boot.on /\ UNCHANGED (ListedTasks \cup lost)
    BY <1>1 DEF SchedulerIInv, AreEnqueued, Booting, ListedTasks
  <1>3. CASE pc' = [pc EXCEPT ![c] = "done"] /\ UNCHANGED <<queue, retries>>
    <2>1. SchedulerTypes' /\ AreEnqueued' /\ Booting'
      BY <1>1, <1>2, <1>3 DEF SchedulerIInv, SchedulerTypes, AreEnqueued, Booting, Waits
    <2>2. ASSUME NEW x \in Calls, Alone(TaskOf[x])' PROVE ItsOwn(x)'
      <3>1. ItsOwn(x)
        BY <1>1, <2>2 DEF Alone, SchedulerIInv
      <3> QED
        BY <1>1, <1>2, <1>3, <3>1
           DEF SchedulerIInv, SchedulerTypes, ItsOwn, OneToken, Persisted, Entered, CancelAlone, Waits, LoopHolds, CallHolds
    <2> QED
      BY <2>1, <2>2 DEF SchedulerIInv
  <1>4. CASE IsQueued(TaskOf[c]) /\ RemoveFromQueue(TaskOf[c]) /\ pc' = [pc EXCEPT ![c] = "unindexing"]
    <2>1. /\ queue' \in Seq(Calls) /\ retries' \in Seq(Calls)
          /\ \A d : (Holds(queue', d) => Holds(queue, d)) /\ (Holds(retries', d) => Holds(retries, d))
          /\ \A d : (Once(queue, d) => Once(queue', d)) /\ (Once(retries, d) => Once(retries', d))
      BY <1>4, Taken DEF SchedulerIInv
    <2>2. PICK q \in Calls : TaskOf[q] = TaskOf[c] /\ Waits(q) /\ (OneToken(q) => ~Waits(q)')
      BY <1>4, Taken DEF SchedulerIInv
    <2>3. SchedulerTypes' /\ AreEnqueued' /\ Booting'
      BY <1>1, <1>2, <1>4, <2>1 DEF SchedulerIInv, SchedulerTypes, AreEnqueued, Booting, Waits
    <2>4. ASSUME NEW x \in Calls, Alone(TaskOf[x])' PROVE ItsOwn(x)'
      <3>1. Alone(TaskOf[x]) /\ ItsOwn(x)
        BY <1>1, <2>4 DEF Alone, SchedulerIInv
      <3>2. (Waits(x)' => Waits(x)) /\ (LoopHolds(x)' <=> LoopHolds(x))
        BY <1>1, <2>1 DEF Waits, LoopHolds
      <3>3. CASE x # c
        <4>1. pc'[x] = pc[x] /\ (CallHolds(x)' <=> CallHolds(x))
          BY <1>4, <3>3 DEF SchedulerIInv, SchedulerTypes, CallHolds
        <4> QED
          BY <1>1, <1>2, <2>1, <3>1, <3>2, <4>1 DEF ItsOwn, OneToken, Persisted, Entered, CancelAlone
      <3>4. CASE x = c
        <4>1. q = c
          BY <1>2, <2>2, <3>1, <3>4, Same DEF SchedulerIInv, AreEnqueued
        <4>2. ~Waits(x)' /\ Waits(x)
          BY <2>2, <3>1, <3>4, <4>1 DEF ItsOwn
        <4> QED
          BY <1>1, <2>1, <3>1, <3>2, <3>4, <4>2 DEF ItsOwn, OneToken, Persisted, Entered, CancelAlone, Waits
      <3> QED
        BY <3>3, <3>4
    <2> QED
      BY <2>3, <2>4 DEF SchedulerIInv
  <1> QED
    BY <1>1, <1>3, <1>4

\* Whoever has an item, its call or the loop, deletes the record or leaves it, and keeps the
\* item, gives it up or puts it back.
LEMMA HolderSteps ==
  ASSUME SchedulerIInv, NEW c \in Calls, LoopHolds(c) \/ CallHolds(c), c \in enqueued,
         SchedulerTypes', UNCHANGED <<cancel, index, lost, boot, enqueued>>,
         stored' = stored \/ stored' = [stored EXCEPT ![TaskOf[c]] = None],
         \/ UNCHANGED <<queue, retries>>
         \/ (\E n : Enqueue(c, n)) /\ (Alone(TaskOf[c]) => ~LoopHolds(c)' /\ ~CallHolds(c)')
            /\ (pc'[c] = "reindexing" \/ (loop'.item = c /\ loop'.at = "reindexing")),
         \A d \in Calls \ {c} : pc'[d] = pc[d] /\ (loop'.item = d <=> loop.item = d) /\ (loop'.item = d => loop'.at = loop.at),
         pc'[c] # "idle", pc'[c] = pc[c] \/ CallHolds(c), loop'.item = c => loop.item = c,
         LoopHolds(c)' => LoopHolds(c), CallHolds(c)' => CallHolds(c)
  PROVE  SchedulerIInv'
  <1>1. TaskOf[c] \in Tasks /\ UNCHANGED (ListedTasks \cup lost)
    BY SchedulerAssumption DEF ListedTasks
  <1>2. \A d \in Calls \ {c} : /\ (Holds(queue', d) => Holds(queue, d)) /\ (Holds(retries', d) => Holds(retries, d))
                               /\ (Once(queue, d) => Once(queue', d)) /\ (Once(retries, d) => Once(retries', d))
    BY Enqueued DEF SchedulerIInv
  <1>3. /\ \A t \in Tasks : stored'[t] # None => stored'[t] = stored[t]
        /\ \A t \in Tasks \ {TaskOf[c]} : stored'[t] = stored[t]
    BY <1>1 DEF SchedulerIInv, SchedulerTypes
  <1>4. AreEnqueued'
    <2>1. \A d \in Calls : Waits(d)' \/ loop'.item = d \/ pc'[d] \notin {"idle", "done"} => d \in enqueued'
      BY <1>2 DEF SchedulerIInv, AreEnqueued, Waits
    <2>2. (\A d \in enqueued' : pc'[d] # "idle") /\ (cancel'.at # "off" => \E d \in enqueued' : TaskOf[d] = cancel'.task)
      BY DEF SchedulerIInv, SchedulerTypes, AreEnqueued
    <2>3. \A t \in Tasks : stored'[t] # None => TaskOf[stored'[t]] = t /\ stored'[t] \in enqueued'
      BY <1>3 DEF SchedulerIInv, AreEnqueued
    <2> QED
      BY <2>1, <2>2, <2>3 DEF AreEnqueued
  <1>5. Booting'
    <2> SUFFICES ASSUME boot.on PROVE Booting'
      BY DEF Booting
    <2>1. loop.item = c /\ TaskOf[c] \in boot.kept /\ TaskOf[c] \notin boot.left /\ pc'[c] = pc[c]
      BY DEF SchedulerIInv, Booting, LoopHolds, CallHolds
    <2> QED
      BY <1>1, <1>2, <2>1 DEF SchedulerIInv, Booting, Waits
  <1>6. ASSUME NEW x \in Calls, Alone(TaskOf[x])' PROVE ItsOwn(x)'
    <2>1. Alone(TaskOf[x]) /\ ItsOwn(x) /\ TaskOf[x] \in Tasks
      BY <1>6, SchedulerAssumption DEF Alone, SchedulerIInv
    <2>2. CASE x # c
      <3>1. (Waits(x)' => Waits(x)) /\ (CallHolds(x)' <=> CallHolds(x)) /\ pc'[x] = pc[x]
            /\ (LoopHolds(x)' <=> LoopHolds(x))
        BY <1>2, <2>2 DEF Waits, CallHolds, LoopHolds
      <3>2. Waits(x) => TaskOf[x] # TaskOf[c]
        BY <2>1, <2>2, Same DEF SchedulerIInv, AreEnqueued
      <3>3. Waits(x) /\ loop'.item # x /\ pc[x] \in {"dispatching", "validating", "done"} => stored'[TaskOf[x]] = x
        BY <1>3, <2>1, <2>2, <3>2 DEF ItsOwn, Persisted
      <3> QED
        BY <1>1, <1>2, <2>1, <2>2, <3>1, <3>3 DEF ItsOwn, OneToken, Persisted, Entered, CancelAlone
    <2>3. CASE x = c
      <3>1. ~Waits(c) /\ ~(cancel.at # "off" /\ cancel.task = TaskOf[c]) /\ (LoopHolds(c) => ~CallHolds(c))
            /\ Once(queue, c) /\ Once(retries, c)
        BY <2>1, <2>3 DEF ItsOwn, OneToken, CancelAlone
      <3>2. CASE UNCHANGED <<queue, retries>>
        BY <2>3, <3>1, <3>2 DEF ItsOwn, OneToken, Persisted, Entered, CancelAlone, Waits
      <3>3. CASE /\ (\E n : Enqueue(c, n)) /\ (Alone(TaskOf[c]) => ~LoopHolds(c)' /\ ~CallHolds(c)')
                 /\ (pc'[c] = "reindexing" \/ (loop'.item = c /\ loop'.at = "reindexing"))
        <4>1. Once(queue', c) /\ Once(retries', c) /\ ~(Holds(queue', c) /\ Holds(retries', c))
          BY <3>1, <3>3, Enqueued DEF SchedulerIInv
        <4> QED
          BY <2>1, <2>3, <3>1, <3>3, <4>1 DEF ItsOwn, OneToken, Persisted, Entered, CancelAlone
      <3> QED
        BY <3>2, <3>3
    <2> QED
      BY <2>2, <2>3
  <1> QED
    BY <1>4, <1>5, <1>6 DEF SchedulerIInv

LEMMA ExecuteKeeps ==
  ASSUME SchedulerIInv, NEW c \in Calls, ExecuteItem(c)
  PROVE  SchedulerIInv'
  <1>1. /\ pc[c] = "unstoring" /\ stored' = [stored EXCEPT ![TaskOf[c]] = None]
        /\ UNCHANGED <<loop, cancel, index, lost, boot, enqueued>>
        /\ \/ pc' = [pc EXCEPT ![c] = "executing"] /\ UNCHANGED <<queue, retries>>
           \/ pc' = [pc EXCEPT ![c] = "done"] /\ UNCHANGED <<queue, retries>>
           \/ pc' = [pc EXCEPT ![c] = "reindexing"] /\ Enqueue(c, attempts[c])
    BY DEF ExecuteItem, ForgetItem, MoveTo, Return, Requeue
  <1>2. CallHolds(c) /\ c \in enqueued /\ TaskOf[c] \in Tasks
    BY <1>1, SchedulerAssumption DEF CallHolds, SchedulerIInv, AreEnqueued
  <1>3. (queue' \in Seq(Calls) /\ retries' \in Seq(Calls))
    BY <1>1, Enqueued DEF SchedulerIInv, SchedulerTypes
  <1>4. SchedulerTypes'
    BY <1>1, <1>2, <1>3 DEF SchedulerIInv, SchedulerTypes, None
  <1>5. /\ \A d \in Calls \ {c} : pc'[d] = pc[d]
        /\ pc'[c] # "idle" /\ (CallHolds(c)' => CallHolds(c)) /\ (LoopHolds(c)' <=> LoopHolds(c))
        /\ pc'[c] \in {"executing", "done", "reindexing"}
    BY <1>1, <1>2 DEF SchedulerIInv, SchedulerTypes, CallHolds, LoopHolds
  <1>6. Alone(TaskOf[c]) => ~LoopHolds(c)
    BY <1>2 DEF SchedulerIInv, ItsOwn, OneToken
  <1>7. \/ UNCHANGED <<queue, retries>>
        \/ (\E n : Enqueue(c, n)) /\ (Alone(TaskOf[c]) => ~LoopHolds(c)' /\ ~CallHolds(c)') /\ pc'[c] = "reindexing"
    BY <1>1, <1>2, <1>5, <1>6 DEF SchedulerIInv, SchedulerTypes, CallHolds
  <1> QED
    BY <1>1, <1>2, <1>4, <1>5, <1>7, HolderSteps

\* dequeue: the loop has the item now.
LEMMA LoopTakesKeeps ==
  ASSUME SchedulerIInv, NEW c \in Calls, LoopTakes(c)
  PROVE  SchedulerIInv'
  <1>1. /\ loop = Off /\ loop' = [at |-> "validating", item |-> c]
        /\ UNCHANGED <<pc, cancel, stored, index, lost, boot, enqueued>>
    BY DEF LoopTakes
  <1>0. queue \in Seq(Calls) /\ retries \in Seq(Calls) /\ UNCHANGED (ListedTasks \cup lost)
    BY <1>1 DEF SchedulerIInv, SchedulerTypes, ListedTasks
  <1>2. /\ Waits(c) /\ queue' \in Seq(Calls) /\ retries' \in Seq(Calls)
        /\ \A d : (Holds(queue', d) => Holds(queue, d)) /\ (Holds(retries', d) => Holds(retries, d))
        /\ \A d : (Once(queue, d) => Once(queue', d)) /\ (Once(retries, d) => Once(retries', d))
        /\ OneToken(c) => ~Waits(c)'
    <2>1. CASE queue # <<>> /\ c = Head(queue) /\ queue' = Tail(queue) /\ retries' = retries
      <3>1. /\ Holds(queue, c) /\ queue' \in Seq(Calls) /\ (Once(queue, c) => ~Holds(queue', c))
            /\ \A d : (Holds(queue', d) => Holds(queue, d)) /\ (Once(queue, d) => Once(queue', d))
        BY <1>0, <2>1, TailHolds
      <3> QED
        BY <1>0, <2>1, <3>1 DEF Waits, OneToken
    <2>2. CASE queue' = queue /\ \E i \in DOMAIN retries : c = retries[i] /\ retries' = Without(retries, i)
      <3>1. PICK i \in DOMAIN retries : c = retries[i] /\ retries' = Without(retries, i)
        BY <2>2
      <3>2. /\ retries' \in Seq(Calls) /\ (Once(retries, c) => ~Holds(retries', c))
            /\ \A d : (Holds(retries', d) => Holds(retries, d)) /\ (Once(retries, d) => Once(retries', d))
        BY <1>0, <3>1, WithoutHolds
      <3>3. Holds(retries, c)
        BY <3>1 DEF Holds
      <3> QED
        BY <1>0, <2>2, <3>2, <3>3 DEF Waits, OneToken
    <2> QED
      BY <2>1, <2>2 DEF LoopTakes
  <1>3. SchedulerTypes'
    BY <1>1, <1>2, SchedulerAssumption DEF SchedulerIInv, SchedulerTypes, None
  <1>4. AreEnqueued' /\ Booting'
    BY <1>0, <1>1, <1>2 DEF SchedulerIInv, AreEnqueued, Booting, Waits
  <1>5. ASSUME NEW x \in Calls, Alone(TaskOf[x])' PROVE ItsOwn(x)'
    <2>1. ItsOwn(x) /\ (Waits(x)' => Waits(x)) /\ (CallHolds(x)' <=> CallHolds(x)) /\ loop.item # x
      BY <1>1, <1>2, <1>5, SchedulerAssumption DEF Alone, SchedulerIInv, Waits, CallHolds, Off, None
    <2>2. (LoopHolds(x)' <=> x = c) /\ (loop'.item = x => x = c) /\ (x = c => ~Waits(x)')
      BY <1>1, <1>2, <2>1 DEF LoopHolds, ItsOwn
    <2> QED
      BY <1>0, <1>1, <1>2, <2>1, <2>2 DEF ItsOwn, OneToken, Persisted, Entered, CancelAlone
  <1> QED
    BY <1>3, <1>4, <1>5 DEF SchedulerIInv

\* The loop goes on with its item without letting go of it, or after it was put back.
LEMMA LoopMoves ==
  ASSUME SchedulerIInv, LoopValidates \/ LoopUnindexes \/ LoopReindexes
  PROVE  SchedulerIInv'
  <1> DEFINE c == loop.item
  <1>1. /\ UNCHANGED <<pc, cancel, queue, retries, stored, boot, enqueued>>
        /\ loop'.item = c /\ loop'.at # "off" /\ loop.at # "off" /\ SchedulerTypes' /\ c \in Calls
        /\ loop'.at \in {"reindexing", "restoring"} <=> loop.at \in {"reindexing", "restoring"}
        /\ loop'.at # "reindexing"
    BY DEF LoopValidates, LoopUnindexes, LoopReindexes, LoopAt, SchedulerIInv, SchedulerTypes
  <1>2. TaskOf[c] \in Tasks /\ c \in enqueued
    BY <1>1, SchedulerAssumption DEF SchedulerIInv, AreEnqueued
  <1>3. /\ \A u : u # TaskOf[c] /\ u # "null" /\ u \in ListedTasks \cup lost => u \in (ListedTasks \cup lost)'
        /\ \/ \A u : u \in ListedTasks \cup lost => u \in (ListedTasks \cup lost)'
           \/ LoopHolds(c) /\ loop.at # "reindexing"
           \/ loop.at = "reindexing" /\ TaskOf[c] \in (ListedTasks \cup lost)'
        /\ loop.at = "reindexing" => TaskOf[c] \in (ListedTasks \cup lost)'
    <2>1. CASE LoopValidates
      BY <2>1 DEF LoopValidates, ListedTasks
    <2>2. CASE LoopUnindexes
      <3>1. DropFromIndex("loop", TaskOf[c]) /\ LoopHolds(c) /\ loop.at # "reindexing"
        BY <2>2 DEF LoopUnindexes, Item, LoopHolds
      <3> QED
        BY <1>2, <3>1, IndexWritten
    <2>3. CASE LoopReindexes
      <3>1. AddToIndex("loop", TaskOf[c]) /\ loop.at = "reindexing"
        BY <2>3 DEF LoopReindexes, Item
      <3> QED
        BY <1>2, <3>1, IndexWritten
    <2> QED
      BY <2>1, <2>2, <2>3
  <1> HIDE DEF c
  <1>4. AreEnqueued'
    BY <1>1 DEF SchedulerIInv, AreEnqueued, Waits, c
  <1>5. Booting'
    BY <1>1, <1>3 DEF SchedulerIInv, SchedulerTypes, Booting, Waits, c
  <1>6. ASSUME NEW x \in Calls, Alone(TaskOf[x])' PROVE ItsOwn(x)'
    <2>1. Alone(TaskOf[x]) /\ ItsOwn(x) /\ TaskOf[x] # "null"
      BY <1>1, <1>6, SchedulerAssumption DEF Alone, SchedulerIInv
    <2>2. /\ (Waits(x)' <=> Waits(x)) /\ (CallHolds(x)' <=> CallHolds(x))
          /\ (LoopHolds(x)' <=> LoopHolds(x)) /\ (loop'.item = x <=> loop.item = x)
      BY <1>1 DEF Waits, CallHolds, LoopHolds, c
    <2>3. Waits(x) /\ x # c => TaskOf[x] # TaskOf[c]
      BY <1>2, <2>1, Same DEF SchedulerIInv, AreEnqueued
    <2>4. OneToken(x)' /\ Persisted(x)' /\ CancelAlone(x)'
      BY <1>1, <2>1, <2>2 DEF ItsOwn, OneToken, Persisted, CancelAlone
    <2>5. Entered(x)'
      BY <1>1, <1>3, <2>1, <2>2, <2>3 DEF ItsOwn, OneToken, Entered, c
    <2> QED
      BY <2>4, <2>5 DEF ItsOwn
  <1> QED
    BY <1>1, <1>4, <1>5, <1>6 DEF SchedulerIInv

LEMMA LoopExecutesKeeps ==
  ASSUME SchedulerIInv, LoopForgets \/ LoopExecutes \/ \E outcome \in Outcomes : LoopFinishes(outcome)
  PROVE  SchedulerIInv'
  <1>0. loop.at \in {"forgetting", "unstoring", "executing"}
    BY DEF LoopForgets, LoopExecutes, LoopFinishes
  <1> PICK c \in Calls : c = loop.item
    BY <1>0 DEF SchedulerIInv, SchedulerTypes
  <1>1. /\ UNCHANGED <<pc, cancel, index, lost, boot, enqueued>>
        /\ stored' = stored \/ stored' = [stored EXCEPT ![TaskOf[c]] = None]
        /\ \/ UNCHANGED <<queue, retries>> /\ (loop' = Off \/ loop' = [loop EXCEPT !.at = "executing"])
           \/ (\E n : Enqueue(c, n)) /\ loop' = [loop EXCEPT !.at = "reindexing"]
    BY DEF LoopForgets, LoopExecutes, LoopFinishes, ForgetItem, LoopAt, Requeue, Item
  <1>2. LoopHolds(c) /\ c \in enqueued /\ TaskOf[c] \in Tasks
    BY <1>0, SchedulerAssumption DEF LoopHolds, SchedulerIInv, AreEnqueued
  <1>3. /\ queue' \in Seq(Calls) /\ retries' \in Seq(Calls)
        /\ stored' \in [Tasks -> Calls \cup {None}]
    BY <1>1, <1>2, Enqueued DEF SchedulerIInv, SchedulerTypes
  <1>4. \/ loop' = Off
        \/ loop' = [at |-> "executing", item |-> c]
        \/ loop' = [at |-> "reindexing", item |-> c] /\ \E n : Enqueue(c, n)
    BY <1>1 DEF SchedulerIInv, SchedulerTypes
  <1>5. SchedulerTypes'
    BY <1>1, <1>3, <1>4, SchedulerAssumption DEF SchedulerIInv, SchedulerTypes, None, Off
  <1>6. /\ \A d \in Calls \ {c} : loop'.item # d /\ loop.item # d
        /\ loop'.item = c => loop.item = c
        /\ loop' = [at |-> "reindexing", item |-> c] => ~LoopHolds(c)' /\ loop'.at = "reindexing" /\ loop'.item = c
    BY <1>4, SchedulerAssumption DEF Off, None, LoopHolds
  <1>7. Alone(TaskOf[c]) => ~CallHolds(c)
    BY <1>2 DEF SchedulerIInv, ItsOwn, OneToken
  <1>8. (CallHolds(c)' <=> CallHolds(c)) /\ pc[c] # "idle"
    BY <1>1, <1>2 DEF CallHolds, SchedulerIInv, AreEnqueued
  <1>9. \/ UNCHANGED <<queue, retries>>
        \/ /\ (\E n : Enqueue(c, n)) /\ (Alone(TaskOf[c]) => ~LoopHolds(c)' /\ ~CallHolds(c)')
           /\ pc'[c] = "reindexing" \/ (loop'.item = c /\ loop'.at = "reindexing")
    BY <1>1, <1>4, <1>6, <1>7, <1>8 DEF SchedulerIInv, SchedulerTypes
  <1> QED
    BY <1>1, <1>2, <1>5, <1>6, <1>8, <1>9, HolderSteps

LEMMA LoopRestoresKeeps ==
  ASSUME SchedulerIInv, LoopRestores
  PROVE  SchedulerIInv'
  <1> DEFINE c == loop.item
  <1>1. /\ loop.at = "restoring" /\ stored' = [stored EXCEPT ![TaskOf[c]] = c] /\ loop' = Off
        /\ UNCHANGED <<pc, cancel, queue, retries, index, lost, boot, enqueued>>
    BY DEF LoopRestores, Item, StoreItem
  <1>2. c \in Calls /\ c \in enqueued /\ TaskOf[c] \in Tasks
    BY <1>1, SchedulerAssumption DEF SchedulerIInv, SchedulerTypes, AreEnqueued
  <1>3. SchedulerTypes'
    BY <1>1, <1>2, SchedulerAssumption DEF SchedulerIInv, SchedulerTypes, Off, None
  <1>4. /\ \A d \in Calls : ~LoopHolds(d)' /\ loop'.item # d /\ (CallHolds(d)' <=> CallHolds(d)) /\ (Waits(d)' <=> Waits(d))
        /\ UNCHANGED (ListedTasks \cup lost)
    BY <1>1, SchedulerAssumption DEF LoopHolds, CallHolds, Waits, ListedTasks, Off, None
  <1>5. stored'[TaskOf[c]] = c /\ \A t \in Tasks : t # TaskOf[c] => stored'[t] = stored[t]
    BY <1>1, <1>2 DEF SchedulerIInv, SchedulerTypes
  <1> HIDE DEF c
  <1>6. AreEnqueued' /\ Booting'
    BY <1>1, <1>2, <1>4, <1>5 DEF SchedulerIInv, AreEnqueued, Booting
  <1>7. ASSUME NEW x \in Calls, Alone(TaskOf[x])' PROVE ItsOwn(x)'
    <2>1. Alone(TaskOf[x]) /\ ItsOwn(x) /\ TaskOf[x] \in Tasks
      BY <1>1, <1>7, SchedulerAssumption DEF Alone, SchedulerIInv
    <2>2. Waits(x) /\ x # c => TaskOf[x] # TaskOf[c]
      BY <1>2, <2>1, Same DEF SchedulerIInv, AreEnqueued
    <2>3. OneToken(x)' /\ Entered(x)' /\ CancelAlone(x)'
      BY <1>1, <1>4, <2>1 DEF ItsOwn, OneToken, Entered, CancelAlone
    <2>4. Persisted(x)'
      BY <1>1, <1>4, <1>5, <2>1, <2>2 DEF ItsOwn, Persisted, c
    <2> QED
      BY <2>3, <2>4 DEF ItsOwn
  <1> QED
    BY <1>3, <1>6, <1>7 DEF SchedulerIInv

\* A cancellation takes the item out of its lane, and deletes the entry and the record.
LEMMA CancelKeeps ==
  ASSUME SchedulerIInv, CancelStep \/ \E t \in Tasks : CancelQueued(t)
  PROVE  SchedulerIInv'
  <1>1. ASSUME NEW t \in Tasks, CancelQueued(t) PROVE SchedulerIInv'
    <2>1. /\ IsQueued(t) /\ RemoveFromQueue(t) /\ cancel' = [at |-> "checkpointing", task |-> t]
          /\ UNCHANGED <<pc, loop, stored, index, lost, boot, enqueued>>
      BY <1>1 DEF CancelQueued
    <2>2. /\ queue' \in Seq(Calls) /\ retries' \in Seq(Calls)
          /\ \A d : (Holds(queue', d) => Holds(queue, d)) /\ (Holds(retries', d) => Holds(retries, d))
          /\ \A d : (Once(queue, d) => Once(queue', d)) /\ (Once(retries, d) => Once(retries', d))
      BY <2>1, Taken DEF SchedulerIInv
    <2>3. PICK q \in Calls : TaskOf[q] = t /\ Waits(q) /\ (OneToken(q) => ~Waits(q)')
      BY <2>1, Taken DEF SchedulerIInv
    <2>4. q \in enqueued /\ UNCHANGED (ListedTasks \cup lost) /\ (boot.on => t \notin boot.left)
      BY <2>1, <2>3 DEF SchedulerIInv, AreEnqueued, Booting, ListedTasks
    <2>5. SchedulerTypes' /\ AreEnqueued'
      BY <2>1, <2>2, <2>3, <2>4 DEF SchedulerIInv, SchedulerTypes, AreEnqueued, Waits
    <2>6. Booting'
      BY <2>1, <2>2, <2>4 DEF SchedulerIInv, Booting, Waits
    <2>7. ASSUME NEW x \in Calls, Alone(TaskOf[x])' PROVE ItsOwn(x)'
      <3>1. Alone(TaskOf[x]) /\ ItsOwn(x)
        BY <2>1, <2>7 DEF Alone, SchedulerIInv
      <3>2. (Waits(x)' => Waits(x)) /\ (CallHolds(x)' <=> CallHolds(x)) /\ (LoopHolds(x)' <=> LoopHolds(x))
        BY <2>1, <2>2 DEF Waits, CallHolds, LoopHolds
      <3>3. x \in enqueued /\ TaskOf[x] = t => x = q
        BY <2>3, <2>4, <3>1, Same
      <3>4. TaskOf[x] = t => ~Waits(x)' /\ ~LoopHolds(x) /\ ~CallHolds(x)
        BY <2>3, <3>1, <3>2, <3>3 DEF ItsOwn, OneToken, SchedulerIInv, AreEnqueued, LoopHolds, CallHolds
      <3> QED
        BY <2>1, <2>2, <2>4, <3>1, <3>2, <3>4 DEF ItsOwn, OneToken, Persisted, Entered, CancelAlone
    <2> QED
      BY <2>5, <2>6, <2>7 DEF SchedulerIInv
  <1>2. ASSUME CancelStep PROVE SchedulerIInv'
    <2> PICK t : t = cancel.task
      OBVIOUS
    <2>1. /\ cancel.at # "off" /\ UNCHANGED <<pc, loop, queue, retries, boot, enqueued>>
          /\ (cancel'.at # "off" /\ cancel'.task = t) \/ cancel' = NoCancel
          /\ stored' = stored \/ stored' = [stored EXCEPT ![t] = None]
          /\ UNCHANGED <<index, lost>> \/ DropFromIndex("cancel", t)
          /\ cancel' \in [at : {"off", "checkpointing", "unindexing", "unstoring"}, task : Tasks \cup {None}]
      BY <1>2 DEF CancelStep, CancelReads, CancelUnindexes, CancelForgets, ForgetItem, NoCancel, None, SchedulerIInv, SchedulerTypes
    <2>2. PICK q \in enqueued : TaskOf[q] = t
      BY <2>1 DEF SchedulerIInv, AreEnqueued
    <2>3. t \in Tasks /\ q \in Calls
      BY <2>2, SchedulerAssumption DEF SchedulerIInv, SchedulerTypes
    <2>4. \A u : u # t /\ u # "null" /\ u \in ListedTasks \cup lost => u \in (ListedTasks \cup lost)'
      <3>1. CASE UNCHANGED <<index, lost>>
        BY <3>1 DEF ListedTasks
      <3>2. CASE DropFromIndex("cancel", t)
        BY <2>3, <3>2, IndexWritten
      <3> QED
        BY <2>1, <3>1, <3>2
    <2>5. /\ stored' \in [Tasks -> Calls \cup {None}]
          /\ \A u \in Tasks : (stored'[u] # None => stored'[u] = stored[u]) /\ (u # t => stored'[u] = stored[u])
      BY <2>1, <2>3 DEF SchedulerIInv, SchedulerTypes
    <2>6. SchedulerTypes' /\ (cancel'.at # "off" => cancel'.task = t /\ cancel'.at # "off")
      BY <2>1, <2>5 DEF NoCancel, SchedulerIInv, SchedulerTypes
    <2>7. AreEnqueued'
      BY <2>1, <2>2, <2>5, <2>6 DEF SchedulerIInv, AreEnqueued, Waits
    <2>8. Booting'
      BY <2>1, <2>4, <2>6 DEF SchedulerIInv, Booting, Waits
    <2>9. ASSUME NEW x \in Calls, Alone(TaskOf[x])' PROVE ItsOwn(x)'
      <3>1. ItsOwn(x) /\ TaskOf[x] \in Tasks /\ TaskOf[x] # "null"
        BY <2>1, <2>9, SchedulerAssumption DEF Alone, SchedulerIInv
      <3>2. (Waits(x)' <=> Waits(x)) /\ (CallHolds(x)' <=> CallHolds(x)) /\ (LoopHolds(x)' <=> LoopHolds(x))
        BY <2>1 DEF Waits, CallHolds, LoopHolds
      <3>3. Waits(x) => TaskOf[x] # t
        BY <2>1, <3>1 DEF ItsOwn, CancelAlone
      <3> QED
        BY <2>1, <2>4, <2>5, <2>6, <3>1, <3>2, <3>3 DEF ItsOwn, OneToken, Persisted, Entered, CancelAlone
    <2> QED
      BY <2>6, <2>7, <2>8, <2>9 DEF SchedulerIInv
  <1> QED
    BY <1>1, <1>2

LEMMA PruneKeeps ==
  ASSUME SchedulerIInv, PruneExpired
  PROVE  SchedulerIInv'
  <1> DEFINE P == {i \in DOMAIN queue : queue[i] \notin lapsed}
             Q == {i \in DOMAIN retries : retries[i] \notin lapsed}
  <1>1. /\ queue' = ItemsAt(queue, P) /\ retries' = ItemsAt(retries, Q)
        /\ UNCHANGED <<pc, loop, cancel, stored, index, lost, boot, enqueued>>
    BY DEF PruneExpired
  <1>2. P \subseteq DOMAIN queue /\ Q \subseteq DOMAIN retries
    OBVIOUS
  <1>3. queue \in Seq(Calls) /\ retries \in Seq(Calls)
    BY DEF SchedulerIInv, SchedulerTypes
  <1> HIDE DEF P, Q
  <1>4. queue' \in Seq(Calls) /\ \A d : (Holds(queue', d) => Holds(queue, d)) /\ (Once(queue, d) => Once(queue', d))
    BY <1>1, <1>2, <1>3, ItemsAtHolds
  <1>5. retries' \in Seq(Calls) /\ \A d : (Holds(retries', d) => Holds(retries, d)) /\ (Once(retries, d) => Once(retries', d))
    BY <1>1, <1>2, <1>3, ItemsAtHolds
  <1>6. /\ \A d : Waits(d)' => Waits(d)
        /\ \A d : (CallHolds(d)' <=> CallHolds(d)) /\ (LoopHolds(d)' <=> LoopHolds(d))
        /\ UNCHANGED (ListedTasks \cup lost) /\ \A t : Alone(t)' <=> Alone(t)
    BY <1>1, <1>4, <1>5 DEF Waits, CallHolds, LoopHolds, ListedTasks, Alone
  <1>7. SchedulerTypes' /\ AreEnqueued' /\ Booting'
    BY <1>1, <1>4, <1>5, <1>6 DEF SchedulerIInv, SchedulerTypes, AreEnqueued, Booting
  <1> QED
    BY <1>1, <1>4, <1>5, <1>6, <1>7 DEF SchedulerIInv, ItsOwn, OneToken, Persisted, Entered, CancelAlone

\* After a crash there are the records and the index.
LEMMA RestartKeeps ==
  ASSUME SchedulerIInv, Restart
  PROVE  SchedulerIInv'
  <1>1. /\ pc' = [c \in Calls |-> IF pc[c] = "idle" THEN "idle" ELSE "done"] /\ loop' = Off /\ cancel' = NoCancel
        /\ queue' = <<>> /\ retries' = <<>> /\ boot' = [on |-> TRUE, left |-> ListedTasks, kept |-> {}]
        /\ lost' = {} /\ UNCHANGED <<index, stored, enqueued>>
    BY DEF Restart
  <1>2. \A d : ~Waits(d)' /\ Once(queue', d) /\ Once(retries', d)
    BY <1>1 DEF Waits, Holds, Once
  <1>3. \A d \in Calls : ~LoopHolds(d)' /\ ~CallHolds(d)' /\ loop'.item # d /\ pc'[d] \in {"idle", "done"} /\ (pc'[d] = "idle" <=> pc[d] = "idle")
    BY <1>1, SchedulerAssumption DEF LoopHolds, CallHolds, Off, None
  <1>4. SchedulerTypes'
    BY <1>1 DEF SchedulerIInv, SchedulerTypes, Off, NoCancel, None
  <1>5. AreEnqueued'
    BY <1>1, <1>2, <1>3 DEF SchedulerIInv, SchedulerTypes, AreEnqueued, NoCancel
  <1>6. Booting'
    BY <1>1, <1>2, <1>3 DEF Booting, ListedTasks, Null, NoCancel
  <1> QED
    BY <1>1, <1>2, <1>3, <1>4, <1>5, <1>6 DEF SchedulerIInv, ItsOwn, OneToken, Persisted, Entered, CancelAlone, NoCancel, Waits

\* Of a task that is looked at nobody has an item; what was stored of it is queued, or deleted.
LEMMA RestoreItemKeeps ==
  ASSUME SchedulerIInv, NEW t \in Tasks, RestoreItem(t)
  PROVE  SchedulerIInv'
  <1> DEFINE c == stored[t]
  <1>1. boot.on /\ t \in boot.left /\ UNCHANGED <<pc, loop, cancel, index, lost, enqueued>>
    BY DEF RestoreItem
  <1>2. /\ t \in ListedTasks \cup lost /\ \A d \in Calls : TaskOf[d] = t => ~Waits(d) /\ loop.item # d
        /\ cancel.at # "off" => cancel.task # t
        /\ \A d \in Calls : pc[d] \in {"idle", "done"} /\ ~CallHolds(d) /\ (CallHolds(d)' <=> CallHolds(d)) /\ (LoopHolds(d)' <=> LoopHolds(d))
    BY <1>1 DEF SchedulerIInv, Booting, CallHolds, LoopHolds
  <1>3. UNCHANGED (ListedTasks \cup lost) /\ (\A u : Alone(u)' <=> Alone(u))
    BY <1>1 DEF ListedTasks, Alone
  <1>4. CASE /\ c # None /\ Enqueue(c, tries[t]) /\ boot' = [boot EXCEPT !.left = @ \ {t}, !.kept = @ \cup {t}]
             /\ UNCHANGED stored
    <2> PICK i \in Calls : i = c
      BY <1>4 DEF SchedulerIInv, SchedulerTypes
    <2>1. TaskOf[i] = t /\ i \in enqueued /\ ~Waits(i) /\ loop.item # i
      BY <1>2, <1>4 DEF SchedulerIInv, AreEnqueued
    <2>2. /\ queue' \in Seq(Calls) /\ retries' \in Seq(Calls)
          /\ \A d : d # i => (Holds(queue', d) => Holds(queue, d)) /\ (Holds(retries', d) => Holds(retries, d))
          /\ \A d : d # i => (Once(queue, d) => Once(queue', d)) /\ (Once(retries, d) => Once(retries', d))
          /\ Once(queue, i) /\ Once(retries, i)
             => Once(queue', i) /\ Once(retries', i) /\ ~(Holds(queue', i) /\ Holds(retries', i))
      BY <1>4, <2>1, Enqueued DEF SchedulerIInv
    <2>3. boot' = [on |-> TRUE, left |-> boot.left \ {t}, kept |-> boot.kept \cup {t}]
      BY <1>1, <1>4 DEF SchedulerIInv, SchedulerTypes, Booting
    <2>4. SchedulerTypes'
      BY <1>1, <1>4, <2>2, <2>3 DEF SchedulerIInv, SchedulerTypes
    <2>5. AreEnqueued' /\ \A d \in Calls : d # i => (Waits(d)' => Waits(d))
      BY <1>1, <1>4, <2>1, <2>2 DEF SchedulerIInv, AreEnqueued, Waits
    <2>6. Booting'
      BY <1>1, <1>3, <2>1, <2>3, <2>5 DEF SchedulerIInv, Booting
    <2>7. stored'[t] = i
      BY <1>4
    <2>8. ASSUME NEW x \in Calls, Alone(TaskOf[x])' PROVE ItsOwn(x)'
      <3>1. ItsOwn(x)
        BY <1>3, <2>8 DEF SchedulerIInv
      <3>2. CASE x # i
        BY <1>1, <1>2, <1>3, <1>4, <2>2, <2>5, <3>1, <3>2 DEF ItsOwn, OneToken, Persisted, Entered, CancelAlone
      <3>3. CASE x = i
        BY <1>1, <1>2, <1>3, <2>1, <2>2, <2>7, <3>1, <3>3 DEF ItsOwn, OneToken, Persisted, Entered, CancelAlone, LoopHolds
      <3> QED
        BY <3>2, <3>3
    <2> QED
      BY <2>4, <2>5, <2>6, <2>8 DEF SchedulerIInv
  <1>5. CASE ForgetItem(t) /\ boot' = [boot EXCEPT !.left = @ \ {t}] /\ UNCHANGED <<queue, retries>>
    <2>1. /\ stored' \in [Tasks -> Calls \cup {None}]
          /\ \A u \in Tasks : (stored'[u] # None => stored'[u] = stored[u]) /\ (u # t => stored'[u] = stored[u])
      BY <1>5 DEF SchedulerIInv, SchedulerTypes, ForgetItem
    <2>2. boot' = [on |-> TRUE, left |-> boot.left \ {t}, kept |-> boot.kept] /\ \A d : Waits(d)' <=> Waits(d)
      BY <1>1, <1>5 DEF SchedulerIInv, SchedulerTypes, Booting, Waits
    <2>3. SchedulerTypes' /\ AreEnqueued' /\ Booting'
      <3>1. SchedulerTypes'
        BY <1>1, <1>5, <2>1, <2>2 DEF SchedulerIInv, SchedulerTypes
      <3>2. AreEnqueued'
        BY <1>1, <2>1, <2>2 DEF SchedulerIInv, AreEnqueued
      <3>3. Booting'
        BY <1>1, <1>3, <2>2 DEF SchedulerIInv, Booting
      <3> QED
        BY <3>1, <3>2, <3>3
    <2>4. ASSUME NEW x \in Calls, Alone(TaskOf[x])' PROVE ItsOwn(x)'
      <3>1. ItsOwn(x) /\ TaskOf[x] \in Tasks /\ (Waits(x) => stored'[TaskOf[x]] = stored[TaskOf[x]])
        BY <1>2, <1>3, <2>1, <2>4, SchedulerAssumption DEF SchedulerIInv
      <3> QED
        BY <1>1, <1>2, <1>3, <1>5, <2>2, <3>1 DEF ItsOwn, OneToken, Persisted, Entered, CancelAlone
    <2> QED
      BY <2>3, <2>4 DEF SchedulerIInv
  <1> QED
    BY <1>4, <1>5 DEF RestoreItem

\* What waits is in remainingIndex.
LEMMA RestoreEndsKeeps ==
  ASSUME SchedulerIInv, RestoreEnds
  PROVE  SchedulerIInv'
  <1>1. /\ boot.on /\ index' = boot.kept /\ boot' = NoBoot
        /\ UNCHANGED <<pc, loop, cancel, queue, retries, stored, enqueued>>
    BY DEF RestoreEnds
  <1>2. /\ \A d : (Waits(d)' <=> Waits(d)) /\ (CallHolds(d)' <=> CallHolds(d)) /\ (LoopHolds(d)' <=> LoopHolds(d))
        /\ \A u : Alone(u)' <=> Alone(u)
        /\ \A d \in Calls : Waits(d) => TaskOf[d] \in (ListedTasks \cup lost)'
    BY <1>1, SchedulerAssumption DEF Waits, CallHolds, LoopHolds, Alone, SchedulerIInv, Booting, ListedTasks, Null
  <1>3. SchedulerTypes' /\ AreEnqueued' /\ Booting'
    BY <1>1, <1>2 DEF SchedulerIInv, SchedulerTypes, AreEnqueued, Booting, NoBoot
  <1> QED
    BY <1>1, <1>2, <1>3 DEF SchedulerIInv, ItsOwn, OneToken, Persisted, Entered, CancelAlone

LEMMA SchedulerKeeps == SchedulerIInv /\ [Next]_vars => SchedulerIInv'
  <1> SUFFICES ASSUME SchedulerIInv, [Next]_vars PROVE SchedulerIInv'
    OBVIOUS
  <1>1. ASSUME UNCHANGED <<pc, loop, cancel, queue, retries, stored, index, lost, boot, enqueued>> PROVE SchedulerIInv'
    <2>1. /\ \A d : (Waits(d)' <=> Waits(d)) /\ (CallHolds(d)' <=> CallHolds(d)) /\ (LoopHolds(d)' <=> LoopHolds(d))
          /\ (\A u : Alone(u)' <=> Alone(u)) /\ UNCHANGED (ListedTasks \cup lost)
      BY <1>1 DEF Waits, CallHolds, LoopHolds, Alone, ListedTasks
    <2>2. SchedulerTypes' /\ AreEnqueued' /\ Booting'
      BY <1>1, <2>1 DEF SchedulerIInv, SchedulerTypes, AreEnqueued, Booting
    <2> QED
      BY <1>1, <2>1, <2>2 DEF SchedulerIInv, ItsOwn, OneToken, Persisted, Entered, CancelAlone
  <1>2. ASSUME NEW c \in Calls, Schedule(c) \/ ScheduleRefused(c) \/ Step(c) \/ Lapse(c) PROVE SchedulerIInv'
    <2>1. CASE Lapse(c)
      BY <1>1, <2>1 DEF Lapse
    <2> QED
      BY <1>2, <2>1, ScheduleKeeps, CallMoves, ValidatedKeeps, ExecuteKeeps DEF Step
  <1>3. CASE LoopStep
    BY <1>3, LoopTakesKeeps, LoopMoves, LoopExecutesKeeps, LoopRestoresKeeps DEF LoopStep
  <1>4. CASE UNCHANGED vars
    BY <1>1, <1>4 DEF vars
  <1>5. CASE Restart \/ RestoreStep
    BY <1>5, RestartKeeps, RestoreItemKeeps, RestoreEndsKeeps DEF RestoreStep
  <1> QED
    BY <1>2, <1>3, <1>4, <1>5, CancelKeeps, PruneKeeps DEF Next

\* Holders are counted: at most one.
LEMMA Counted ==
  ASSUME SchedulerIInv
  PROVE  OneOwner
  <1> DEFINE inQueue(c) == Cardinality({i \in DOMAIN queue : queue[i] = c})
             inRetries(c) == Cardinality({i \in DOMAIN retries : retries[i] = c})
             byLoop(c) == IF loop.item = c /\ loop.at # "restoring" /\ loop.at # "reindexing" THEN 1 ELSE 0
             byCall(c) == IF pc[c] \in {"unindexing", "unstoring", "executing"} THEN 1 ELSE 0
  <1>1. ASSUME NEW items, NEW c, Once(items, c)
        PROVE  Cardinality({i \in DOMAIN items : items[i] = c}) = IF Holds(items, c) THEN 1 ELSE 0
    <2>1. CASE Holds(items, c)
      <3>1. PICK i \in DOMAIN items : items[i] = c
        BY <2>1 DEF Holds
      <3>2. {j \in DOMAIN items : items[j] = c} = {i}
        BY <1>1, <3>1 DEF Once
      <3> QED
        BY <2>1, <3>2, FS_Singleton
    <2>2. CASE ~Holds(items, c)
      <3>1. {j \in DOMAIN items : items[j] = c} = {}
        BY <2>2 DEF Holds
      <3> QED
        BY <2>2, <3>1, FS_EmptySet
    <2> QED
      BY <2>1, <2>2
  <1>2. ASSUME NEW c \in Calls, Alone(TaskOf[c]) PROVE inQueue(c) + inRetries(c) + byLoop(c) + byCall(c) <= 1
    <2>0. OneToken(c)
      BY <1>2 DEF SchedulerIInv, ItsOwn
    <2>1. /\ inQueue(c) = IF Holds(queue, c) THEN 1 ELSE 0
          /\ inRetries(c) = IF Holds(retries, c) THEN 1 ELSE 0
      BY <1>1, <2>0 DEF OneToken
    <2>2. byLoop(c) = IF LoopHolds(c) THEN 1 ELSE 0
      BY DEF LoopHolds
    <2>3. byCall(c) = IF CallHolds(c) THEN 1 ELSE 0
      BY DEF CallHolds
    <2> HIDE DEF inQueue, inRetries, byLoop, byCall
    <2> QED
      BY <2>0, <2>1, <2>2, <2>3 DEF OneToken, Waits
  <1> QED
    BY <1>2 DEF OneOwner

\* Each item of a task that no other call has queued has one owner at any time, the queue, the
\* retries, the loop or its call; and what waits has its record, and its entry in the index
\* unless the write of another handler took it out, so that a restart finds it: for any
\* number of calls and whatever tasks they share, however calls, the loop, cancellations,
\* expiry, crashes and restorations take turns (task-scheduler.ts, scheduleTask,
\* processDispatch, processNextItem, initialize).
THEOREM ItemsOwnedAndStored == Spec => []OwnedAndStored
  <1>1. SchedulerIInv => OwnedAndStored
    <2> SUFFICES ASSUME SchedulerIInv PROVE QueuedIsStored
      BY Counted DEF OwnedAndStored
    <2>1. \A c \in Queued : c \in Calls /\ Waits(c)
      BY DEF SchedulerIInv, SchedulerTypes, Queued, ToSet, Holds, Waits
    <2>2. ASSUME NEW c \in Queued, Alone(TaskOf[c]), loop.item # c, pc[c] \in {"dispatching", "validating", "done"}
          PROVE  stored[TaskOf[c]] = c /\ TaskOf[c] \in ListedTasks \cup lost
      BY <2>1, <2>2 DEF SchedulerIInv, ItsOwn, Persisted, Entered
    <2> QED
      BY <2>2 DEF QueuedIsStored
  <1> QED
    BY <1>1, SchedulerStarts, SchedulerKeeps, PTL DEF Spec

-----------------------------------------------------------------------------
(* The local models.                                                       *)

\* The units of some, as what Total counts.
UnitsOf(f, some) == UNION {{x} \X (1 .. f[x]) : x \in some}

LEMMA UnitsOfMember ==
  ASSUME NEW f, NEW some, NEW u
  PROVE  u \in UnitsOf(f, some) <=> \E x \in some : u \in {x} \X (1 .. f[x])
  BY DEF UnitsOf

LEMMA UnitsOfOne ==
  ASSUME NEW x, NEW n \in Nat
  PROVE  IsFiniteSet({x} \X (1 .. n)) /\ Cardinality({x} \X (1 .. n)) = n
  <1>1. IsFiniteSet(1 .. n) /\ Cardinality(1 .. n) = n
    BY FirstNumbers
  <1>2. IsFiniteSet({x}) /\ Cardinality({x}) = 1
    BY FS_Singleton
  <1>3. IsFiniteSet({x} \X (1 .. n)) /\ Cardinality({x} \X (1 .. n)) = Cardinality({x}) * Cardinality(1 .. n)
    BY <1>1, <1>2, FS_Product
  <1> QED
    BY <1>1, <1>2, <1>3

LEMMA TotalOfFinite ==
  ASSUME NEW f, NEW some, IsFiniteSet(some), \A x \in some : f[x] \in Nat
  PROVE  IsFiniteSet(UnitsOf(f, some)) /\ Total(f, some) = Cardinality(UnitsOf(f, some)) /\ Total(f, some) \in Nat
  <1> DEFINE parts == {{x} \X (1 .. f[x]) : x \in some}
  <1>1. IsFiniteSet(parts)
    <2> DEFINE part == [x \in some |-> {x} \X (1 .. f[x])]
    <2>1. part \in Surjection(some, parts)
      BY DEF Surjection
    <2> HIDE DEF part, parts
    <2> QED
      BY <2>1, FS_Surjection
  <1>2. ASSUME NEW T \in parts PROVE IsFiniteSet(T)
    <2>1. PICK x \in some : T = {x} \X (1 .. f[x])
      OBVIOUS
    <2>2. f[x] \in Nat
      OBVIOUS
    <2> QED
      BY <2>1, <2>2, UnitsOfOne
  <1>3. IsFiniteSet(UNION parts)
    <2> HIDE DEF parts
    <2> QED
      BY <1>1, <1>2, FS_UNION
  <1>4. IsFiniteSet(UnitsOf(f, some)) /\ Total(f, some) = Cardinality(UnitsOf(f, some))
    BY <1>3 DEF UnitsOf, Total
  <1> QED
    BY <1>4, FS_CardinalityType

LEMMA TotalOfNone == ASSUME NEW f PROVE Total(f, {}) = 0
  <1>1. UNION {{x} \X (1 .. f[x]) : x \in {}} = {}
    OBVIOUS
  <1> QED
    BY <1>1, FS_EmptySet DEF Total

\* One more takes its units more.
LEMMA TotalGrows ==
  ASSUME NEW f, NEW some, IsFiniteSet(some), NEW x, x \notin some, \A y \in some \cup {x} : f[y] \in Nat
  PROVE  Total(f, some \cup {x}) = Total(f, some) + f[x]
  <1> DEFINE U == UnitsOf(f, some)
             one == {x} \X (1 .. f[x])
             V == UnitsOf(f, some \cup {x})
  <1>1. IsFiniteSet(U) /\ Total(f, some) = Cardinality(U) /\ Cardinality(U) \in Nat
    BY TotalOfFinite, FS_CardinalityType
  <1>2. IsFiniteSet(one) /\ Cardinality(one) = f[x] /\ f[x] \in Nat
    BY UnitsOfOne
  <1>3. IsFiniteSet(some \cup {x})
    BY FS_AddElement
  <1>4. Total(f, some \cup {x}) = Cardinality(V)
    BY <1>3, TotalOfFinite
  <1>5. V = U \cup one
    BY DEF UnitsOf
  <1>6. U \cap one = {}
    <2> SUFFICES ASSUME NEW u \in U, u \in one PROVE FALSE
      OBVIOUS
    <2>1. PICK y \in some : u \in {y} \X (1 .. f[y])
      BY UnitsOfMember
    <2>2. u[1] = y /\ u[1] = x
      BY <2>1
    <2> QED
      BY <2>2
  <1> HIDE DEF U, one, V
  <1>7. Cardinality(U \cup one) = Cardinality(U) + Cardinality(one) - Cardinality(U \cap one)
    BY <1>1, <1>2, FS_Union
  <1>8. Cardinality(U \cap one) = 0
    BY <1>6, FS_EmptySet
  <1> QED
    BY <1>1, <1>2, <1>4, <1>5, <1>7, <1>8

LEMMA TotalShrinks ==
  ASSUME NEW f, NEW some, IsFiniteSet(some), NEW x \in some, \A y \in some : f[y] \in Nat
  PROVE  /\ Total(f, some \ {x}) = Total(f, some) - f[x] /\ Total(f, some \ {x}) \in Nat
         /\ IsFiniteSet(some \ {x})
  <1>1. IsFiniteSet(some \ {x}) /\ (some \ {x}) \cup {x} = some
    BY FS_RemoveElement
  <1>2. Total(f, (some \ {x}) \cup {x}) = Total(f, some \ {x}) + f[x]
    BY <1>1, TotalGrows
  <1>3. Total(f, some \ {x}) \in Nat /\ f[x] \in Nat
    BY <1>1, TotalOfFinite
  <1> QED
    BY <1>1, <1>2, <1>3

\* Totals only look at those they are of.
LEMMA TotalOfSame ==
  ASSUME NEW f, NEW g, NEW some, \A x \in some : f[x] = g[x]
  PROVE  Total(f, some) = Total(g, some)
  <1>1. {{x} \X (1 .. f[x]) : x \in some} = {{x} \X (1 .. g[x]) : x \in some}
    OBVIOUS
  <1> QED
    BY <1>1 DEF Total

-----------------------------------------------------------------------------
(* The cache of models.                                                    *)

AcqPhases == {"idle", "validating", "connecting", "streaming", "hashing", "evicting", "unlinked",
              "promoting", "listing", "failed", "installed"}
BusyPhases == AcqPhases \ {"idle", "failed", "installed"}

Holding(items, m) == \E i \in DOMAIN items : items[i] = m

ModelCacheTypes ==
  /\ modelFile \in [Models -> {"absent", "good"}] /\ cached \in Seq(Models)
  /\ activeModelIds \subseteq Models /\ raced \subseteq Models
  /\ staged \in [Acquisitions -> {"none", "good", "bad"}]
  /\ acq \in [Acquisitions ->
       [phase : AcqPhases, via : {"none", "download", "stage"}, model : Models \cup {"none"}, hops : Nat,
        victims : Seq(Models), total : Int, then : {"none", "connecting", "promoting"}]]
  /\ \A a \in Acquisitions : acq[a].phase \in BusyPhases => acq[a].model \in Models

\* What an acquisition is about to promote it has verified, and who has unlinked a file
\* still has its victim.
OnItsWay(a) ==
  /\ acq[a].phase \in {"evicting", "unlinked"} => acq[a].then # "none"
  /\ \/ acq[a].phase = "promoting"
     \/ acq[a].phase \in {"evicting", "unlinked"} /\ acq[a].then = "promoting"
     => staged[a] = "good"
  /\ acq[a].phase \notin {"streaming", "hashing", "failed"} => staged[a] # "bad"
  /\ acq[a].phase = "unlinked" => acq[a].victims # <<>>
  /\ acq[a].phase = "listing" => modelFile[acq[a].model] = "good" \/ acq[a].model \in raced

\* A listed model is complete, unless it was hit between its rename and its entry or is
\* about to lose its entry.
Loadable(m) ==
  \/ modelFile[m] = "good" \/ m \in raced
  \/ \E a \in Acquisitions : acq[a].phase = "unlinked" /\ acq[a].victims[1] = m


ModelCacheIInv ==
  /\ ModelCacheTypes
  /\ \A a \in Acquisitions : OnItsWay(a)
  /\ \A m \in Models : Holding(cached, m) => Loadable(m)


LEMMA ItemsAtOnly ==
  ASSUME NEW S, NEW items \in Seq(S), NEW places, places \subseteq DOMAIN items
  PROVE  /\ ItemsAt(items, places) \in Seq(S)
         /\ \A m : Holding(ItemsAt(items, places), m) => \E i \in places : items[i] = m
  <1> DEFINE r == ItemsAt(items, places)
  <1>1. r \in Seq(S) /\ Len(r) = Cardinality(places) /\ InOrderAt(r, items, places)
    BY ItemsAtPlaces
  <1> HIDE DEF r
  <1>2. PICK at \in [1 .. Cardinality(places) -> places] :
          \A k \in 1 .. Cardinality(places) : r[k] = items[at[k]]
    BY <1>1 DEF InOrderAt
  <1>3. DOMAIN r = 1 .. Cardinality(places)
    BY <1>1
  <1>4. \A k \in DOMAIN r : at[k] \in places /\ r[k] = items[at[k]]
    BY <1>2, <1>3
  <1>5. \A m : Holding(r, m) => \E i \in places : items[i] = m
    BY <1>4 DEF Holding
  <1> QED
    BY <1>1, <1>5 DEF r

\* The other models stay listed as they were, this one is not.
LEMMA Forgotten ==
  ASSUME cached \in Seq(Models), NEW m
  PROVE  /\ Forget(m) \in Seq(Models)
         /\ \A n : Holding(Forget(m), n) => n # m /\ Holding(cached, n)
  <1> DEFINE places == {i \in DOMAIN cached : cached[i] # m}
  <1>1. /\ ItemsAt(cached, places) \in Seq(Models)
        /\ \A n : Holding(ItemsAt(cached, places), n) => \E i \in places : cached[i] = n
    BY ItemsAtOnly
  <1>2. Forget(m) = ItemsAt(cached, places)
    BY DEF Forget
  <1> QED
    BY <1>1, <1>2 DEF Holding

LEMMA Listed ==
  ASSUME cached \in Seq(Models), NEW m \in Models
  PROVE  /\ Append(Forget(m), m) \in Seq(Models)
         /\ \A n : Holding(Append(Forget(m), m), n) => n = m \/ Holding(cached, n)
  <1> DEFINE r == Forget(m)
  <1>1. r \in Seq(Models) /\ \A n : Holding(r, n) => Holding(cached, n)
    BY Forgotten
  <1> HIDE DEF r
  <1>2. Append(r, m) \in Seq(Models) /\ \A n : Holding(Append(r, m), n) => n = m \/ Holding(r, n)
    BY <1>1 DEF Holding
  <1> QED
    BY <1>1, <1>2 DEF r

LEMMA CatalogedHolding == ASSUME cached \in Seq(Models), NEW m PROVE m \in Cataloged <=> Holding(cached, m)
  BY DEF Cataloged, ToSet, Holding

LEMMA CatalogTotal ==
  ASSUME cached \in Seq(Models)
  PROVE  Total(FileSizeOf, Cataloged) \in Nat
  <1>1. IsFiniteSet(1 .. Len(cached)) /\ Len(cached) \in Nat
    BY FirstNumbers
  <1>2. cached \in Surjection(1 .. Len(cached), Cataloged)
    BY DEF Surjection, Cataloged, ToSet
  <1>3. IsFiniteSet(Cataloged)
    BY <1>1, <1>2, FS_Surjection
  <1>4. \A m \in Cataloged : FileSizeOf[m] \in Nat
    BY ModelCacheAssumption DEF Cataloged, ToSet
  <1> QED
    BY <1>3, <1>4, TotalOfFinite

\* A plan accounts for every layer and fits into what was free.
LEMMA RoomFits ==
  ASSUME NEW n \in Nat, NEW d \in Nat \ {0}, NEW k \in Nat, k <= n \div d
  PROVE  k * d <= n
  OBVIOUS

AcqRecord ==
  [phase : AcqPhases, via : {"none", "download", "stage"}, model : Models \cup {"none"}, hops : Nat,
   victims : Seq(Models), total : Int, then : {"none", "connecting", "promoting"}]

\* What an acquisition may become while the files and the catalog stay as they are.
MayBecome(r, s) ==
  /\ r \in AcqRecord /\ s \in {"none", "good", "bad"}
  /\ r.phase \in BusyPhases => r.model \in Models
  /\ r.phase \notin {"unlinked", "listing"}
  /\ r.phase = "evicting" => r.then # "none"
  /\ r.phase = "promoting" \/ (r.phase = "evicting" /\ r.then = "promoting") => s = "good"
  /\ r.phase \notin {"streaming", "hashing", "failed"} => s # "bad"

LEMMA AcquisitionMoves ==
  ASSUME ModelCacheIInv, NEW a \in Acquisitions, NEW r, NEW s, MayBecome(r, s), acq[a].phase # "unlinked",
         acq' = [acq EXCEPT ![a] = r], staged' = [staged EXCEPT ![a] = s],
         UNCHANGED <<modelFile, cached, activeModelIds, raced>>
  PROVE  ModelCacheIInv'
  <1>1. acq \in [Acquisitions -> AcqRecord] /\ staged \in [Acquisitions -> {"none", "good", "bad"}]
    BY DEF ModelCacheIInv, ModelCacheTypes, AcqRecord
  <1>2. /\ acq' \in [Acquisitions -> AcqRecord] /\ staged' \in [Acquisitions -> {"none", "good", "bad"}]
        /\ acq'[a] = r /\ staged'[a] = s
        /\ \A b \in Acquisitions : b # a => acq'[b] = acq[b] /\ staged'[b] = staged[b]
    BY <1>1 DEF MayBecome
  <1>3. ModelCacheTypes'
    <2>1. \A b \in Acquisitions : acq'[b].phase \in BusyPhases => acq'[b].model \in Models
      BY <1>2 DEF ModelCacheIInv, ModelCacheTypes, MayBecome
    <2> QED
      BY <1>2, <2>1 DEF ModelCacheIInv, ModelCacheTypes, AcqRecord
  <1>4. \A b \in Acquisitions : OnItsWay(b)'
    BY <1>2 DEF ModelCacheIInv, OnItsWay, MayBecome
  <1>5. \A m \in Models : Loadable(m) => Loadable(m)'
    BY <1>2 DEF Loadable
  <1> QED
    BY <1>3, <1>4, <1>5 DEF ModelCacheIInv

\* The fields of an acquisition.
LEMMA AcqFields ==
  ASSUME ModelCacheIInv, NEW a \in Acquisitions
  PROVE  /\ acq[a] \in AcqRecord /\ staged[a] \in {"none", "good", "bad"}
         /\ acq[a].phase \in AcqPhases /\ acq[a].via \in {"none", "download", "stage"}
         /\ acq[a].model \in Models \cup {"none"} /\ acq[a].hops \in Nat /\ acq[a].victims \in Seq(Models)
         /\ acq[a].total \in Int /\ acq[a].then \in {"none", "connecting", "promoting"}
         /\ acq[a].phase \in BusyPhases => acq[a].model \in Models
         /\ OnItsWay(a)
  BY DEF ModelCacheIInv, ModelCacheTypes, AcqRecord

LEMMA MovedAcq ==
  ASSUME NEW r \in AcqRecord, NEW p \in AcqPhases, NEW v \in Seq(Models), NEW n \in Int
  PROVE  [r EXCEPT !.phase = p, !.victims = v, !.total = n] \in AcqRecord
  BY DEF AcqRecord

LEMMA NoAcqRecord == NoAcq \in AcqRecord
  <1>1. <<>> \in Seq(Models)
    OBVIOUS
  <1> QED
    BY <1>1 DEF NoAcq, AcqRecord, AcqPhases

LEMMA AcquisitionEnds ==
  ASSUME ModelCacheIInv, NEW a \in Acquisitions, NEW phase \in {"failed", "installed"},
         EndAcquisition(a, phase)
  PROVE  \E r \in AcqRecord : r.phase = phase /\ acq' = [acq EXCEPT ![a] = r]
  <1> DEFINE r == [NoAcq EXCEPT !.phase = phase, !.model = acq[a].model]
  <1>0. acq[a].model \in Models \cup {"none"} /\ <<>> \in Seq(Models)
    BY AcqFields
  <1>1. r \in AcqRecord /\ r.phase = phase
    <2>1. NoAcq \in AcqRecord
      BY NoAcqRecord
    <2> QED
      BY <1>0, <2>1 DEF AcqRecord, AcqPhases
  <1>2. acq' = [acq EXCEPT ![a] = r]
    BY DEF EndAcquisition
  <1> QED
    BY <1>1, <1>2

LEMMA StagedAsIs ==
  ASSUME ModelCacheIInv, NEW a \in Acquisitions, UNCHANGED staged
  PROVE  staged' = [staged EXCEPT ![a] = staged[a]]
  BY DEF ModelCacheIInv, ModelCacheTypes

\* It may end, whatever it has come to, and leave anything in staging.
LEMMA EndsMove ==
  ASSUME ModelCacheIInv, NEW a \in Acquisitions, acq[a].phase # "unlinked",
         EndAcquisition(a, "failed"), NEW s \in {"none", "good", "bad"}, staged' = [staged EXCEPT ![a] = s],
         UNCHANGED <<modelFile, cached, activeModelIds, raced>>
  PROVE  ModelCacheIInv'
  <1>1. PICK r \in AcqRecord : r.phase = "failed" /\ acq' = [acq EXCEPT ![a] = r]
    BY AcquisitionEnds
  <1>2. MayBecome(r, s)
    BY <1>1 DEF MayBecome, BusyPhases
  <1> QED
    BY <1>1, <1>2, AcquisitionMoves

LEMMA EnsureCapacityMoves ==
  ASSUME ModelCacheIInv, NEW a \in Acquisitions, NEW then \in {"connecting", "promoting"},
         acq[a].phase \in {"validating", "hashing"}, then = "promoting" => staged[a] = "good",
         staged[a] # "bad", EnsureCapacity(a, then),
         UNCHANGED <<modelFile, cached, activeModelIds, staged, raced>>
  PROVE  ModelCacheIInv'
  <1> DEFINE places == {i \in DOMAIN cached : cached[i] \notin activeModelIds}
             total == Total(FileSizeOf, Cataloged)
             fits == total + FileSizeOf[acq[a].model] <= MaxCacheBytes
             p == IF fits THEN then ELSE "evicting"
             n == IF fits THEN 0 ELSE total
             v == IF fits THEN <<>> ELSE ItemsAt(cached, places)
             r == [acq[a] EXCEPT !.phase = p, !.then = then, !.total = n, !.victims = v]
  <1>0. cached \in Seq(Models) /\ acq \in [Acquisitions -> AcqRecord]
    BY DEF ModelCacheIInv, ModelCacheTypes, AcqRecord
  <1>1. ItemsAt(cached, places) \in Seq(Models)
    BY <1>0, ItemsAtOnly
  <1>2. total \in Nat
    BY <1>0, CatalogTotal
  <1>3. acq' = [acq EXCEPT ![a] = r]
    BY <1>0 DEF EnsureCapacity
  <1>4. acq[a] \in AcqRecord /\ acq[a].model \in Models /\ <<>> \in Seq(Models)
    BY AcqFields DEF BusyPhases, AcqPhases
  <1>5. MayBecome(r, staged[a])
    <2> HIDE DEF fits, places, total
    <2>0. n \in Int /\ v \in Seq(Models) /\ p \in {then, "evicting"}
      BY <1>1, <1>2, <1>4
    <2> HIDE DEF n, v, p
    <2>1. r \in AcqRecord
      BY <1>4, <2>0 DEF AcqRecord, AcqPhases
    <2>2. r.phase \in {then, "evicting"} /\ r.then = then /\ r.model = acq[a].model
      BY <1>4, <2>0 DEF AcqRecord
    <2>3. staged[a] \in {"none", "good", "bad"}
      BY AcqFields
    <2> HIDE DEF r
    <2> QED
      BY <1>4, <2>1, <2>2, <2>3 DEF MayBecome
  <1> HIDE DEF r
  <1> QED
    BY <1>3, <1>5, AcquisitionMoves, StagedAsIs

LEMMA BeginsStep ==
  ASSUME ModelCacheIInv, NEW a \in Acquisitions, NEW m \in Models,
         \/ DownloadArtifact(a, m) \/ StageRefused(a, m)
         \/ \E c \in {"good", "bad"} : StageModel(a, m, c)
  PROVE  ModelCacheIInv'
  <1> DEFINE Fresh(phase, via) == [NoAcq EXCEPT !.phase = phase, !.via = via, !.model = m]
  <1>0. acq[a].phase = "idle" /\ staged[a] \in {"none", "good"} /\ staged' = [staged EXCEPT ![a] = staged'[a]]
    <2>1. InPhase(a, "idle")
      BY DEF DownloadArtifact, StageRefused, StageModel
    <2>2. staged[a] \in {"none", "good", "bad"} /\ OnItsWay(a) /\ staged \in [Acquisitions -> {"none", "good", "bad"}]
      BY AcqFields DEF ModelCacheIInv, ModelCacheTypes
    <2>3. staged' = [staged EXCEPT ![a] = staged'[a]]
      BY <2>2 DEF DownloadArtifact, StageRefused, StageModel
    <2> QED
      BY <2>1, <2>2, <2>3 DEF OnItsWay, InPhase
  <1>1. ASSUME NEW phase \in AcqPhases, NEW via \in {"none", "download", "stage"}
        PROVE  /\ Fresh(phase, via) \in AcqRecord /\ Fresh(phase, via).phase = phase
               /\ Fresh(phase, via).model = m /\ Fresh(phase, via).via = via
    <2>1. NoAcq \in AcqRecord
      BY NoAcqRecord
    <2> QED
      BY <2>1 DEF AcqRecord
  <1>2. UNCHANGED <<modelFile, cached, activeModelIds, raced>>
    BY DEF DownloadArtifact, StageRefused, StageModel
  <1>3. CASE DownloadArtifact(a, m)
    <2>1. acq' = [acq EXCEPT ![a] = Fresh("validating", "download")] /\ staged'[a] = staged[a]
      BY <1>3 DEF DownloadArtifact
    <2>2. MayBecome(Fresh("validating", "download"), staged[a])
      <3>1. "validating" \in AcqPhases
        BY DEF AcqPhases
      <3> HIDE DEF Fresh
      <3> QED
        BY <1>0, <1>1, <3>1 DEF MayBecome
    <2> HIDE DEF Fresh
    <2> QED
      BY <1>0, <1>2, <2>1, <2>2, AcquisitionMoves
  <1>4. CASE StageRefused(a, m)
    <2> DEFINE r == [NoAcq EXCEPT !.phase = "failed", !.model = m]
    <2>1. acq' = [acq EXCEPT ![a] = r] /\ staged'[a] = staged[a]
      BY <1>4 DEF StageRefused
    <2>2. MayBecome(r, staged[a])
      <3>1. NoAcq \in AcqRecord
        BY NoAcqRecord
      <3>2. r \in AcqRecord /\ r.phase = "failed" /\ r.model = m
        BY <3>1 DEF AcqRecord, AcqPhases
      <3> HIDE DEF r
      <3> QED
        BY <1>0, <3>2 DEF MayBecome
    <2> HIDE DEF r
    <2> QED
      BY <1>0, <1>2, <2>1, <2>2, AcquisitionMoves
  <1>5. CASE \E c \in {"good", "bad"} : StageModel(a, m, c)
    <2>0. PICK c \in {"good", "bad"} : StageModel(a, m, c)
      BY <1>5
    <2>1. acq' = [acq EXCEPT ![a] = Fresh("hashing", "stage")] /\ staged' = [staged EXCEPT ![a] = c]
      BY <2>0 DEF StageModel
    <2>2. MayBecome(Fresh("hashing", "stage"), c)
      <3>1. "hashing" \in AcqPhases
        BY DEF AcqPhases
      <3> HIDE DEF Fresh
      <3> QED
        BY <1>1, <3>1 DEF MayBecome
    <2> HIDE DEF Fresh
    <2> QED
      BY <1>0, <1>2, <2>1, <2>2, AcquisitionMoves
  <1> QED
    BY <1>3, <1>4, <1>5

\* Steps that only move the acquisition on or end it.
LEMMA GoesOnStep ==
  ASSUME ModelCacheIInv, NEW a \in Acquisitions,
         \/ SourceRefused(a) \/ AcquisitionFails(a) \/ SourceIsValid(a) \/ EvictionDone(a)
         \/ Redirect(a) \/ Connect(a) \/ Streamed(a) \/ Verified(a) \/ HashMismatch(a)
  PROVE  ModelCacheIInv'
  <1>0. /\ acq[a] \in AcqRecord /\ staged[a] \in {"none", "good", "bad"} /\ OnItsWay(a)
        /\ acq[a].phase \in BusyPhases => acq[a].model \in Models
        /\ acq \in [Acquisitions -> AcqRecord]
    BY AcqFields DEF ModelCacheIInv, ModelCacheTypes, AcqRecord
  <1>1. UNCHANGED <<modelFile, cached, activeModelIds, raced>>
    BY DEF SourceRefused, AcquisitionFails, SourceIsValid, EvictionDone, Redirect, Connect, Streamed, Verified, HashMismatch
  <1>2. ASSUME SourceRefused(a) PROVE ModelCacheIInv'
    <2>1. acq[a].phase \in {"validating", "connecting"} /\ EndAcquisition(a, "failed") /\ UNCHANGED staged
      BY <1>2 DEF SourceRefused
    <2>2. staged[a] \in {"none", "good"}
      BY <1>0, <2>1 DEF OnItsWay
    <2> QED
      BY <1>1, <2>1, <2>2, EndsMove, StagedAsIs
  <1>3. ASSUME AcquisitionFails(a) \/ HashMismatch(a) PROVE ModelCacheIInv'
    <2>1. acq[a].phase # "unlinked" /\ EndAcquisition(a, "failed") /\ DiscardStaged(a)
      BY <1>3 DEF AcquisitionFails, HashMismatch, InPhase
    <2>2. CASE UNCHANGED staged
      BY <1>0, <1>1, <2>1, <2>2, EndsMove, StagedAsIs
    <2>3. CASE staged' = [staged EXCEPT ![a] = "none"]
      BY <1>1, <2>1, <2>3, EndsMove
    <2> QED
      BY <2>1, <2>2, <2>3 DEF DiscardStaged
  <1>4. ASSUME SourceIsValid(a) PROVE ModelCacheIInv'
    <2>1. acq[a].phase = "validating" /\ EnsureCapacity(a, "connecting") /\ UNCHANGED staged
      BY <1>4 DEF SourceIsValid, InPhase
    <2>2. staged[a] # "bad"
      BY <1>0, <2>1 DEF OnItsWay
    <2> QED
      BY <1>1, <2>1, <2>2, EnsureCapacityMoves
  <1>5. ASSUME Verified(a) PROVE ModelCacheIInv'
    <2>1. acq[a].phase = "hashing" /\ staged[a] = "good" /\ EnsureCapacity(a, "promoting") /\ UNCHANGED staged
      BY <1>5 DEF Verified, InPhase
    <2> QED
      BY <1>1, <2>1, EnsureCapacityMoves
  <1>6. ASSUME EvictionDone(a) PROVE ModelCacheIInv'
    <2>1. acq[a].phase = "evicting" /\ UNCHANGED staged
      BY <1>6 DEF EvictionDone, InPhase
    <2>2. CASE Fits(a)
      <3> DEFINE next == acq[a].then
                 nobody == <<>>
                 r == [acq[a] EXCEPT !.phase = next, !.victims = nobody, !.total = 0]
      <3>1. acq' = [acq EXCEPT ![a] = r]
        BY <1>0, <1>6, <2>2 DEF EvictionDone
      <3>2. acq[a].then \in {"connecting", "promoting"} /\ acq[a].model \in Models /\ staged[a] # "bad"
            /\ (acq[a].then = "promoting" => staged[a] = "good")
        BY <1>0, <2>1 DEF OnItsWay, AcqRecord, BusyPhases, AcqPhases
      <3>3. r \in AcqRecord /\ r.phase = acq[a].then /\ r.model = acq[a].model
        <4>1. nobody \in Seq(Models) /\ next \in AcqPhases
          BY <3>2 DEF AcqPhases
        <4>2. next = acq[a].then
          OBVIOUS
        <4>3. acq[a] \in AcqRecord
          BY <1>0
        <4> HIDE DEF next, nobody
        <4>4. r \in AcqRecord
          <5> DEFINE was == acq[a]
                     now == 0
          <5>1. was \in AcqRecord /\ now \in Int
            BY <4>3
          <5>2. r = [was EXCEPT !.phase = next, !.victims = nobody, !.total = now]
            OBVIOUS
          <5> HIDE DEF was, now, r
          <5> QED
            BY <4>1, <5>1, <5>2, MovedAcq
        <4>5. r.phase = next /\ r.model = acq[a].model
          BY <4>3 DEF AcqRecord
        <4> QED
          BY <4>2, <4>4, <4>5
      <3> HIDE DEF r
      <3>4. MayBecome(r, staged[a])
        BY <1>0, <3>2, <3>3 DEF MayBecome
      <3> QED
        BY <1>1, <2>1, <3>1, <3>4, AcquisitionMoves, StagedAsIs
    <2>3. CASE ~Fits(a)
      <3>1. EndAcquisition(a, "failed") /\ staged[a] \in {"none", "good"}
        BY <1>0, <1>6, <2>1, <2>3 DEF EvictionDone, OnItsWay
      <3> QED
        BY <1>1, <2>1, <3>1, EndsMove, StagedAsIs
    <2> QED
      BY <2>2, <2>3
  <1>7. ASSUME Redirect(a) PROVE ModelCacheIInv'
    <2> DEFINE n == acq[a].hops + 1
               r == [acq[a] EXCEPT !.hops = n]
    <2>1. acq[a].phase = "connecting" /\ UNCHANGED staged /\ acq' = [acq EXCEPT ![a] = r]
      BY <1>0, <1>7 DEF Redirect, InPhase
    <2>2. r \in AcqRecord /\ r.phase = acq[a].phase /\ r.model = acq[a].model
      <3>1. n \in Nat
        BY <1>0 DEF AcqRecord
      <3> HIDE DEF n
      <3> QED
        BY <1>0, <3>1 DEF AcqRecord
    <2> HIDE DEF r
    <2>3. MayBecome(r, staged[a])
      BY <1>0, <2>1, <2>2 DEF MayBecome, OnItsWay
    <2> QED
      BY <1>1, <2>1, <2>3, AcquisitionMoves, StagedAsIs
  <1>8. ASSUME Connect(a) PROVE ModelCacheIInv'
    <2> DEFINE r == [acq[a] EXCEPT !.phase = "streaming", !.hops = 0]
    <2>1. acq[a].phase = "connecting" /\ staged' = [staged EXCEPT ![a] = "bad"] /\ acq' = [acq EXCEPT ![a] = r]
      BY <1>0, <1>8 DEF Connect, InPhase
    <2>2. r \in AcqRecord /\ r.phase = "streaming" /\ r.model = acq[a].model
      BY <1>0 DEF AcqRecord, AcqPhases
    <2> HIDE DEF r
    <2>3. MayBecome(r, "bad")
      BY <1>0, <2>1, <2>2 DEF MayBecome, BusyPhases, AcqPhases
    <2> QED
      BY <1>1, <2>1, <2>3, AcquisitionMoves
  <1>9. ASSUME Streamed(a) PROVE ModelCacheIInv'
    <2> DEFINE r == [acq[a] EXCEPT !.phase = "hashing"]
    <2>1. acq[a].phase = "streaming" /\ staged' = [staged EXCEPT ![a] = "good"] /\ acq' = [acq EXCEPT ![a] = r]
      BY <1>0, <1>9 DEF Streamed, InPhase, GoOn
    <2>2. r \in AcqRecord /\ r.phase = "hashing" /\ r.model = acq[a].model
      BY <1>0 DEF AcqRecord, AcqPhases
    <2> HIDE DEF r
    <2>3. MayBecome(r, "good")
      BY <1>0, <2>1, <2>2 DEF MayBecome, BusyPhases, AcqPhases
    <2> QED
      BY <1>1, <2>1, <2>3, AcquisitionMoves
  <1> QED
    BY <1>2, <1>3, <1>4, <1>5, <1>6, <1>7, <1>8, <1>9

\* A file is unlinked: the acquisition that did it still has the model as its victim, and who
\* was about to list the model is marked.
LEMMA UnlinkStep ==
  ASSUME ModelCacheIInv, NEW a \in Acquisitions, Unlink(a)
  PROVE  ModelCacheIInv'
  <1>0. /\ acq[a] \in AcqRecord /\ OnItsWay(a) /\ acq[a].model \in Models
        /\ acq \in [Acquisitions -> AcqRecord] /\ acq[a].phase = "evicting"
        /\ acq[a].victims \in Seq(Models) /\ acq[a].victims # <<>>
    BY AcqFields DEF ModelCacheIInv, ModelCacheTypes, AcqRecord, Unlink, InPhase, BusyPhases, AcqPhases
  <1> DEFINE v == Victim(a)
  <1>1. v \in Models /\ v = acq[a].victims[1] /\ Tail(acq[a].victims) \in Seq(Models)
    BY <1>0 DEF Victim
  <1>2. CASE modelFile' = [modelFile EXCEPT ![Victim(a)] = "absent"] /\ GoOn(a, "unlinked")
    <2> DEFINE r == [acq[a] EXCEPT !.phase = "unlinked"]
    <2>1. /\ acq' = [acq EXCEPT ![a] = r] /\ modelFile' = [modelFile EXCEPT ![v] = "absent"]
          /\ UNCHANGED <<cached, activeModelIds, staged>>
      BY <1>0, <1>2 DEF Unlink, GoOn
    <2>2. /\ r \in AcqRecord /\ r.phase = "unlinked" /\ r.model = acq[a].model
          /\ r.victims = acq[a].victims /\ r.then = acq[a].then
      BY <1>0 DEF AcqRecord, AcqPhases
    <2> HIDE DEF r, v
    <2>3. /\ acq' \in [Acquisitions -> AcqRecord] /\ acq'[a] = r
          /\ \A b \in Acquisitions : b # a => acq'[b] = acq[b]
      BY <1>0, <2>1, <2>2
    <2>4. /\ modelFile \in [Models -> {"absent", "good"}] /\ modelFile' \in [Models -> {"absent", "good"}]
          /\ \A m \in Models : m # v => modelFile'[m] = modelFile[m]
      BY <1>1, <2>1 DEF ModelCacheIInv, ModelCacheTypes
    <2>5. raced' \subseteq Models /\ raced \subseteq raced'
          /\ \A b \in Acquisitions : b # a /\ acq[b].phase = "listing" /\ acq[b].model = v => v \in raced'
      <3>1. v = Victim(a)
        BY DEF v
      <3>2. raced' = raced \/ raced' = raced \cup {v}
        BY <1>0, <1>2, <3>1 DEF Unlink, GoOn
      <3>3. raced' = IF \E b \in Acquisitions : InPhase(b, "listing") /\ acq[b].model = v
                     THEN raced \cup {v} ELSE raced
        <4>1. acq' # [acq EXCEPT ![a].victims = Tail(@)]
          BY <1>0, <2>2, <2>3 DEF AcqRecord
        <4> QED
          BY <3>1, <4>1 DEF Unlink
      <3> QED
        BY <1>1, <3>3 DEF InPhase, ModelCacheIInv, ModelCacheTypes
    <2>6. ModelCacheTypes'
      <3>1. \A b \in Acquisitions : acq'[b].phase \in BusyPhases => acq'[b].model \in Models
        BY <1>0, <2>2, <2>3 DEF ModelCacheIInv, ModelCacheTypes
      <3> QED
        BY <2>1, <2>3, <2>4, <2>5, <3>1 DEF ModelCacheIInv, ModelCacheTypes, AcqRecord
    <2>7. OnItsWay(a)'
      BY <1>0, <2>1, <2>2, <2>3 DEF OnItsWay
    <2>8. ASSUME NEW b \in Acquisitions, b # a PROVE OnItsWay(b)'
      <3>1. OnItsWay(b) /\ acq'[b] = acq[b] /\ (acq[b].phase = "listing" => acq[b].model \in Models)
        BY <2>3, <2>8, AcqFields DEF BusyPhases, AcqPhases
      <3> QED
        BY <2>1, <2>4, <2>5, <2>8, <3>1 DEF OnItsWay
    <2>9. ASSUME NEW m \in Models, Loadable(m) PROVE Loadable(m)'
      <3>1. CASE m = v
        BY <1>1, <2>2, <2>3, <3>1 DEF Loadable
      <3>2. CASE m # v
        BY <1>0, <2>3, <2>4, <2>5, <2>9, <3>2 DEF Loadable
      <3> QED
        BY <3>1, <3>2
    <2> QED
      BY <2>1, <2>6, <2>7, <2>8, <2>9 DEF ModelCacheIInv
  <1>3. CASE acq' = [acq EXCEPT ![a].victims = Tail(@)] /\ UNCHANGED <<modelFile, raced>>
    <2> DEFINE rest == Tail(acq[a].victims)
               r == [acq[a] EXCEPT !.victims = rest]
    <2>1. acq' = [acq EXCEPT ![a] = r] /\ UNCHANGED <<modelFile, cached, activeModelIds, raced, staged>>
      BY <1>0, <1>3 DEF Unlink
    <2>2. r \in AcqRecord /\ r.phase = "evicting" /\ r.model = acq[a].model /\ r.then = acq[a].then
      <3> HIDE DEF rest
      <3>1. rest \in Seq(Models)
        BY <1>1 DEF rest
      <3> QED
        BY <1>0, <3>1 DEF AcqRecord
    <2> HIDE DEF r
    <2>3. MayBecome(r, staged[a])
      BY <1>0, <2>2, AcqFields DEF MayBecome, OnItsWay
    <2> QED
      BY <1>0, <2>1, <2>3, AcquisitionMoves, StagedAsIs
  <1> QED
    BY <1>2, <1>3 DEF Unlink

\* The victim leaves the catalog.
LEMMA UnlinkedStep ==
  ASSUME ModelCacheIInv, NEW a \in Acquisitions, Unlinked(a)
  PROVE  ModelCacheIInv'
  <1>0. /\ acq[a] \in AcqRecord /\ OnItsWay(a) /\ acq[a].model \in Models
        /\ acq \in [Acquisitions -> AcqRecord] /\ acq[a].phase \in {"evicting", "unlinked"}
        /\ acq[a].victims \in Seq(Models) /\ acq[a].victims # <<>>
    <2>1. acq[a].phase \in {"evicting", "unlinked"} /\ (acq[a].phase = "evicting" => acq[a].victims # <<>>)
      BY DEF Unlinked, InPhase
    <2> QED
      BY <2>1, AcqFields DEF ModelCacheIInv, ModelCacheTypes, AcqRecord, BusyPhases, AcqPhases, OnItsWay
  <1> DEFINE v == Victim(a)
             rest == Tail(acq[a].victims)
             left == acq[a].total - FileSizeOf[v]
             r == [acq[a] EXCEPT !.phase = "evicting", !.victims = rest, !.total = left]
  <1>1. v \in Models /\ v = acq[a].victims[1] /\ rest \in Seq(Models) /\ left \in Int
    <2>1. v \in Models /\ v = acq[a].victims[1] /\ rest \in Seq(Models)
      BY <1>0 DEF Victim
    <2> QED
      BY <1>0, <2>1, ModelCacheAssumption DEF AcqRecord
  <1>2. /\ acq' = [acq EXCEPT ![a] = r] /\ cached' = Forget(v)
        /\ UNCHANGED <<modelFile, activeModelIds, staged, raced>>
    BY <1>0 DEF Unlinked, EvictEntry
  <1> HIDE DEF v, rest, left
  <1>3. r \in AcqRecord /\ r.phase = "evicting" /\ r.model = acq[a].model /\ r.then = acq[a].then
    BY <1>0, <1>1 DEF AcqRecord, AcqPhases
  <1> HIDE DEF r
  <1>4. /\ acq' \in [Acquisitions -> AcqRecord] /\ acq'[a] = r
        /\ \A b \in Acquisitions : b # a => acq'[b] = acq[b]
    BY <1>0, <1>2, <1>3
  <1>5. cached' \in Seq(Models) /\ \A n : Holding(cached', n) => n # v /\ Holding(cached, n)
    BY <1>2, Forgotten DEF ModelCacheIInv, ModelCacheTypes
  <1>6. ModelCacheTypes'
    <2>1. \A b \in Acquisitions : acq'[b].phase \in BusyPhases => acq'[b].model \in Models
      BY <1>0, <1>3, <1>4 DEF ModelCacheIInv, ModelCacheTypes
    <2> QED
      BY <1>2, <1>4, <1>5, <2>1 DEF ModelCacheIInv, ModelCacheTypes, AcqRecord
  <1>7. \A b \in Acquisitions : OnItsWay(b)'
    BY <1>0, <1>2, <1>3, <1>4 DEF ModelCacheIInv, OnItsWay
  <1>8. \A m \in Models : m # v /\ Loadable(m) => Loadable(m)'
    BY <1>1, <1>2, <1>4 DEF Loadable
  <1> QED
    BY <1>5, <1>6, <1>7, <1>8 DEF ModelCacheIInv

LEMMA PromoteStep ==
  ASSUME ModelCacheIInv, NEW a \in Acquisitions, Promote(a)
  PROVE  ModelCacheIInv'
  <1> DEFINE m == acq[a].model
             r == [acq[a] EXCEPT !.phase = "listing"]
  <1>0. /\ acq[a] \in AcqRecord /\ m \in Models /\ staged[a] = "good" /\ acq[a].phase = "promoting"
        /\ acq \in [Acquisitions -> AcqRecord]
    BY AcqFields DEF ModelCacheIInv, ModelCacheTypes, AcqRecord, Promote, InPhase, BusyPhases, AcqPhases, OnItsWay
  <1>1. /\ acq' = [acq EXCEPT ![a] = r] /\ modelFile' = [modelFile EXCEPT ![m] = "good"]
        /\ staged' = [staged EXCEPT ![a] = "none"] /\ UNCHANGED <<cached, activeModelIds, raced>>
    BY <1>0 DEF Promote, GoOn
  <1>2. r \in AcqRecord /\ r.phase = "listing" /\ r.model = m
    BY <1>0 DEF AcqRecord, AcqPhases
  <1> HIDE DEF r, m
  <1>3. /\ acq' \in [Acquisitions -> AcqRecord] /\ acq'[a] = r
        /\ \A b \in Acquisitions : b # a => acq'[b] = acq[b] /\ staged'[b] = staged[b]
        /\ staged' \in [Acquisitions -> {"none", "good", "bad"}] /\ staged'[a] = "none"
    BY <1>0, <1>1, <1>2 DEF ModelCacheIInv, ModelCacheTypes
  <1>4. /\ modelFile' \in [Models -> {"absent", "good"}] /\ modelFile'[m] = "good"
        /\ \A n \in Models : modelFile[n] = "good" => modelFile'[n] = "good"
    BY <1>0, <1>1 DEF ModelCacheIInv, ModelCacheTypes
  <1>5. ModelCacheTypes'
    <2>1. \A b \in Acquisitions : acq'[b].phase \in BusyPhases => acq'[b].model \in Models
      BY <1>0, <1>2, <1>3 DEF ModelCacheIInv, ModelCacheTypes
    <2> QED
      BY <1>1, <1>3, <1>4, <2>1 DEF ModelCacheIInv, ModelCacheTypes, AcqRecord
  <1>6. ASSUME NEW b \in Acquisitions PROVE OnItsWay(b)'
    <2>1. CASE b = a
      BY <1>2, <1>3, <1>4, <2>1 DEF OnItsWay
    <2>2. CASE b # a
      <3>1. OnItsWay(b) /\ acq'[b] = acq[b] /\ staged'[b] = staged[b]
            /\ (acq[b].phase = "listing" => acq[b].model \in Models)
        BY <1>3, <2>2, AcqFields DEF BusyPhases, AcqPhases
      <3> QED
        BY <1>1, <1>4, <3>1 DEF OnItsWay
    <2> QED
      BY <2>1, <2>2
  <1>7. \A n \in Models : Loadable(n) => Loadable(n)'
    BY <1>0, <1>1, <1>3, <1>4 DEF Loadable
  <1> QED
    BY <1>1, <1>5, <1>6, <1>7 DEF ModelCacheIInv

LEMMA ListStep ==
  ASSUME ModelCacheIInv, NEW a \in Acquisitions, List(a)
  PROVE  ModelCacheIInv'
  <1>0. /\ acq[a].model \in Models /\ OnItsWay(a) /\ acq[a].phase = "listing" /\ staged[a] # "bad"
        /\ acq \in [Acquisitions -> AcqRecord]
    BY AcqFields DEF ModelCacheIInv, ModelCacheTypes, AcqRecord, List, InPhase, BusyPhases, AcqPhases, OnItsWay
  <1>1. PICK r \in AcqRecord : r.phase = "installed" /\ acq' = [acq EXCEPT ![a] = r]
    BY AcquisitionEnds DEF List
  <1>m. PICK m \in Models : m = acq[a].model
    BY <1>0
  <1>2. cached' = Append(Forget(m), m) /\ UNCHANGED <<modelFile, activeModelIds, staged, raced>>
    BY <1>m DEF List
  <1>3. modelFile[m] = "good" \/ m \in raced
    BY <1>0, <1>m DEF OnItsWay
  <1>4. /\ acq' \in [Acquisitions -> AcqRecord] /\ acq'[a] = r
        /\ \A b \in Acquisitions : b # a => acq'[b] = acq[b]
    BY <1>0, <1>1
  <1>5. cached' \in Seq(Models) /\ \A n : Holding(cached', n) => n = m \/ Holding(cached, n)
    BY <1>0, <1>2, Listed DEF ModelCacheIInv, ModelCacheTypes
  <1>6. ModelCacheTypes'
    <2>1. \A b \in Acquisitions : acq'[b].phase \in BusyPhases => acq'[b].model \in Models
      BY <1>1, <1>4 DEF ModelCacheIInv, ModelCacheTypes, BusyPhases
    <2> QED
      BY <1>2, <1>4, <1>5, <2>1 DEF ModelCacheIInv, ModelCacheTypes, AcqRecord
  <1>7. \A b \in Acquisitions : OnItsWay(b)'
    BY <1>0, <1>1, <1>2, <1>4 DEF ModelCacheIInv, OnItsWay
  <1>8. \A n \in Models : Loadable(n) => Loadable(n)'
    BY <1>0, <1>2, <1>4 DEF Loadable
  <1>9. Loadable(m)'
    BY <1>2, <1>3 DEF Loadable
  <1> QED
    BY <1>5, <1>6, <1>7, <1>8, <1>9 DEF ModelCacheIInv

\* The catalog is read and sorted anew by an inference that loads a model.
LEMMA CatalogTouched ==
  ASSUME ModelCacheIInv, UNCHANGED <<modelFile, staged, acq, raced>>,
         activeModelIds' \subseteq Models,
         \/ cached' = cached
         \/ \E m \in Models : m \in Cataloged /\ cached' = Append(Forget(m), m)
  PROVE  ModelCacheIInv'
  <1>0. cached \in Seq(Models)
    BY DEF ModelCacheIInv, ModelCacheTypes
  <1>1. cached' \in Seq(Models) /\ \A n : Holding(cached', n) => Holding(cached, n)
    <2>1. CASE cached' = cached
      BY <1>0, <2>1
    <2>2. ASSUME NEW m \in Models, m \in Cataloged, cached' = Append(Forget(m), m)
          PROVE  cached' \in Seq(Models) /\ \A n : Holding(cached', n) => Holding(cached, n)
      BY <1>0, <2>2, Listed, CatalogedHolding
    <2> QED
      BY <2>1, <2>2
  <1>2. ModelCacheTypes'
    BY <1>1 DEF ModelCacheIInv, ModelCacheTypes
  <1>3. \A a \in Acquisitions : OnItsWay(a)'
    BY DEF ModelCacheIInv, OnItsWay
  <1>4. \A m \in Models : Loadable(m) => Loadable(m)'
    BY DEF Loadable
  <1> QED
    BY <1>1, <1>2, <1>3, <1>4 DEF ModelCacheIInv

LEMMA CacheStepKeeps ==
  ASSUME ModelCacheIInv, NEW a \in Acquisitions, CacheStep(a)
  PROVE  ModelCacheIInv'
  BY BeginsStep, GoesOnStep, UnlinkStep, UnlinkedStep, PromoteStep, ListStep DEF CacheStep

LEMMA VerifiedCatalog == ModelCacheIInv => CatalogIsVerified
  <1> SUFFICES ASSUME ModelCacheIInv PROVE CatalogIsVerified
    OBVIOUS
  <1>1. ASSUME NEW m \in Cataloged
        PROVE  \/ modelFile[m] = "good" \/ m \in raced
               \/ \E a \in Acquisitions : InPhase(a, "unlinked") /\ Victim(a) = m
    <2>0. cached \in Seq(Models) /\ m \in Models
      BY DEF ModelCacheIInv, ModelCacheTypes, Cataloged, ToSet
    <2>1. Loadable(m)
      BY <2>0, CatalogedHolding DEF ModelCacheIInv
    <2>2. ASSUME NEW a \in Acquisitions, acq[a].phase = "unlinked", acq[a].victims[1] = m
          PROVE  InPhase(a, "unlinked") /\ Victim(a) = m
      BY <2>2 DEF InPhase, Victim
    <2> QED
      BY <2>1, <2>2 DEF Loadable
  <1>2. \A m \in Models : modelFile[m] # "bad"
    BY DEF ModelCacheIInv, ModelCacheTypes
  <1> QED
    BY <1>1, <1>2 DEF CatalogIsVerified

-----------------------------------------------------------------------------
(* The governor.                                                           *)

Plans == [status : {"none", "SUPPORTED", "FALLBACK", "FAILED"}, gpu : Int, cpu : Int, vram : Int, ram : Int,
          fallback : {"yes", "no"}]
\* A plan accounts for every layer and fits into what was free.
PlanFits(plan, freeRam, freeVram) ==
  /\ plan.status # "none" => plan.gpu + plan.cpu = TotalLayers
  /\ plan.vram <= freeVram /\ plan.ram <= freeRam

LEMMA NoPlanIs ==
  /\ NoPlan \in Plans /\ NoPlan.status = "none" /\ NoPlan.gpu = 0 /\ NoPlan.cpu = 0 /\ NoPlan.vram = 0
  /\ NoPlan.ram = 0
  /\ \A x, y \in Nat : PlanFits(NoPlan, x, y)
  BY DEF NoPlan, Plans, PlanFits

\* The three ways a plan is filled in.
GpuPlan(p, s, g, v) == [p EXCEPT !.status = s, !.gpu = g, !.vram = v]
CpuPlan(p, c, f) == [p EXCEPT !.cpu = c, !.fallback = f]
RamPlan(p, s, r) == [p EXCEPT !.status = s, !.ram = r]
SamePlan(q, g, c, v, r) == q \in Plans /\ q.gpu = g /\ q.cpu = c /\ q.vram = v /\ q.ram = r

LEMMA FilledIn ==
  ASSUME NEW p \in Plans, NEW s \in {"SUPPORTED", "FALLBACK", "FAILED"}, NEW g \in Int, NEW v \in Int,
         NEW f \in {"yes", "no"}
  PROVE  /\ SamePlan(GpuPlan(p, s, g, v), g, p.cpu, v, p.ram)
         /\ SamePlan(CpuPlan(p, g, f), p.gpu, g, p.vram, p.ram)
         /\ SamePlan(RamPlan(p, s, v), p.gpu, p.cpu, p.vram, v)
  <1>1. SamePlan(GpuPlan(p, s, g, v), g, p.cpu, v, p.ram)
    BY DEF Plans, GpuPlan, SamePlan
  <1>2. SamePlan(CpuPlan(p, g, f), p.gpu, g, p.vram, p.ram)
    BY DEF Plans, CpuPlan, SamePlan
  <1>3. SamePlan(RamPlan(p, s, v), p.gpu, p.cpu, p.vram, v)
    BY DEF Plans, RamPlan, SamePlan
  <1> QED
    BY <1>1, <1>2, <1>3

LEMMA CeilDivNat == ASSUME NEW n \in Nat, NEW d \in Nat \ {0} PROVE CeilDiv(n, d) \in Nat /\ (n > 0 => CeilDiv(n, d) > 0)
  <1>1. n + d - 1 \in Nat /\ (n > 0 => n + d - 1 >= d)
    OBVIOUS
  <1> QED
    BY <1>1 DEF CeilDiv

LEMMA PlanIs ==
  ASSUME NEW size \in Nat \ {0}, NEW format, NEW allow \in BOOLEAN, NEW freeRam \in Nat, NEW freeVram \in Nat
  PROVE  LET plan == PlanLayerOffload(size, format, allow, freeRam, freeVram)
         IN  plan \in Plans /\ PlanFits(plan, freeRam, freeVram)
  <1> DEFINE perLayer == CeilDiv(size, TotalLayers)
             required == size + KvCacheBytes
             room == (freeVram - KvCacheBytes) \div perLayer
             fitting == IF room < TotalLayers THEN room ELSE TotalLayers - 1
             onCpu == (TotalLayers - fitting) * perLayer
             fallback == IF allow THEN "yes" ELSE "no"
             noGpu == [NoPlan EXCEPT !.cpu = TotalLayers, !.fallback = fallback]
             plan == PlanLayerOffload(size, format, allow, freeRam, freeVram)
             all == freeVram > 0 /\ required <= freeVram
             some == /\ freeVram > 0 /\ required > freeVram /\ format = "gguf"
                     /\ freeVram > KvCacheBytes + perLayer /\ fitting > 0 /\ onCpu <= freeRam
  <1>1. /\ TotalLayers \in Nat \ {0} /\ KvCacheBytes \in Nat /\ perLayer \in Nat \ {0} /\ required \in Nat
        /\ fallback \in {"yes", "no"}
    BY LocalAiAssumption, CeilDivNat
  <1>2. CASE all
    <2>1. plan = [NoPlan EXCEPT !.status = "SUPPORTED", !.gpu = TotalLayers, !.vram = required]
      BY <1>1, <1>2 DEF PlanLayerOffload
    <2>2. plan \in Plans /\ plan.gpu = TotalLayers /\ plan.cpu = 0 /\ plan.vram = required /\ plan.ram = 0
      <3>1. plan = GpuPlan(NoPlan, "SUPPORTED", TotalLayers, required)
        BY <2>1 DEF GpuPlan
      <3>2. required \in Int /\ TotalLayers \in Int
        BY <1>1
      <3> HIDE DEF required, plan
      <3>3. SamePlan(GpuPlan(NoPlan, "SUPPORTED", TotalLayers, required), TotalLayers, NoPlan.cpu, required, NoPlan.ram)
        BY <3>2, NoPlanIs, FilledIn
      <3> QED
        BY <3>1, <3>3, NoPlanIs DEF SamePlan
    <2> QED
      BY <1>1, <1>2, <2>2 DEF PlanFits
  <1>3. CASE ~all /\ some
    <2> DEFINE onGpu == fitting * perLayer + KvCacheBytes
               other == TotalLayers - fitting
    <2>1. plan = [NoPlan EXCEPT !.status = "SUPPORTED", !.gpu = fitting, !.cpu = other, !.vram = onGpu, !.ram = onCpu]
      BY <1>3 DEF PlanLayerOffload
    <2>2. room \in Int /\ fitting \in Nat /\ fitting <= room
      <3>1. freeVram - KvCacheBytes \in Nat
        BY <1>1, <1>3
      <3>2. room \in Nat
        BY <1>1, <3>1
      <3> QED
        BY <1>1, <1>3, <3>2
    <2>3. fitting * perLayer <= freeVram - KvCacheBytes
      <3>1. freeVram - KvCacheBytes \in Nat
        BY <1>1, <1>3
      <3> HIDE DEF fitting, perLayer
      <3> QED
        BY <1>1, <2>2, <3>1, RoomFits
    <2>4. onGpu \in Int /\ onCpu \in Int /\ onGpu <= freeVram /\ onCpu <= freeRam
          /\ fitting + other = TotalLayers /\ fitting \in Int /\ other \in Int
      <3> HIDE DEF fitting, perLayer
      <3>1. fitting * perLayer \in Int /\ (TotalLayers - fitting) * perLayer \in Int
        BY <1>1, <2>2
      <3> QED
        BY <1>1, <1>3, <2>2, <2>3, <3>1
    <2> HIDE DEF onGpu, onCpu, fitting, other, plan
    <2>5. /\ plan \in Plans /\ plan.gpu = fitting /\ plan.cpu = other /\ plan.vram = onGpu
          /\ plan.ram = onCpu
      BY <2>1, <2>4, NoPlanIs DEF Plans
    <2>6. PlanFits(plan, freeRam, freeVram)
      BY <2>4, <2>5 DEF PlanFits
    <2> QED
      BY <2>5, <2>6 DEF plan
  <1>4. CASE ~all /\ ~some
    <2>0. plan = IF allow /\ required <= freeRam
                 THEN [noGpu EXCEPT !.status = "FALLBACK", !.ram = required]
                 ELSE [noGpu EXCEPT !.status = "FAILED"]
      BY <1>4 DEF PlanLayerOffload
    <2>1. /\ noGpu \in Plans /\ noGpu.gpu = 0 /\ noGpu.cpu = TotalLayers /\ noGpu.vram = 0 /\ noGpu.ram = 0
      <3>1. noGpu = CpuPlan(NoPlan, TotalLayers, fallback)
        BY DEF CpuPlan
      <3>2. TotalLayers \in Int /\ fallback \in {"yes", "no"}
        BY <1>1
      <3> HIDE DEF fallback, noGpu
      <3>3. SamePlan(CpuPlan(NoPlan, TotalLayers, fallback), NoPlan.gpu, TotalLayers, NoPlan.vram, NoPlan.ram)
        BY <3>2, NoPlanIs, FilledIn
      <3> QED
        BY <3>1, <3>3, NoPlanIs DEF SamePlan
    <2> HIDE DEF noGpu, plan, required
    <2>2. /\ plan \in Plans /\ plan.gpu = 0 /\ plan.cpu = TotalLayers /\ plan.vram = 0
          /\ plan.ram <= freeRam
      <3>1. CASE allow /\ required <= freeRam
        <4>1. plan = [noGpu EXCEPT !.status = "FALLBACK", !.ram = required]
          BY <2>0, <3>1
        <4>2. plan = RamPlan(noGpu, "FALLBACK", required)
          BY <4>1 DEF RamPlan
        <4>3. SamePlan(RamPlan(noGpu, "FALLBACK", required), noGpu.gpu, noGpu.cpu, noGpu.vram, required)
          BY <1>1, <2>1, FilledIn
        <4> QED
          BY <1>1, <2>1, <3>1, <4>2, <4>3 DEF SamePlan
      <3>2. CASE ~(allow /\ required <= freeRam)
        <4>1. plan = [noGpu EXCEPT !.status = "FAILED"]
          BY <2>0, <3>2
        <4> QED
          BY <1>1, <2>1, <4>1 DEF Plans
      <3> QED
        BY <3>1, <3>2
    <2>3. PlanFits(plan, freeRam, freeVram)
      BY <1>1, <2>2 DEF PlanFits
    <2> QED
      BY <2>2, <2>3 DEF plan
  <1> QED
    BY <1>2, <1>3, <1>4

InferencePhases == {"idle", "admitting", "reserved", "generating", "refused", "over"}
InferenceRecord ==
  [phase : InferencePhases, model : Models \cup {"none"}, listed : {"yes", "no"}, ram : Nat, vram : Nat,
   plan : Plans, freeRam : Nat, freeVram : Nat]
RamOf == [i \in Inferences |-> inference[i].ram]
VramOf == [i \in Inferences |-> inference[i].vram]

\* An inference is typed, it has a model while it is under way, and its plan fits.
InferenceIs(r) ==
  /\ r \in InferenceRecord
  /\ r.phase \notin {"idle", "over"} => r.model \in Models
  /\ PlanFits(r.plan, r.freeRam, r.freeVram)

\* What is reserved, and that the totals are those of it.
ReservationsExact ==
  /\ activeReservations \subseteq Inferences /\ IsFiniteSet(activeReservations)
  /\ activeConcurrentCount = Cardinality(activeReservations) /\ activeConcurrentCount <= MaxConcurrentInferences
  /\ reservedRamBytes = Total(RamOf, activeReservations) /\ reservedVramBytes = Total(VramOf, activeReservations)
  /\ \E p \in Profiles : reservedRamBytes <= MaxAllowedRam(p)
  /\ \E p \in Profiles : reservedVramBytes <= MaxAllowedVram(p)

GovernorIInv ==
  /\ inference \in [Inferences -> InferenceRecord]
  /\ \A i \in Inferences : InferenceIs(inference[i])
  /\ \A i \in activeReservations : inference[i].phase \in {"reserved", "generating", "refused"}
  /\ \A i \in Inferences :
       inference[i].phase \in {"reserved", "generating"} => i \in activeReservations \/ aiShutdown = "done"
  /\ ReservationsExact

LEMMA NoInferenceIs ==
  /\ NoInference \in InferenceRecord /\ NoInference.phase = "idle" /\ NoInference.plan = NoPlan
  /\ NoInference.freeRam = 0 /\ NoInference.freeVram = 0
  BY NoPlanIs DEF NoInference, InferenceRecord, InferencePhases

\* The governor's view of an inference that is over, and of none.
LEMMA OverIs == InferenceIs(NoInference) /\ InferenceIs([NoInference EXCEPT !.phase = "over"])
                /\ [NoInference EXCEPT !.phase = "over"].phase = "over"
  <1> DEFINE r == [NoInference EXCEPT !.phase = "over"]
  <1>1. /\ r \in InferenceRecord /\ r.phase = "over" /\ r.plan = NoInference.plan
        /\ r.freeRam = NoInference.freeRam /\ r.freeVram = NoInference.freeVram
    BY NoInferenceIs DEF InferenceRecord, InferencePhases
  <1> HIDE DEF r
  <1>2. PlanFits(NoPlan, 0, 0)
    BY NoPlanIs
  <1>3. InferenceIs(r) /\ r.phase = "over"
    BY <1>1, <1>2, NoInferenceIs DEF InferenceIs
  <1>4. InferenceIs(NoInference)
    BY <1>2, NoInferenceIs DEF InferenceIs
  <1> QED
    BY <1>3, <1>4 DEF r

LEMMA TotalsTyped ==
  ASSUME GovernorIInv
  PROVE  /\ reservedRamBytes \in Nat /\ reservedVramBytes \in Nat /\ activeConcurrentCount \in Nat
         /\ \A i \in activeReservations : RamOf[i] \in Nat /\ VramOf[i] \in Nat
         /\ IsFiniteSet(activeReservations) /\ activeReservations \subseteq Inferences
  <1>1. \A i \in activeReservations : RamOf[i] \in Nat /\ VramOf[i] \in Nat
    BY DEF GovernorIInv, ReservationsExact, RamOf, VramOf, InferenceRecord
  <1>2. Total(RamOf, activeReservations) \in Nat /\ Total(VramOf, activeReservations) \in Nat
    BY <1>1, TotalOfFinite DEF GovernorIInv, ReservationsExact
  <1> QED
    BY <1>1, <1>2, FS_CardinalityType DEF GovernorIInv, ReservationsExact

\* An inference that keeps what it reserved leaves the totals as they are.
LEMMA ReservedAsWas ==
  ASSUME GovernorIInv, NEW i \in Inferences, NEW r, InferenceIs(r), inference' = [inference EXCEPT ![i] = r],
         i \in activeReservations => r.ram = inference[i].ram /\ r.vram = inference[i].vram
                                     /\ r.phase \in {"reserved", "generating", "refused"},
         r.phase \in {"reserved", "generating"} => i \in activeReservations \/ aiShutdown = "done",
         UNCHANGED <<governor, aiShutdown>>
  PROVE  GovernorIInv'
  <1>1. /\ inference' \in [Inferences -> InferenceRecord] /\ inference'[i] = r
        /\ \A j \in Inferences : j # i => inference'[j] = inference[j]
    BY DEF GovernorIInv, InferenceIs
  <1>2. /\ \A j \in activeReservations : RamOf'[j] = RamOf[j] /\ VramOf'[j] = VramOf[j]
        /\ activeReservations \subseteq Inferences
    BY <1>1 DEF RamOf, VramOf, GovernorIInv, ReservationsExact
  <1>3. /\ Total(RamOf', activeReservations) = Total(RamOf, activeReservations)
        /\ Total(VramOf', activeReservations) = Total(VramOf, activeReservations)
    BY <1>2, TotalOfSame
  <1>4. ReservationsExact'
    BY <1>3 DEF GovernorIInv, ReservationsExact, governor, MaxAllowedRam, MaxAllowedVram
  <1>5. \A j \in Inferences : InferenceIs(inference'[j])
    BY <1>1 DEF GovernorIInv
  <1>6. \A j \in activeReservations' : inference'[j].phase \in {"reserved", "generating", "refused"}
    BY <1>1, <1>2 DEF GovernorIInv, governor
  <1>7. \A j \in Inferences :
          inference'[j].phase \in {"reserved", "generating"} => j \in activeReservations' \/ aiShutdown' = "done"
    BY <1>1 DEF GovernorIInv, governor
  <1> QED
    BY <1>1, <1>4, <1>5, <1>6, <1>7 DEF GovernorIInv

LEMMA OverStep ==
  ASSUME GovernorIInv, NEW i \in Inferences, i \notin activeReservations,
         inference' = [inference EXCEPT ![i] = [NoInference EXCEPT !.phase = "over"]],
         UNCHANGED <<governor, aiShutdown>>
  PROVE  GovernorIInv'
  <1> DEFINE r == [NoInference EXCEPT !.phase = "over"]
  <1>1. InferenceIs(r) /\ r.phase = "over" /\ inference' = [inference EXCEPT ![i] = r]
    BY OverIs
  <1> HIDE DEF r
  <1> QED
    BY <1>1, ReservedAsWas

LEMMA ExecuteInferenceStep ==
  ASSUME GovernorIInv, NEW i \in Inferences, NEW m \in Models, ExecuteInference(i, m)
  PROVE  GovernorIInv'
  <1> DEFINE r == [inference[i] EXCEPT !.phase = "admitting", !.model = m]
  <1>1. /\ inference[i] \in InferenceRecord /\ inference[i].phase = "idle" /\ InferenceIs(inference[i])
        /\ UNCHANGED <<governor, aiShutdown>> /\ inference' = [inference EXCEPT ![i] = r] /\ i \notin activeReservations
    BY DEF GovernorIInv, ExecuteInference
  <1>2. /\ r \in InferenceRecord /\ r.phase = "admitting" /\ r.model = m /\ r.plan = inference[i].plan
        /\ r.freeRam = inference[i].freeRam /\ r.freeVram = inference[i].freeVram
    BY <1>1 DEF InferenceRecord, InferencePhases
  <1> HIDE DEF r
  <1>3. InferenceIs(r)
    BY <1>1, <1>2 DEF InferenceIs
  <1> QED
    BY <1>1, <1>2, <1>3, ReservedAsWas

LEMMA LoadModelStep ==
  ASSUME GovernorIInv, NEW i \in Inferences, LoadModel(i)
  PROVE  GovernorIInv'
  <1>1. /\ inference[i] \in InferenceRecord /\ inference[i].phase = "reserved" /\ InferenceIs(inference[i])
        /\ UNCHANGED <<governor, aiShutdown>> /\ inference[i].model \in Models
    BY DEF GovernorIInv, LoadModel, InferenceIs
  <1>2. PICK phase \in {"generating", "refused"} : inference' = [inference EXCEPT ![i] = Handed(inference[i], phase)]
    BY <1>1 DEF LoadModel, GovernorIInv
  <1> DEFINE r == Handed(inference[i], phase)
  <1>3. /\ r \in InferenceRecord /\ r.phase = phase /\ r.model = inference[i].model /\ r.plan = NoPlan
        /\ r.freeRam = 0 /\ r.freeVram = 0 /\ r.ram = inference[i].ram /\ r.vram = inference[i].vram
    <2> DEFINE was == inference[i]
    <2>1. was \in InferenceRecord /\ NoPlan \in Plans /\ 0 \in Nat /\ phase \in InferencePhases
      BY <1>1, NoPlanIs DEF InferencePhases
    <2> HIDE DEF was
    <2>2. LET q == Handed(was, phase) IN
            /\ q \in InferenceRecord /\ q.phase = phase /\ q.model = was.model /\ q.plan = NoPlan
            /\ q.freeRam = 0 /\ q.freeVram = 0 /\ q.ram = was.ram /\ q.vram = was.vram
      BY <2>1 DEF Handed, InferenceRecord
    <2> QED
      BY <2>2 DEF was
  <1> HIDE DEF r
  <1>4. InferenceIs(r)
    <2>1. PlanFits(NoPlan, 0, 0)
      BY NoPlanIs
    <2> QED
      BY <1>1, <1>3, <2>1 DEF InferenceIs
  <1>5. i \in activeReservations \/ aiShutdown = "done"
    BY <1>1 DEF GovernorIInv
  <1>6. inference' = [inference EXCEPT ![i] = r]
    BY <1>2 DEF r
  <1> QED
    BY <1>1, <1>3, <1>4, <1>5, <1>6, ReservedAsWas

LEMMA CeilingsTyped ==
  ASSUME NEW p \in Profiles
  PROVE  MaxAllowedRam(p) \in Nat /\ MaxAllowedVram(p) \in Nat
  <1>1. p.ram \in Nat /\ p.vram \in Nat
    BY LocalAiAssumption
  <1> QED
    BY <1>1 DEF MaxAllowedRam, MaxAllowedVram

\* What is released is taken off the totals, unless a reset has done it already.
LEMMA InferenceEndsStep ==
  ASSUME GovernorIInv, NEW i \in Inferences, InferenceEnds(i)
  PROVE  GovernorIInv'
  <1>0. Release(i) /\ inference' = [inference EXCEPT ![i] = [NoInference EXCEPT !.phase = "over"]] /\ UNCHANGED aiShutdown
    BY DEF InferenceEnds
  <1>1. CASE i \notin activeReservations
    BY <1>0, <1>1, OverStep DEF Release
  <1>2. CASE i \in activeReservations
    <2> DEFINE r == [NoInference EXCEPT !.phase = "over"]
               left == activeReservations \ {i}
    <2>1. InferenceIs(r) /\ r.phase = "over" /\ inference' = [inference EXCEPT ![i] = r]
      BY <1>0, OverIs
    <2> HIDE DEF r
    <2>2. /\ inference' \in [Inferences -> InferenceRecord] /\ inference'[i] = r
          /\ \A j \in Inferences : j # i => inference'[j] = inference[j]
      BY <2>1 DEF GovernorIInv, InferenceIs
    <2>3. /\ activeReservations' = left
          /\ activeConcurrentCount' = AtLeastZero(activeConcurrentCount - 1)
          /\ reservedRamBytes' = AtLeastZero(reservedRamBytes - RamOf[i])
          /\ reservedVramBytes' = AtLeastZero(reservedVramBytes - VramOf[i])
      BY <1>0, <1>2 DEF Release, RamOf, VramOf
    <2>4. /\ reservedRamBytes \in Nat /\ reservedVramBytes \in Nat /\ activeConcurrentCount \in Nat
          /\ \A j \in activeReservations : RamOf[j] \in Nat /\ VramOf[j] \in Nat
          /\ IsFiniteSet(activeReservations) /\ activeReservations \subseteq Inferences
      BY TotalsTyped
    <2>5. /\ Total(RamOf, left) = reservedRamBytes - RamOf[i] /\ Total(RamOf, left) \in Nat
          /\ Total(VramOf, left) = reservedVramBytes - VramOf[i] /\ Total(VramOf, left) \in Nat
          /\ IsFiniteSet(left)
      BY <1>2, <2>4, TotalShrinks DEF GovernorIInv, ReservationsExact
    <2>6. Cardinality(left) = activeConcurrentCount - 1 /\ Cardinality(left) \in Nat
      BY <1>2, <2>4, <2>5, FS_RemoveElement, FS_CardinalityType DEF GovernorIInv, ReservationsExact
    <2>7. /\ activeConcurrentCount' = Cardinality(left) /\ reservedRamBytes' = Total(RamOf, left)
          /\ reservedVramBytes' = Total(VramOf, left)
      <3> HIDE DEF left
      <3> QED
        BY <2>3, <2>4, <2>5, <2>6 DEF AtLeastZero
    <2>8. \A j \in left : RamOf'[j] = RamOf[j] /\ VramOf'[j] = VramOf[j]
      BY <2>2, <2>4 DEF RamOf, VramOf
    <2>9. Total(RamOf', left) = Total(RamOf, left) /\ Total(VramOf', left) = Total(VramOf, left)
      BY <2>8, TotalOfSame
    <2>10. /\ activeConcurrentCount' <= activeConcurrentCount /\ reservedRamBytes' <= reservedRamBytes
           /\ reservedVramBytes' <= reservedVramBytes
      <3>1. RamOf[i] \in Nat /\ VramOf[i] \in Nat
        BY <1>2, <2>4
      <3> QED
        BY <2>3, <2>4, <2>5, <2>6, <2>7, <3>1
    <2>11. ReservationsExact'
      <3>1. activeReservations' \subseteq Inferences /\ IsFiniteSet(activeReservations')
        BY <2>3, <2>4, <2>5
      <3>2. activeConcurrentCount' = Cardinality(activeReservations') /\ activeConcurrentCount' <= MaxConcurrentInferences
        <4>1. activeConcurrentCount <= MaxConcurrentInferences /\ MaxConcurrentInferences \in Nat /\ activeConcurrentCount' \in Nat
          BY <2>6, <2>7, LocalAiAssumption DEF GovernorIInv, ReservationsExact
        <4> QED
          BY <2>3, <2>4, <2>7, <2>10, <4>1
      <3>3. ASSUME NEW p \in Profiles PROVE MaxAllowedRam(p) \in Int /\ MaxAllowedVram(p) \in Int
        BY CeilingsTyped
      <3>4. \E p \in Profiles : reservedRamBytes' <= MaxAllowedRam(p)
        <4>1. PICK p \in Profiles : reservedRamBytes <= MaxAllowedRam(p)
          BY DEF GovernorIInv, ReservationsExact
        <4>2. reservedRamBytes' \in Nat
          BY <2>5, <2>7
        <4> QED
          BY <2>4, <2>10, <3>3, <4>1, <4>2
      <3>5. \E p \in Profiles : reservedVramBytes' <= MaxAllowedVram(p)
        <4>1. PICK p \in Profiles : reservedVramBytes <= MaxAllowedVram(p)
          BY DEF GovernorIInv, ReservationsExact
        <4>2. reservedVramBytes' \in Nat
          BY <2>5, <2>7
        <4> QED
          BY <2>4, <2>10, <3>3, <4>1, <4>2
      <3> QED
        BY <2>3, <2>7, <2>9, <3>1, <3>2, <3>4, <3>5 DEF ReservationsExact, MaxAllowedRam, MaxAllowedVram
    <2>12. \A j \in Inferences : InferenceIs(inference'[j])
      BY <2>1, <2>2 DEF GovernorIInv
    <2>13. \A j \in activeReservations' : inference'[j].phase \in {"reserved", "generating", "refused"}
      BY <2>2, <2>3, <2>4 DEF GovernorIInv
    <2>14. \A j \in Inferences :
             inference'[j].phase \in {"reserved", "generating"} => j \in activeReservations' \/ aiShutdown' = "done"
      BY <1>0, <2>1, <2>2, <2>3 DEF GovernorIInv
    <2> QED
      BY <2>2, <2>11, <2>12, <2>13, <2>14 DEF GovernorIInv
  <1> QED
    BY <1>1, <1>2

\* What an inference needs is a number of units.
LEMMA RequiredTyped ==
  ASSUME NEW m \in Models, NEW listed \in BOOLEAN, NEW budget \in Budgets, NEW p \in Profiles
  PROVE  RequiredRam(m, listed, budget) \in Nat /\ RequiredVram(m, listed, budget, p) \in Nat
  <1>1. budget \in [ram : Nat, vram : Nat] /\ DefaultBytes \in Nat /\ FileSizeOf[m] \in Nat /\ p \in [ram : Nat, vram : Nat]
    BY LocalAiAssumption, ModelCacheAssumption
  <1>2. CeilDiv(FileSizeOf[m] * 11, 10) \in Nat /\ CeilDiv(FileSizeOf[m] * 9, 10) \in Nat
    <2>1. FileSizeOf[m] * 11 \in Nat /\ FileSizeOf[m] * 9 \in Nat /\ 10 \in Nat \ {0}
      BY <1>1
    <2> QED
      BY <2>1, CeilDivNat
  <1> QED
    BY <1>1, <1>2 DEF RequiredRam, RequiredVram

LEMMA ReserveStep ==
  ASSUME GovernorIInv, NEW i \in Inferences, NEW p \in Profiles, NEW b \in Budgets, NEW allow \in BOOLEAN,
         Reserve(i, p, b, allow)
  PROVE  GovernorIInv'
  <1> DEFINE m == inference[i].model
             listed == m \in Cataloged
             ram == RequiredRam(m, listed, b)
             vram == RequiredVram(m, listed, b, p)
             freeRam == Available(reservedRamBytes, MaxAllowedRam(p))
             freeVram == Available(reservedVramBytes, MaxAllowedVram(p))
             tooLarge == p.vram > 0 /\ ~FitsCeiling(vram, reservedVramBytes, MaxAllowedVram(p))
             plan == IF listed THEN PlanLayerOffload(FileSizeOf[m], FormatOf[m], allow, freeRam, freeVram)
                     ELSE NoPlan
             onCpu == tooLarge \/ plan.fallback = "yes" \/ p.vram = 0
             given == IF onCpu THEN 0 ELSE vram
             named == IF listed THEN "yes" ELSE "no"
             r == [phase |-> "reserved", model |-> m, listed |-> named, ram |-> ram,
                   vram |-> given, plan |-> plan, freeRam |-> freeRam, freeVram |-> freeVram]
             admitted == /\ activeConcurrentCount < MaxConcurrentInferences
                         /\ FitsCeiling(ram, reservedRamBytes, MaxAllowedRam(p)) /\ (tooLarge => allow)
  <1>1. inference[i].phase = "admitting" /\ m \in Models /\ i \notin activeReservations /\ UNCHANGED aiShutdown
    BY DEF Reserve, GovernorIInv, InferenceIs
  <1>2. /\ reservedRamBytes \in Nat /\ reservedVramBytes \in Nat /\ activeConcurrentCount \in Nat
        /\ \A j \in activeReservations : RamOf[j] \in Nat /\ VramOf[j] \in Nat
        /\ IsFiniteSet(activeReservations) /\ activeReservations \subseteq Inferences
    BY TotalsTyped
  <1>3. MaxAllowedRam(p) \in Int /\ MaxAllowedVram(p) \in Int /\ p.vram \in Nat
    BY CeilingsTyped, LocalAiAssumption
  <1>4. ram \in Nat /\ vram \in Nat
    <2>1. listed \in BOOLEAN
      OBVIOUS
    <2> HIDE DEF m, listed
    <2> QED
      BY <1>1, <2>1, RequiredTyped
  <1>5. freeRam \in Nat /\ freeVram \in Nat
    BY <1>2, <1>3 DEF Available, AtLeastZero
  <1>6. plan \in Plans /\ PlanFits(plan, freeRam, freeVram)
    <2>1. FileSizeOf[m] \in Nat \ {0}
      BY <1>1, ModelCacheAssumption
    <2> HIDE DEF freeRam, freeVram, m, listed
    <2>2. CASE listed
      BY <1>5, <2>1, <2>2, PlanIs
    <2>3. CASE ~listed
      BY <1>5, <2>3, NoPlanIs
    <2> QED
      BY <2>2, <2>3
  <1>7. CASE ~admitted
    <2>1. inference' = [inference EXCEPT ![i] = [NoInference EXCEPT !.phase = "over"]] /\ UNCHANGED governor
      BY <1>7 DEF Reserve
    <2> QED
      BY <1>1, <2>1, OverStep
  <1>8. CASE admitted
    <2> DEFINE more == activeReservations \cup {i}
    <2>1. /\ inference' = [inference EXCEPT ![i] = r] /\ activeReservations' = more
          /\ activeConcurrentCount' = activeConcurrentCount + 1
          /\ reservedRamBytes' = reservedRamBytes + ram /\ reservedVramBytes' = reservedVramBytes + given
      BY <1>8 DEF Reserve
    <2>2. given \in Nat /\ named \in {"yes", "no"}
      BY <1>4
    <2>3. /\ reservedRamBytes + ram <= MaxAllowedRam(p) /\ activeConcurrentCount + 1 <= MaxConcurrentInferences
          /\ (given = 0 \/ reservedVramBytes + given <= MaxAllowedVram(p))
      <3>1. reservedRamBytes + ram <= MaxAllowedRam(p)
        BY <1>8 DEF FitsCeiling
      <3>2. activeConcurrentCount + 1 <= MaxConcurrentInferences
        BY <1>2, <1>8, LocalAiAssumption
      <3>3. given = 0 \/ reservedVramBytes + given <= MaxAllowedVram(p)
        <4> HIDE DEF vram, plan
        <4> QED
          BY <1>3, <1>4 DEF FitsCeiling
      <3> QED
        BY <3>1, <3>2, <3>3
    <2>4. InferenceIs(r) /\ r.phase = "reserved" /\ r.ram = ram /\ r.vram = given
      <3> HIDE DEF m, ram, given, named, plan, freeRam, freeVram
      <3>1. r \in InferenceRecord
        BY <1>1, <1>4, <1>5, <1>6, <2>2 DEF InferenceRecord, InferencePhases
      <3> QED
        BY <1>1, <1>6, <3>1 DEF InferenceIs
    <2> HIDE DEF r, ram, given, m, listed, vram, plan, freeRam, freeVram
    <2>5. /\ inference' \in [Inferences -> InferenceRecord] /\ inference'[i] = r
          /\ \A j \in Inferences : j # i => inference'[j] = inference[j]
      BY <2>1, <2>4 DEF GovernorIInv, InferenceIs
    <2>6. /\ \A j \in activeReservations : RamOf'[j] = RamOf[j] /\ VramOf'[j] = VramOf[j]
          /\ RamOf'[i] = ram /\ VramOf'[i] = given
      BY <1>1, <1>2, <2>4, <2>5 DEF RamOf, VramOf
    <2>7. /\ Total(RamOf', activeReservations) = Total(RamOf, activeReservations)
          /\ Total(VramOf', activeReservations) = Total(VramOf, activeReservations)
      BY <2>6, TotalOfSame
    <2>8. \A j \in more : RamOf'[j] \in Nat /\ VramOf'[j] \in Nat
      BY <1>2, <1>4, <2>2, <2>6
    <2>9. /\ Total(RamOf', more) = Total(RamOf', activeReservations) + RamOf'[i]
          /\ Total(VramOf', more) = Total(VramOf', activeReservations) + VramOf'[i]
      BY <1>1, <1>2, <2>8, TotalGrows
    <2>10. /\ reservedRamBytes' = Total(RamOf', more) /\ reservedVramBytes' = Total(VramOf', more)
      BY <2>1, <2>6, <2>7, <2>9 DEF GovernorIInv, ReservationsExact
    <2>11. /\ IsFiniteSet(more) /\ Cardinality(more) = activeConcurrentCount + 1
      BY <1>1, <1>2, FS_AddElement DEF GovernorIInv, ReservationsExact
    <2>12. ReservationsExact'
      <3>1. \E q \in Profiles : reservedVramBytes' <= MaxAllowedVram(q)
        <4>1. CASE given = 0
          <5>1. reservedVramBytes' = reservedVramBytes
            BY <1>2, <2>1, <4>1
          <5> QED
            BY <5>1 DEF GovernorIInv, ReservationsExact
        <4>2. CASE given # 0
          BY <2>1, <2>3, <4>2
        <4> QED
          BY <4>1, <4>2
      <3>2. \E q \in Profiles : reservedRamBytes' <= MaxAllowedRam(q)
        BY <2>1, <2>3
      <3> QED
        BY <1>1, <1>2, <2>1, <2>3, <2>10, <2>11, <3>1, <3>2 DEF ReservationsExact, MaxAllowedRam, MaxAllowedVram
    <2>13. \A j \in Inferences : InferenceIs(inference'[j])
      BY <2>4, <2>5 DEF GovernorIInv
    <2>14. \A j \in activeReservations' : inference'[j].phase \in {"reserved", "generating", "refused"}
      BY <1>2, <2>1, <2>4, <2>5 DEF GovernorIInv
    <2>15. \A j \in Inferences :
             inference'[j].phase \in {"reserved", "generating"} => j \in activeReservations' \/ aiShutdown' = "done"
      BY <1>1, <2>1, <2>5 DEF GovernorIInv
    <2> QED
      BY <2>5, <2>12, <2>13, <2>14, <2>15 DEF GovernorIInv
  <1> QED
    BY <1>7, <1>8

\* A model is marked active or inactive; the files and the acquisitions stay.
LEMMA ModelMarked ==
  ASSUME ModelCacheIInv, GovernorIInv, NEW i \in Inferences, LoadModel(i) \/ InferenceEnds(i)
  PROVE  ModelCacheIInv'
  <1>0. activeModelIds \subseteq Models /\ UNCHANGED <<modelFile, staged, acq, raced>>
    BY DEF ModelCacheIInv, ModelCacheTypes, LoadModel, InferenceEnds
  <1>1. CASE LoadModel(i)
    <2>1. inference[i].model \in Models
      BY <1>1 DEF LoadModel, GovernorIInv, InferenceIs
    <2>2. /\ activeModelIds' \subseteq Models
          /\ \/ cached' = cached
             \/ inference[i].model \in Cataloged /\ cached' = Append(Forget(inference[i].model), inference[i].model)
      BY <1>0, <1>1, <2>1 DEF LoadModel, MarkModelActive
    <2> QED
      BY <1>0, <2>1, <2>2, CatalogTouched
  <1>2. CASE InferenceEnds(i)
    <2>1. activeModelIds' \subseteq Models /\ cached' = cached
      BY <1>0, <1>2 DEF InferenceEnds, MarkModelInactive
    <2> QED
      BY <1>0, <2>1, CatalogTouched
  <1> QED
    BY <1>1, <1>2

LEMMA ShutdownStep ==
  ASSUME GovernorIInv, ShutdownAi \/ ResetGovernor
  PROVE  GovernorIInv'
  <1>1. CASE ShutdownAi
    <2>1. UNCHANGED <<inference, governor>> /\ aiShutdown # "done"
      BY <1>1 DEF ShutdownAi
    <2> QED
      BY <2>1 DEF GovernorIInv, ReservationsExact, governor, RamOf, VramOf, MaxAllowedRam, MaxAllowedVram
  <1>2. CASE ResetGovernor
    <2>1. /\ inference' = inference /\ activeReservations' = {} /\ activeConcurrentCount' = 0
          /\ reservedRamBytes' = 0 /\ reservedVramBytes' = 0 /\ aiShutdown' = "done"
      BY <1>2 DEF ResetGovernor
    <2>2. ReservationsExact'
      <3>1. PICK p \in Profiles : TRUE
        BY LocalAiAssumption
      <3>2. MaxAllowedRam(p) \in Nat /\ MaxAllowedVram(p) \in Nat /\ MaxConcurrentInferences \in Nat
        BY CeilingsTyped, LocalAiAssumption
      <3>3. (\E q \in Profiles : 0 <= MaxAllowedRam(q)) /\ (\E q \in Profiles : 0 <= MaxAllowedVram(q))
        BY <3>2
      <3> QED
        BY <2>1, <3>2, <3>3, FS_EmptySet, TotalOfNone DEF ReservationsExact, MaxAllowedRam, MaxAllowedVram
    <2> QED
      BY <2>1, <2>2 DEF GovernorIInv
  <1> QED
    BY <1>1, <1>2

LEMMA ModelsStart == CacheInit /\ AiInit => ModelCacheIInv /\ GovernorIInv
  <1> SUFFICES ASSUME CacheInit, AiInit PROVE ModelCacheIInv /\ GovernorIInv
    OBVIOUS
  <1>1. \A a \in Acquisitions : acq[a] = NoAcq /\ staged[a] = "none"
    BY DEF CacheInit
  <1>2. NoAcq \in AcqRecord /\ NoAcq.phase = "idle"
    BY NoAcqRecord DEF NoAcq
  <1>3. ModelCacheTypes
    <2>1. acq \in [Acquisitions -> AcqRecord]
      BY <1>2 DEF CacheInit
    <2>2. \A a \in Acquisitions : acq[a].phase \notin BusyPhases
      BY <1>1, <1>2 DEF BusyPhases
    <2> QED
      BY <2>1, <2>2 DEF CacheInit, ModelCacheTypes, AcqRecord
  <1>4. ModelCacheIInv
    BY <1>1, <1>2, <1>3 DEF CacheInit, ModelCacheIInv, OnItsWay, Holding
  <1>5. inference \in [Inferences -> InferenceRecord] /\ \A i \in Inferences : inference[i] = NoInference
    BY NoInferenceIs DEF AiInit
  <1>6. ReservationsExact
    <2>1. PICK p \in Profiles : TRUE
      BY LocalAiAssumption
    <2>2. MaxAllowedRam(p) \in Nat /\ MaxAllowedVram(p) \in Nat /\ MaxConcurrentInferences \in Nat
      BY CeilingsTyped, LocalAiAssumption
    <2>3. (\E q \in Profiles : 0 <= MaxAllowedRam(q)) /\ (\E q \in Profiles : 0 <= MaxAllowedVram(q))
      BY <2>2
    <2> QED
      BY <2>2, <2>3, FS_EmptySet, TotalOfNone DEF AiInit, ReservationsExact
  <1>7. GovernorIInv
    BY <1>5, <1>6, OverIs, NoInferenceIs DEF AiInit, GovernorIInv
  <1> QED
    BY <1>4, <1>7

LEMMA ModelsStep ==
  ASSUME ModelCacheIInv, GovernorIInv, [AiNext]_<<cacheVars, aiVars>>
  PROVE  ModelCacheIInv' /\ GovernorIInv'
  <1> DEFINE cacheStays == UNCHANGED cacheVars
             governorStays == UNCHANGED aiVars
  <1>1. ASSUME cacheStays PROVE ModelCacheIInv'
    BY <1>1, CatalogTouched DEF cacheVars, ModelCacheIInv, ModelCacheTypes
  <1>2. ASSUME governorStays PROVE GovernorIInv'
    BY <1>2 DEF aiVars, GovernorIInv, ReservationsExact, RamOf, VramOf, MaxAllowedRam, MaxAllowedVram
  <1>3. ASSUME NEW a \in Acquisitions, CacheStep(a), UNCHANGED aiVars PROVE ModelCacheIInv' /\ GovernorIInv'
    BY <1>2, <1>3, CacheStepKeeps
  <1>4. ASSUME NEW i \in Inferences, NEW m \in Models, ExecuteInference(i, m) \/ Generate(i, m)
        PROVE  ModelCacheIInv' /\ GovernorIInv'
    <2>1. CASE ExecuteInference(i, m)
      BY <1>1, <2>1, ExecuteInferenceStep DEF ExecuteInference
    <2>2. CASE /\ inference[i].phase = "idle"
               /\ inference' = [inference EXCEPT ![i] = [NoInference EXCEPT !.phase = "over"]]
               /\ UNCHANGED <<cacheVars, governor, aiShutdown>>
      <3>1. i \notin activeReservations
        BY <2>2 DEF GovernorIInv
      <3> QED
        BY <1>1, <2>2, <3>1, OverStep
    <2> QED
      BY <1>4, <2>1, <2>2 DEF Generate
  <1>5. ASSUME NEW i \in Inferences, DenyInference(i) PROVE ModelCacheIInv' /\ GovernorIInv'
    <2>1. i \notin activeReservations
      BY <1>5 DEF DenyInference, GovernorIInv
    <2> QED
      BY <1>1, <1>5, <2>1, OverStep DEF DenyInference
  <1>6. ASSUME NEW i \in Inferences, LoadModel(i) \/ InferenceEnds(i) PROVE ModelCacheIInv' /\ GovernorIInv'
    BY <1>6, ModelMarked, LoadModelStep, InferenceEndsStep
  <1>7. ASSUME NEW i \in Inferences, NEW p \in Profiles, NEW b \in Budgets, NEW allow \in BOOLEAN,
               Reserve(i, p, b, allow)
        PROVE  ModelCacheIInv' /\ GovernorIInv'
    <2>1. cacheStays
      BY <1>7 DEF Reserve
    <2> QED
      BY <1>1, <1>7, <2>1, ReserveStep
  <1>8. ASSUME ShutdownAi \/ ResetGovernor PROVE ModelCacheIInv' /\ GovernorIInv'
    <2>1. cacheStays
      BY <1>8 DEF ShutdownAi, ResetGovernor
    <2> QED
      BY <1>1, <1>8, <2>1, ShutdownStep
  <1>9. CASE UNCHANGED <<cacheVars, aiVars>>
    BY <1>1, <1>2, <1>9
  <1> QED
    BY <1>3, <1>4, <1>5, <1>6, <1>7, <1>8, <1>9 DEF AiNext

(* What the catalog lists can be loaded and what the governor counts is    *)
(* what is reserved, within the limits of hardware it has seen, for any    *)
(* number of models, acquisitions and inferences, whatever evictions,      *)
(* failed downloads and shutdowns come between (model-cache-manager.ts,    *)
(* resource-governor.ts, vram-offloader.ts).                               *)
THEOREM ModelsAlwaysAccounted == LocalAiSpec => []ModelsAccounted
  <1>1. ModelCacheIInv /\ GovernorIInv => ModelsAccounted
    <2> SUFFICES ASSUME ModelCacheIInv, GovernorIInv PROVE ModelsAccounted
      OBVIOUS
    <2>1. GovernorExact
      <3>1. ASSUME NEW i \in Inferences
            PROVE  /\ inference[i].plan.status # "none" => inference[i].plan.gpu + inference[i].plan.cpu = TotalLayers
                   /\ inference[i].plan.vram <= inference[i].freeVram
                   /\ inference[i].plan.ram <= inference[i].freeRam
        BY DEF GovernorIInv, InferenceIs, PlanFits
      <3>2. \A i \in Inferences :
              inference[i].phase \in {"reserved", "generating"} => i \in activeReservations \/ aiShutdown = "done"
        BY DEF GovernorIInv
      <3> QED
        BY <3>1, <3>2 DEF GovernorIInv, ReservationsExact, GovernorExact, RamOf, VramOf
    <2> QED
      BY <2>1, VerifiedCatalog DEF ModelsAccounted
  <1> QED
    BY <1>1, ModelsStart, ModelsStep, PTL DEF LocalAiSpec
====
