---------------------------- MODULE AgentLifecycle ----------------------------
(***************************************************************************)
(* start, stop and the heartbeat of the desktop agent                      *)
(* (apps/desktop-agent/src/agent.ts, lifecycle/index.ts, the start and stop *)
(* of ipc/ipc-manager.ts).                                                 *)
(*                                                                         *)
(* Several start and stop calls may be suspended at their awaits at once.  *)
(* A call is at the await that `boot` or `halt` names; the code between two *)
(* awaits is one step.  Each awaited service may fail where its failure    *)
(* reaches the caller.                                                     *)
(***************************************************************************)
EXTENDS Naturals

CONSTANTS Starts, Stops,     \* the calls of start() and of stop()
          MaxBeats           \* heartbeats awaiting their answer at one time

VARIABLES lifecycle,         \* AgentLifecycleManager.currentState
          boot, halt,        \* where each start() and stop() call is suspended
          identity,          \* "unknown" or "loaded": this.identity
          heartbeat,         \* "off" or "on": heartbeatTimer
          beats,             \* heartbeats sent and not answered
          ipc                \* IPCManager.state

lifecycleVars == <<lifecycle, boot, halt, identity, heartbeat, beats, ipc>>

Down == {"STOPPING", "STOPPED", "FAILED"}

\* VALID_TRANSITIONS
Allowed(from) ==
  CASE from = "STARTING" -> {"READY", "FAILED", "STOPPING"}
    [] from = "READY"    -> {"DEGRADED", "STOPPING", "FAILED"}
    [] from = "DEGRADED" -> {"READY", "STOPPING", "FAILED"}
    [] from = "STOPPING" -> {"STOPPED", "FAILED"}
    [] from = "STOPPED"  -> {"STARTING"}
    [] from = "FAILED"   -> {"STARTING", "STOPPED"}

LifecycleInit ==
  /\ lifecycle = "STOPPED" /\ ipc = "STOPPED"
  /\ boot = [s \in Starts |-> "idle"] /\ halt = [t \in Stops |-> "idle"]
  /\ identity = "unknown" /\ heartbeat = "off" /\ beats = 0

-----------------------------------------------------------------------------
\* A plausible slip: an error of start() is rethrown and the state is left.
CatchForgets(s) ==
  /\ boot' = [boot EXCEPT ![s] = "over"]
  /\ UNCHANGED lifecycle

\* The catch of start(): FAILED where that is allowed, else the transition
\* throws as well; either way the call is over.
StartCatches(s) ==
  /\ boot' = [boot EXCEPT ![s] = "over"]
  /\ lifecycle' = IF "FAILED" \in Allowed(lifecycle) THEN "FAILED" ELSE lifecycle

\* start(): only from STOPPED; the readiness gate may throw at once.
Start(s) ==
  /\ boot[s] = "idle" /\ lifecycle = "STOPPED"
  /\ \/ lifecycle' = "STARTING" /\ boot' = [boot EXCEPT ![s] = "recovering"]
     \/ lifecycle' = "FAILED" /\ boot' = [boot EXCEPT ![s] = "over"]
  /\ UNCHANGED <<halt, identity, heartbeat, beats, ipc>>

\* executeStartupRecovery and getIdentity have answered.
Identified(s) ==
  /\ boot[s] = "recovering"
  /\ \/ /\ identity' = "loaded" /\ boot' = [boot EXCEPT ![s] = "registering"]
        /\ UNCHANGED lifecycle
     \/ StartCatches(s) /\ UNCHANGED identity
  /\ UNCHANGED <<halt, heartbeat, beats, ipc>>

\* registerAgent has answered: READY if accepted and allowed from here.
Registered(s) ==
  /\ boot[s] = "registering"
  /\ \/ /\ "READY" \in Allowed(lifecycle)
        /\ lifecycle' = "READY" /\ boot' = [boot EXCEPT ![s] = "saving"]
     \/ StartCatches(s)
  /\ UNCHANGED <<halt, identity, heartbeat, beats, ipc>>

\* saveStateSnapshot is done: the heartbeat starts, then the IPC endpoint.
Saved(s) ==
  /\ boot[s] = "saving"
  /\ \/ /\ heartbeat' = "on"
        /\ ipc' = IF ipc = "LISTENING" THEN ipc ELSE "STARTING"
        /\ boot' = [boot EXCEPT ![s] = IF ipc = "LISTENING" THEN "services" ELSE "opening"]
        /\ UNCHANGED lifecycle
     \/ StartCatches(s) /\ UNCHANGED <<heartbeat, ipc>>
  /\ UNCHANGED <<halt, identity, beats>>

\* The endpoint listens, or its server failed.  A server that stop() has closed
\* meanwhile never answers.
Opened(s) ==
  /\ boot[s] = "opening" /\ ipc \in {"STARTING", "STOPPING"}
  /\ \/ ipc' = "LISTENING" /\ boot' = [boot EXCEPT ![s] = "services"] /\ UNCHANGED lifecycle
     \/ ipc' = "FAILED" /\ StartCatches(s)
  /\ UNCHANGED <<halt, identity, heartbeat, beats>>

\* The state manager, the memory cache and the local models have started.
Served(s) ==
  /\ boot[s] = "services"
  /\ \/ boot' = [boot EXCEPT ![s] = "over"] /\ UNCHANGED lifecycle
     \/ StartCatches(s)
  /\ UNCHANGED <<halt, identity, heartbeat, beats, ipc>>

-----------------------------------------------------------------------------
\* stop(): returns when STOPPING or STOPPED, throws when FAILED; else the
\* heartbeat ends and every runtime is shut down before the first await.
Stop(t) ==
  /\ halt[t] = "idle" /\ lifecycle \in {"STARTING", "READY", "DEGRADED"}
  /\ lifecycle' = "STOPPING" /\ heartbeat' = "off"
  /\ halt' = [halt EXCEPT ![t] = "draining"]
  /\ UNCHANGED <<boot, identity, beats, ipc>>

\* Local models, state and telemetry are flushed (their errors are caught): the
\* endpoint is closed, unless the manager believes it is not open.
Drained(t) ==
  /\ halt[t] = "draining"
  /\ ipc' = IF ipc = "STOPPED" THEN ipc ELSE "STOPPING"
  /\ halt' = [halt EXCEPT ![t] = IF ipc = "STOPPED" THEN "leaving" ELSE "closing"]
  /\ UNCHANGED <<lifecycle, boot, identity, heartbeat, beats>>

Closed(t) ==
  /\ halt[t] = "closing"
  /\ ipc' = "STOPPED" /\ halt' = [halt EXCEPT ![t] = "leaving"]
  /\ UNCHANGED <<lifecycle, boot, identity, heartbeat, beats>>

\* memoryCacheManager.stop, disconnect and saveStateSnapshot; an error of
\* theirs ends in FAILED.
Left(t) ==
  /\ halt[t] = "leaving"
  /\ \/ lifecycle' = IF "STOPPED" \in Allowed(lifecycle) THEN "STOPPED" ELSE "FAILED"
     \/ lifecycle' = IF "FAILED" \in Allowed(lifecycle) THEN "FAILED" ELSE lifecycle
  /\ halt' = [halt EXCEPT ![t] = "over"]
  /\ UNCHANGED <<boot, identity, heartbeat, beats, ipc>>

-----------------------------------------------------------------------------
\* The timer fires: nothing is sent unless the agent is READY.
Beat ==
  /\ heartbeat = "on" /\ identity = "loaded" /\ lifecycle = "READY" /\ beats < MaxBeats
  /\ beats' = beats + 1
  /\ UNCHANGED <<lifecycle, boot, halt, identity, heartbeat, ipc>>

BeatFails ==
  /\ beats > 0 /\ beats' = beats - 1
  /\ lifecycle' = IF lifecycle = "READY" THEN "DEGRADED" ELSE lifecycle
  /\ UNCHANGED <<boot, halt, identity, heartbeat, ipc>>

BeatOk ==
  /\ beats > 0 /\ beats' = beats - 1
  /\ lifecycle' = IF lifecycle = "DEGRADED" THEN "READY" ELSE lifecycle
  /\ UNCHANGED <<boot, halt, identity, heartbeat, ipc>>

-----------------------------------------------------------------------------
StartStep(s) == Identified(s) \/ Registered(s) \/ Saved(s) \/ Opened(s) \/ Served(s)
StopStep(t) == Drained(t) \/ Closed(t) \/ Left(t)

LifecycleNext ==
  \/ \E s \in Starts : Start(s) \/ StartStep(s)
  \/ \E t \in Stops : Stop(t) \/ StopStep(t)
  \/ Beat \/ BeatFails \/ BeatOk

LifecycleSpec == LifecycleInit /\ [][LifecycleNext]_lifecycleVars

-----------------------------------------------------------------------------
(***************************************************************************)
(* The agent is never left between two states: while it is STARTING some   *)
(* start() call is on its way, while it is STOPPING some stop() call is,   *)
(* whatever calls run into each other and however each of them ends.       *)
(***************************************************************************)
TransitionsOwned ==
  /\ lifecycle = "STARTING" => \E s \in Starts : boot[s] \in {"recovering", "registering"}
  /\ lifecycle = "STOPPING" => \E t \in Stops : halt[t] \in {"draining", "closing", "leaving"}
=============================================================================
