----------------------------- MODULE ControlPlane ----------------------------
(***************************************************************************)
(* The agent's link to the device gateway (communication/): the connection *)
(* with its registration and its retries, the relay of events with the     *)
(* durable copies, and the commands that come in.                          *)
(*                                                                         *)
(* Calls of start overlap each other, the transport's callbacks and        *)
(* disconnect at every await.  A reconnect timer that is set may fire at   *)
(* any time.  The spool is a set (TelemetrySpool has its limits); no code  *)
(* sets REVOKED.  Redaction and the contents of heartbeats are left out.   *)
(***************************************************************************)
EXTENDS Naturals, FiniteSets

CONSTANTS LinkStarts,          \* calls of start that may be suspended at the same time
          LinkEvents,          \* events that are relayed
          RejectionEvent,      \* what a rejected frame adds to the spool
          Frames, FrameDeliveries,
          DrainBatch,          \* 50: a drain takes no more events out of the spool
          MaxProcessed         \* 1000: expired message ids are kept up to here

VARIABLES connState,           \* ConnectionStateMachine.currentState
          linked,              \* transport.isConnected()
          reconnectTimer, heartbeats,    \* the timers are set
          startCall,           \* per call of start: the await it is at, the batch it drains
          relay,               \* per event, and per draining start: the relay it is in
          eventSpool, eventRecords,      \* telemetrySpool; the event_spool records
          closing,             \* disconnect awaits the transport
          processed, staleIds, \* processedMessageIds; those past their expiry
          delivery,            \* per delivery of a frame: how far it is
          unsafe,              \* the agent is STOPPING, STOPPED or FAILED
          relayed, received,   \* history: stored by a relay; sent to the gateway
          released,            \* history: disconnect was called
          cutOff,              \* history: the transport closed under a start that goes on
          dispatched           \* history: the commands run since their id was last forgotten

linkVars == <<connState, linked, reconnectTimer, heartbeats, startCall, closing, released, cutOff>>
relayVars == <<relay, eventSpool, eventRecords, relayed, received>>
commandVars == <<processed, staleIds, delivery, unsafe, dispatched>>
controlVars == <<linkVars, relayVars, commandVars>>

NoStart == [phase |-> "idle", left |-> {}]
NoRelay == [phase |-> "idle", event |-> "none"]
ControlInit ==
  /\ connState = "UNPAIRED" /\ linked = FALSE /\ reconnectTimer = FALSE /\ heartbeats = FALSE
  /\ startCall = [s \in LinkStarts |-> NoStart] /\ closing = FALSE
  /\ relay = [r \in LinkEvents \cup LinkStarts |-> NoRelay]
  /\ eventSpool = {} /\ eventRecords = {} /\ relayed = {} /\ received = {}
  /\ processed = {} /\ staleIds = {} /\ delivery = [d \in FrameDeliveries |-> [phase |-> "idle", frame |-> "none"]]
  /\ unsafe = FALSE /\ released = FALSE /\ cutOff = FALSE /\ dispatched = [f \in Frames |-> 0]

IsOffline == connState \in {"OFFLINE", "DEGRADED", "UNPAIRED"}
StartsAt(phases) == {s \in LinkStarts : startCall[s].phase \in phases}
StartMoves(s, phase) == startCall' = [startCall EXCEPT ![s].phase = phase]

-----------------------------------------------------------------------------
(* start.                                                                  *)

\* start does nothing while connected; called by a user of the client, or by the timer.
BeginsStart(s) ==
  /\ startCall[s].phase = "idle"
  /\ IF connState = "CONNECTED_ACTIVE" THEN UNCHANGED <<connState, startCall>>
     ELSE connState' = "CONNECTING" /\ StartMoves(s, "connecting")
StartLink(s) ==
  /\ BeginsStart(s) /\ released' = FALSE
  /\ UNCHANGED <<linked, reconnectTimer, heartbeats, closing, cutOff, relayVars, commandVars>>
ReconnectFires(s) ==
  /\ reconnectTimer /\ reconnectTimer' = FALSE /\ BeginsStart(s)
  /\ UNCHANGED <<linked, heartbeats, closing, released, cutOff, relayVars, commandVars>>

\* The catch block: OFFLINE, and another try later.
StartCatch(s) ==
  /\ connState' = "OFFLINE" /\ reconnectTimer' = TRUE
  /\ startCall' = [startCall EXCEPT ![s] = NoStart]

TransportConnects(s) ==
  /\ startCall[s].phase = "connecting" /\ linked' = TRUE /\ StartMoves(s, "identifying")
  /\ UNCHANGED <<connState, reconnectTimer, heartbeats, closing, released, cutOff, relayVars, commandVars>>
\* registerAgent, up to the write of the session token.
IdentityFound(s) ==
  /\ startCall[s].phase = "identifying" /\ connState' = "REGISTERING" /\ StartMoves(s, "registering")
  /\ UNCHANGED <<linked, reconnectTimer, heartbeats, closing, released, cutOff, relayVars, commandVars>>
\* No connection, no identity, or one that is not accepted.
StartFails(s) ==
  /\ startCall[s].phase \in {"connecting", "identifying"} /\ StartCatch(s)
  /\ UNCHANGED <<linked, heartbeats, closing, released, cutOff, relayVars, commandVars>>
\* Whatever has become of the transport meanwhile.  A batch is taken out of the spool.
RegistrationEnds(s) ==
  /\ startCall[s].phase = "registering" /\ connState' = "CONNECTED_ACTIVE" /\ heartbeats' = TRUE
  /\ \E batch \in SUBSET eventSpool :
       /\ Cardinality(batch) <= DrainBatch
       /\ batch = eventSpool \/ Cardinality(batch) = DrainBatch
       /\ startCall' = [startCall EXCEPT ![s] = [phase |-> "draining", left |-> batch]]
       /\ eventSpool' = eventSpool \ batch
  /\ UNCHANGED <<linked, reconnectTimer, closing, released, cutOff, relay, eventRecords, relayed, received, commandVars>>

\* drainSpooledEventsOnReconnect relays one after the other.
DrainNext(s) ==
  /\ startCall[s].phase = "draining" /\ relay[s].phase = "idle"
  /\ \E e \in startCall[s].left :
       /\ relay' = [relay EXCEPT ![s] = [phase |-> "storing", event |-> e]]
       /\ startCall' = [startCall EXCEPT ![s].left = @ \ {e}]
  /\ UNCHANGED <<connState, linked, reconnectTimer, heartbeats, closing, released, cutOff,
                 eventSpool, eventRecords, relayed, received, commandVars>>
DrainEnds(s) ==
  /\ startCall[s] = [phase |-> "draining", left |-> {}] /\ relay[s].phase = "idle"
  /\ startCall' = [startCall EXCEPT ![s] = NoStart]
  /\ UNCHANGED <<connState, linked, reconnectTimer, heartbeats, closing, released, cutOff, relayVars, commandVars>>

\* registerAgent called by the agent itself, whatever the state: nothing follows it.
RegisterAgent ==
  /\ connState' = "REGISTERING"
  /\ UNCHANGED <<linked, reconnectTimer, heartbeats, startCall, closing, released, cutOff, relayVars, commandVars>>

-----------------------------------------------------------------------------
(* relayEvent.                                                             *)

RelayOver(r) == IF r \in LinkStarts THEN "idle" ELSE "over"

RelayEvent(e) ==
  /\ relay[e].phase = "idle" /\ relay' = [relay EXCEPT ![e] = [phase |-> "storing", event |-> e]]
  /\ UNCHANGED <<linkVars, eventSpool, eventRecords, relayed, received, commandVars>>
\* The record is stored; the event is spooled, and sent unless there is no connection.
RelayStored(r) ==
  /\ relay[r].phase = "storing"
  /\ eventRecords' = eventRecords \cup {relay[r].event} /\ relayed' = relayed \cup {relay[r].event}
  /\ eventSpool' = eventSpool \cup {relay[r].event}
  /\ relay' = [relay EXCEPT ![r].phase = IF IsOffline \/ ~linked THEN RelayOver(r) ELSE "sending"]
  /\ UNCHANGED <<linkVars, received, commandVars>>
\* The store rejects: relayEvent does, and with it a start that drains, batch and all.
RelayNotStored(r) ==
  /\ relay[r].phase = "storing" /\ relay' = [relay EXCEPT ![r].phase = RelayOver(r)]
  /\ IF r \in LinkStarts THEN StartCatch(r) ELSE UNCHANGED <<connState, reconnectTimer, startCall>>
  /\ UNCHANGED <<linked, heartbeats, closing, released, cutOff, eventSpool, eventRecords, relayed,
                 received, commandVars>>
RelaySent(r) ==
  /\ relay[r].phase = "sending" /\ relay' = [relay EXCEPT ![r].phase = "deleting"]
  /\ received' = received \cup {relay[r].event}
  /\ UNCHANGED <<linkVars, eventSpool, eventRecords, relayed, commandVars>>

\* A plausible slip: the record is deleted however the transmission ended.
RelayEndsAnyway(r) ==
  /\ relay[r].phase \in {"sending", "deleting"} /\ relay' = [relay EXCEPT ![r].phase = RelayOver(r)]
  /\ eventRecords' = eventRecords \ {relay[r].event}
  /\ UNCHANGED <<linkVars, eventSpool, relayed, received, commandVars>>

\* The record is deleted; or sending, or deleting it, has failed.
RelayEnds(r) ==
  /\ relay[r].phase \in {"sending", "deleting"} /\ relay' = [relay EXCEPT ![r].phase = RelayOver(r)]
  /\ \/ UNCHANGED eventRecords
     \/ relay[r].phase = "deleting" /\ eventRecords' = eventRecords \ {relay[r].event}
  /\ UNCHANGED <<linkVars, eventSpool, relayed, received, commandVars>>

-----------------------------------------------------------------------------
(* The transport's callbacks and disconnect.                               *)

\* onClose, of a close by the other side or by disconnect.
OnClose ==
  /\ connState' = "OFFLINE" /\ linked' = FALSE
  /\ cutOff' = (cutOff \/ StartsAt({"identifying", "registering"}) # {})
TransportCloses ==
  /\ linked /\ OnClose
  /\ reconnectTimer' = (reconnectTimer \/ connState # "OFFLINE")
  /\ UNCHANGED <<heartbeats, startCall, closing, released, relayVars, commandVars>>
TransportErrs ==
  /\ connState' = "DEGRADED" /\ reconnectTimer' = TRUE
  /\ UNCHANGED <<linked, heartbeats, startCall, closing, released, cutOff, relayVars, commandVars>>

\* The agent calls disconnect once at a time.  The timer is cancelled before the transport
\* is closed, whose callback sets it again.
DisconnectLink ==
  /\ ~closing /\ heartbeats' = FALSE /\ released' = TRUE
  /\ IF linked THEN OnClose /\ closing' = TRUE /\ reconnectTimer' = (connState # "OFFLINE")
     ELSE connState' = "OFFLINE" /\ reconnectTimer' = FALSE /\ UNCHANGED <<linked, closing, cutOff>>
  /\ UNCHANGED <<startCall, relayVars, commandVars>>
\* A start that came up meanwhile is overruled.
DisconnectEnds ==
  /\ closing /\ closing' = FALSE /\ connState' = "OFFLINE" /\ released' = TRUE
  /\ UNCHANGED <<linked, reconnectTimer, heartbeats, startCall, cutOff, relayVars, commandVars>>

-----------------------------------------------------------------------------
(* handleIncomingMessage.                                                  *)

\* Too large, malformed, expired, or for another device or tenant.
FrameRejected ==
  /\ eventSpool' = eventSpool \cup {RejectionEvent}
  /\ UNCHANGED <<linkVars, relay, eventRecords, relayed, received, commandVars>>

\* pruneOldProcessedMessages.
Remembered == IF Cardinality(processed) > MaxProcessed THEN processed \ staleIds ELSE processed
Counts(more) == [f \in Frames |-> (IF f \in Remembered THEN dispatched[f] ELSE 0) + (IF f \in more THEN 1 ELSE 0)]

\* The identifier is remembered before anything is awaited, also of a command that is
\* refused.  A command without a lease header is dispatched at once.
FrameArrives(d, f) ==
  /\ delivery[d].phase = "idle"
  /\ processed' = Remembered \cup {f} /\ staleIds' = staleIds \cap Remembered
  /\ \E phase \in IF f \in Remembered \/ unsafe THEN {"refused"} ELSE {"leasing", "dispatched"} :
       /\ delivery' = [delivery EXCEPT ![d] = [phase |-> phase, frame |-> f]]
       /\ dispatched' = Counts(IF phase = "dispatched" THEN {f} ELSE {})
  /\ UNCHANGED <<linkVars, relayVars, unsafe>>
\* validateLease returns: the command is dispatched, whatever the agent does by now, or not.
LeaseAnswers(d) ==
  /\ delivery[d].phase = "leasing"
  /\ \/ /\ delivery' = [delivery EXCEPT ![d].phase = "refused"] /\ UNCHANGED dispatched
     \/ /\ delivery' = [delivery EXCEPT ![d].phase = "dispatched"]
        /\ dispatched' = [dispatched EXCEPT ![delivery[d].frame] = @ + 1]
  /\ UNCHANGED <<linkVars, relayVars, processed, staleIds, unsafe>>
\* Fifteen minutes, during which no validation is suspended.
IdGoesStale(f) ==
  /\ f \in processed \ staleIds /\ staleIds' = staleIds \cup {f}
  /\ \A d \in FrameDeliveries : delivery[d] # [phase |-> "leasing", frame |-> f]
  /\ UNCHANGED <<linkVars, relayVars, processed, delivery, unsafe, dispatched>>
\* The agent's lifecycle, as dispatchACPMessage finds it.
SafetyChanges ==
  /\ unsafe' = ~unsafe
  /\ UNCHANGED <<linkVars, relayVars, processed, staleIds, delivery, dispatched>>

LinkNext ==
  \/ RegisterAgent \/ TransportCloses \/ TransportErrs \/ DisconnectLink \/ DisconnectEnds \/ FrameRejected
  \/ \E s \in LinkStarts :
       \/ StartLink(s) \/ ReconnectFires(s) \/ TransportConnects(s) \/ IdentityFound(s)
       \/ StartFails(s) \/ RegistrationEnds(s) \/ DrainNext(s) \/ DrainEnds(s)
  \/ \E e \in LinkEvents : RelayEvent(e)
  \/ \E r \in LinkEvents \cup LinkStarts :
       RelayStored(r) \/ RelayNotStored(r) \/ RelaySent(r) \/ RelayEnds(r)
CommandNext ==
  \/ SafetyChanges
  \/ \E d \in FrameDeliveries : LeaseAnswers(d) \/ \E f \in Frames : FrameArrives(d, f)
  \/ \E f \in Frames : IdGoesStale(f)
ControlNext == LinkNext \/ CommandNext

ControlSpec == ControlInit /\ [][ControlNext]_controlVars

-----------------------------------------------------------------------------
(***************************************************************************)
(* The link recovers and nothing goes through it twice or is lost: while   *)
(* it is not asked to disconnect, a link that is down has a timer or a     *)
(* start that will bring it up again.  Three cases are excepted: start was *)
(* never called; the agent called registerAgent itself (agent.ts), which   *)
(* leaves REGISTERING whether or not there is a transport, and no start    *)
(* follows; and the transport closed under a start, which goes on to       *)
(* CONNECTED_ACTIVE (control-plane-client.ts, start).  Moreover an event   *)
(* that relayEvent stored has its record until it is sent, whatever the    *)
(* draining of the spool does with it meanwhile; and a command is run once *)
(* as long as its identifier is remembered.                                *)
(***************************************************************************)
LinkHolds ==
  /\ ~released /\ ~cutOff /\ ~reconnectTimer /\ StartsAt({"connecting", "identifying", "registering"}) = {} =>
       connState \in {"UNPAIRED", "REGISTERING"} \/ (connState = "CONNECTED_ACTIVE" /\ linked)
  /\ relayed \subseteq eventRecords \cup received
  /\ \A f \in Frames : dispatched[f] <= 1
=============================================================================
