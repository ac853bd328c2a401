---- MODULE StreamClient ----
(***************************************************************************)
(* TelemetryStreamClient of the web dashboard, connected to the backend's  *)
(* StreamBus: one asynchronous attempt per call of attemptConnect, from    *)
(* the request over the response to the end of its read loop; the          *)
(* reconnect, probe and watchdog timers; the cursor that a new request     *)
(* sends as Last-Event-ID.                                                 *)
(*                                                                         *)
(* An abort rejects the pending fetch or read at once, so its handler, a   *)
(* microtask, runs before any other callback: the callbacks below wait for *)
(* aborted to be empty, the calls of the page do not.                      *)
(***************************************************************************)
EXTENDS StreamBus

CONSTANTS
    None,
    MaxReconnectAttempts,  \* reconnects before falling back to polling
    MaxStarts,             \* bound: calls of connect() by the page
    MaxStops               \* bound: calls of disconnect() by the page

VARIABLES
    state,     \* _state
    cursor,    \* _currentCursor
    attempts,  \* _reconnectAttempts
    stopped,   \* _isStopped
    connecting,\* _isConnecting
    ctl,       \* the attempt _abortController belongs to
    watchdog, reconnectTimer, probeTimer,   \* is the timer set
    task,      \* what each attempt is waiting for
    aborted,   \* attempts whose fetch or read was aborted and has not returned
    calls,     \* calls of the page so far
    base, got  \* for the properties: see NoSilentGap

timers == <<watchdog, reconnectTimer, probeTimer>>
clientVars == <<state, cursor, attempts, stopped, connecting, ctl, timers, task, aborted, calls, base, got>>
vars == <<busVars, clientVars>>

Running == {c \in Conns : task[c] # "idle"}

(* attemptConnect up to its first await. The token may be missing; the     *)
(* request carries the cursor of this moment.                              *)
attemptConnect ==
    \/ /\ stopped' \/ connecting
       /\ UNCHANGED <<state, connecting, ctl, task, conn>>
    \/ /\ ~stopped' /\ ~connecting
       /\ state' = "OFFLINE"
       /\ UNCHANGED <<connecting, ctl, task, conn>>
    \/ /\ ~stopped' /\ ~connecting
       /\ \E c \in Conns :
             /\ task[c] = "idle" /\ (conn[c].status = "free" \/ conn[c].closed)
             /\ state' = "CONNECTING" /\ connecting' = TRUE /\ ctl' = c
             /\ task' = [task EXCEPT ![c] = "fetching"]
             /\ conn' = [conn EXCEPT ![c] = [Idle EXCEPT !.status = "none", !.cursor = cursor]]

(* connect(): start() of the page.                                         *)
Connect ==
    /\ calls.starts < MaxStarts
    /\ stopped \/ state \notin {"CONNECTED_STREAMING", "CONNECTING"}
    /\ calls' = [calls EXCEPT !.starts = @ + 1]
    /\ stopped' = FALSE
    /\ reconnectTimer' = FALSE /\ probeTimer' = FALSE
    /\ attemptConnect
    /\ UNCHANGED <<epoch, log, buffer, cursor, attempts, watchdog, aborted, base, got>>

(* abort() of the current controller: the socket goes and the pending      *)
(* promise of a running attempt is rejected.                               *)
Abort(c) ==
    /\ aborted' = aborted \cup ({c} \cap Running)
    /\ conn' = IF c \in Running THEN [conn EXCEPT ![c].cut = TRUE] ELSE conn

(* disconnect(): stop() of the page.                                       *)
Disconnect ==
    /\ calls.stops < MaxStops /\ ~stopped
    /\ calls' = [calls EXCEPT !.stops = @ + 1]
    /\ stopped' = TRUE /\ connecting' = FALSE
    /\ watchdog' = FALSE /\ reconnectTimer' = FALSE /\ probeTimer' = FALSE
    /\ Abort(ctl) /\ ctl' = None
    /\ state' = "OFFLINE"
    /\ UNCHANGED <<epoch, log, buffer, cursor, attempts, task, base, got>>

----------------------------------------------------------------------------
(* Timers *)

(* scheduleReconnect: the next try, or polling with a later probe once the *)
(* tries are used up.                                                      *)
scheduleReconnect ==
    IF reconnectTimer THEN UNCHANGED <<state, attempts, reconnectTimer, probeTimer>>
    ELSE /\ attempts' = attempts + 1
         /\ IF attempts' > MaxReconnectAttempts
            THEN state' = "DEGRADED_POLLING" /\ probeTimer' = TRUE /\ UNCHANGED reconnectTimer
            ELSE state' = "RECONNECTING" /\ reconnectTimer' = TRUE /\ UNCHANGED probeTimer

ReconnectFires ==
    /\ reconnectTimer /\ aborted = {}
    /\ reconnectTimer' = FALSE
    /\ UNCHANGED stopped /\ attemptConnect
    /\ UNCHANGED <<epoch, log, buffer, cursor, attempts, watchdog, probeTimer, aborted, calls, base, got>>

(* The degraded probe: if the client still polls, start over.              *)
ProbeFires ==
    /\ probeTimer /\ aborted = {}
    /\ probeTimer' = FALSE
    /\ UNCHANGED stopped
    /\ IF state = "DEGRADED_POLLING"
       THEN attempts' = 0 /\ attemptConnect
       ELSE UNCHANGED <<state, attempts, connecting, ctl, task, conn>>
    /\ UNCHANGED <<epoch, log, buffer, cursor, watchdog, reconnectTimer, aborted, calls, base, got>>

(* A plausible slip: the stream is aborted without leaving its state.      *)
AbortOnly ==
    /\ watchdog /\ aborted = {}
    /\ watchdog' = FALSE
    /\ Abort(ctl)
    /\ UNCHANGED <<epoch, log, buffer, state, cursor, attempts, stopped, connecting, ctl, reconnectTimer, probeTimer,
                   task, calls, base, got>>

(* onWatchdogTimeout: nothing arrived for heartbeatTimeoutMs.              *)
onWatchdogTimeout ==
    /\ watchdog /\ aborted = {}
    /\ watchdog' = FALSE
    /\ state' = "RECONNECTING"
    /\ Abort(ctl)
    /\ UNCHANGED <<epoch, log, buffer, cursor, attempts, stopped, connecting, ctl, reconnectTimer, probeTimer,
                   task, calls, base, got>>

----------------------------------------------------------------------------
(* The rest of attemptConnect *)

(* The response of attempt c is there.                                     *)
Response(c) ==
    /\ task[c] = "fetching" /\ aborted = {}
    /\ conn[c].status \notin {"free", "none"}
    /\ connecting' = FALSE
    /\ CASE conn[c].status = "401" ->
               /\ state' = "OFFLINE" /\ task' = [task EXCEPT ![c] = "idle"]
               /\ UNCHANGED <<attempts, timers, base, got>>
         [] conn[c].status = "429" ->
               /\ state' = "DEGRADED_POLLING" /\ probeTimer' = TRUE /\ task' = [task EXCEPT ![c] = "idle"]
               /\ UNCHANGED <<attempts, watchdog, reconnectTimer, base, got>>
         [] conn[c].status = "5xx" ->
               /\ scheduleReconnect /\ task' = [task EXCEPT ![c] = "idle"]
               /\ UNCHANGED <<watchdog, base, got>>
         [] OTHER ->
               /\ state' = "CONNECTED_STREAMING" /\ attempts' = 0 /\ watchdog' = TRUE
               /\ task' = [task EXCEPT ![c] = "reading"]
               /\ base' = IF conn[c].live THEN conn[c].from ELSE base
               /\ got' = IF conn[c].live THEN {} ELSE got
               /\ UNCHANGED <<reconnectTimer, probeTimer>>
    /\ UNCHANGED <<busVars, cursor, stopped, ctl, aborted, calls>>

(* The fetch fails: the network or the server went away.                   *)
FetchFails(c) ==
    /\ task[c] = "fetching" /\ aborted = {} /\ conn[c].cut
    /\ connecting' = FALSE
    /\ scheduleReconnect
    /\ task' = [task EXCEPT ![c] = "idle"]
    /\ UNCHANGED <<busVars, cursor, stopped, ctl, watchdog, aborted, calls, base, got>>

(* The fetch of an aborted attempt rejects with AbortError.                *)
FetchAborted(c) ==
    /\ task[c] = "fetching" /\ c \in aborted
    /\ aborted' = aborted \ {c} /\ task' = [task EXCEPT ![c] = "idle"]
    /\ IF stopped THEN UNCHANGED <<state, attempts, connecting, reconnectTimer, probeTimer>>
       ELSE /\ connecting' = FALSE
            /\ IF state = "RECONNECTING" THEN scheduleReconnect
               ELSE UNCHANGED <<state, attempts, reconnectTimer, probeTimer>>
    /\ UNCHANGED <<busVars, cursor, stopped, ctl, watchdog, calls, base, got>>

(* readStream: one frame. Every frame sets the watchdog anew; a reset      *)
(* forgets the cursor, an event moves it before the page is told.          *)
dispatchFrame(frame) ==
    CASE frame.kind = "reset" -> cursor' = NoCursor /\ base' = frame.seq /\ got' = {}
      [] frame.kind = "event" -> /\ cursor' = [epoch |-> frame.epoch, seq |-> frame.seq]
                                 /\ got' = (IF cursor.epoch \in {0, frame.epoch} THEN got ELSE {}) \cup {frame.seq}
                                 /\ UNCHANGED base
      [] OTHER -> UNCHANGED <<cursor, base, got>>

ReadFrame(c) ==
    /\ task[c] = "reading" /\ aborted = {} /\ conn[c].wire # <<>>
    /\ watchdog' = TRUE
    /\ dispatchFrame(Head(conn[c].wire))
    /\ conn' = [conn EXCEPT ![c].wire = Tail(@)]
    /\ UNCHANGED <<epoch, log, buffer, state, attempts, stopped, connecting, ctl, reconnectTimer, probeTimer,
                   task, aborted, calls>>

(* The read loop ends: the server ended the response, or the read failed.  *)
ReadEnds(c) ==
    /\ task[c] = "reading" /\ aborted = {}
    /\ conn[c].cut \/ (conn[c].closed /\ conn[c].wire = <<>>)
    /\ watchdog' = FALSE
    /\ task' = [task EXCEPT ![c] = "idle"]
    /\ scheduleReconnect
    /\ UNCHANGED <<busVars, cursor, stopped, connecting, ctl, aborted, calls, base, got>>

(* The read of an aborted attempt rejects with AbortError.                 *)
ReadAborted(c) ==
    /\ task[c] = "reading" /\ c \in aborted
    /\ aborted' = aborted \ {c} /\ task' = [task EXCEPT ![c] = "idle"]
    /\ watchdog' = FALSE
    /\ IF ~stopped /\ state = "RECONNECTING" THEN scheduleReconnect
       ELSE UNCHANGED <<state, attempts, reconnectTimer, probeTimer>>
    /\ UNCHANGED <<busVars, cursor, stopped, connecting, ctl, calls, base, got>>

----------------------------------------------------------------------------
Init ==
    /\ BusInit
    /\ state = "OFFLINE" /\ cursor = NoCursor /\ attempts = 0
    /\ stopped = TRUE /\ connecting = FALSE /\ ctl = None
    /\ watchdog = FALSE /\ reconnectTimer = FALSE /\ probeTimer = FALSE
    /\ task = [c \in Conns |-> "idle"] /\ aborted = {}
    /\ calls = [starts |-> 0, stops |-> 0]
    /\ base = 0 /\ got = {}

Next ==
    \/ BusStep /\ UNCHANGED clientVars
    \/ Connect \/ Disconnect
    \/ ReconnectFires \/ ProbeFires \/ onWatchdogTimeout
    \/ \E c \in Conns : \/ Response(c) \/ FetchFails(c) \/ FetchAborted(c)
                        \/ ReadFrame(c) \/ ReadEnds(c) \/ ReadAborted(c)

Spec == Init /\ [][Next]_vars

----------------------------------------------------------------------------
(* Properties *)

TypeOK ==
    /\ state \in {"OFFLINE", "CONNECTING", "CONNECTED_STREAMING", "RECONNECTING", "DEGRADED_POLLING"}
    /\ attempts \in 0..(MaxReconnectAttempts + MaxStarts)
    /\ task \in [Conns -> {"idle", "fetching", "reading"}]
    /\ aborted \subseteq Running /\ ctl \in Conns \cup {None}
    /\ got \subseteq 1..MaxPublish /\ base \in 0..MaxPublish

(* The stream limit counts streams: no subscription outlives its response, *)
(* however the response ended (a slow consumer, a lost socket, a client    *)
(* that left while its request was being handled), and the limit holds.    *)
StreamsExact ==
    /\ \A c \in Conns : conn[c].sub => ~conn[c].closed
    /\ Subscribers <= MaxStreams

(* "Exactly once without dropping": a client whose cursor stands at event  *)
(* n of this epoch was given every event it may see from where its stream  *)
(* began (a connection without a cursor, or the last reset) up to n,       *)
(* through any number of reconnects, evictions and slow-consumer closes.   *)
NoSilentGap ==
    cursor.epoch = epoch =>
        \A n \in (base + 1)..cursor.seq : log[n] \in {Scope, Everywhere} => n \in got

(* P3A-SEC-07: one attempt at a time; no timer starts a second stream next *)
(* to a running one.                                                       *)
OneStream == Cardinality(Running \ aborted) <= 1

(* Both ends count streams: no subscription leaks against the limit of the *)
(* server, and no second attempt runs beside the first in the client.      *)
StreamsBounded == StreamsExact /\ OneStream

(* A client that was not stopped and is not OFFLINE always has something   *)
(* that will carry it on: a running attempt, a retry or a probe.           *)
NeverStranded == ~stopped /\ state # "OFFLINE" => Running # {} \/ reconnectTimer \/ probeTimer
====
