---- MODULE StreamBus ----
(***************************************************************************)
(* The live telemetry stream on the backend: TenantStreamEventBus with its *)
(* bounded replay buffer, and one SSEStreamConnection per open response.   *)
(* One tenant is modelled: every map of the bus is keyed by the tenant and *)
(* no operation touches two keys.                                          *)
(*                                                                         *)
(* An event is the number the bus gave it; log[n] is the workspace of      *)
(* event n of this epoch. The cursor <epoch>:<n> is the record             *)
(* [epoch, seq]; sequence numbers start at 1, so seq = 0 stands for "no    *)
(* Last-Event-ID header". The epoch is a fresh UUID per process, here a    *)
(* number.                                                                 *)
(***************************************************************************)
EXTENDS Integers, Sequences, FiniteSets, FiniteSetsExt, SequencesExt

CONSTANTS
    Conns,       \* responses that can be open at one time
    Scope,       \* workspace of the modelled client's subscription
    Elsewhere,   \* another workspace of the tenant
    Everywhere,  \* an event with no workspace: visible to the whole tenant
    Origins,     \* the workspaces events are published in
    MaxReplay,   \* capacity of the replay buffer (MAX_REPLAY_BUFFER_SIZE)
    MaxStreams,  \* MAX_STREAMS_PER_TENANT
    MaxQueue,    \* frames one saturated response may have waiting
    MaxPublish,  \* bound: events published in the first epoch; one less in each later one
    MaxRejected, \* bound: events of an epoch whose envelope is rejected
    MaxEpochs    \* bound: lives of the backend process

Rejected == "rejected"   \* a sequence number whose envelope failed to validate

ASSUME BusAssumption ==
    /\ IsFiniteSet(Conns)
    /\ MaxReplay \in Nat \ {0} /\ MaxStreams \in Nat \ {0}
    /\ MaxQueue \in Nat /\ MaxRejected \in Nat
    /\ MaxEpochs \in Nat \ {0} /\ MaxPublish \in Nat /\ MaxEpochs <= MaxPublish + 1
    /\ Cardinality({Scope, Elsewhere, Everywhere}) = 3 /\ Origins \subseteq {Scope, Elsewhere, Everywhere}
    /\ Rejected \notin {Scope, Elsewhere, Everywhere}

NoCursor == [epoch |-> 0, seq |-> 0]

VARIABLES
    epoch,   \* streamEpochId
    log,     \* the workspaces of the events numbered so far
    buffer,  \* StreamReplayBuffer.events, oldest first
    conn     \* the SSE connections of the modelled client

busVars == <<epoch, log, buffer, conn>>

(* A response. status: what the client was answered ("none" while the      *)
(* request is on its way). closed: SSEStreamConnection.isClosed. cut: the  *)
(* socket is destroyed. sub: the bus holds a subscriber for it. wire: the  *)
(* frames written and not read; queue: outboundQueue. seen is the larger of *)
(* maxEvaluatedReplaySeq and lastDeliveredSeq (0 for undefined), which the *)
(* code only ever compares with the same number. For the properties only:  *)
(* live says that the subscription began without a cursor, from is the     *)
(* head of the stream at that moment.                                      *)
Idle == [status |-> "free", cursor |-> NoCursor, closed |-> FALSE, cut |-> FALSE, sub |-> FALSE,
         draining |-> FALSE, queue |-> <<>>, wire |-> <<>>, seen |-> 0,
         live |-> FALSE, from |-> 0]

Event(n) == [kind |-> "event", epoch |-> epoch, seq |-> n]
Ping == [kind |-> "ping", epoch |-> 0, seq |-> 0]

getLatestSequence == Len(log)

Budget == MaxPublish + 1 - epoch

Subscribers == Cardinality({c \in Conns : conn[c].sub})

canSubscribe == Subscribers < MaxStreams

----------------------------------------------------------------------------
(* SSEStreamConnection *)

(* close(): the subscription ends, what is queued is dropped and the       *)
(* response ends; what was already written still reaches the client.       *)
Close(r) == [r EXCEPT !.closed = TRUE, !.sub = FALSE, !.queue = <<>>]

(* enqueueOrWrite of several frames in a row: the outcomes. The socket may *)
(* push back after any of them; the rest are queued, and a queue that      *)
(* would exceed its limit closes the response.                             *)
Queued(r, frames) ==
    IF Len(r.queue) + Len(frames) > MaxQueue THEN Close(r)
    ELSE [r EXCEPT !.queue = @ \o frames]

Sent(r, frames) ==
    IF frames = <<>> \/ r.closed THEN {r}
    ELSE IF r.cut THEN {Close(r)}
    ELSE IF r.draining THEN {Queued(r, frames)}
    ELSE {[r EXCEPT !.wire = @ \o frames]}
         \cup {Queued([r EXCEPT !.wire = @ \o SubSeq(frames, 1, k), !.draining = TRUE],
                      SubSeq(frames, k + 1, Len(frames))) : k \in 1..Len(frames)}

(* handleDrain: the socket accepts data again; the queue is written out    *)
(* until it pushes back again.                                             *)
HandleDrain(c) ==
    /\ conn[c].draining /\ ~conn[c].closed /\ ~conn[c].cut
    /\ \E r \in Sent([conn[c] EXCEPT !.draining = FALSE, !.queue = <<>>], conn[c].queue) :
          conn' = [conn EXCEPT ![c] = r]
    /\ UNCHANGED <<epoch, log, buffer>>

(* sendHeartbeat, every heartbeatIntervalMs. Only the heartbeats that meet *)
(* a saturated or destroyed response: the others only feed the client's    *)
(* watchdog, which may fire at any time in this model. One unread ping at  *)
(* a time is enough to saturate a queue that holds other frames.           *)
SendHeartbeat(c) ==
    /\ conn[c].status = "ok" /\ ~conn[c].closed
    /\ conn[c].draining \/ conn[c].cut
    /\ Ping \notin Range(conn[c].wire \o conn[c].queue)
    /\ \E r \in Sent(conn[c], <<Ping>>) : conn' = [conn EXCEPT ![c] = r]
    /\ UNCHANGED <<epoch, log, buffer>>

(* The close, aborted or error event of the request or the response.       *)
OnDisconnect(c) ==
    /\ conn[c].status = "ok" /\ conn[c].cut /\ ~conn[c].closed
    /\ conn' = [conn EXCEPT ![c] = Close(@)]
    /\ UNCHANGED <<epoch, log, buffer>>

----------------------------------------------------------------------------
(* StreamReplayBuffer *)

(* prune(now): the age limit drops a prefix; how long a prefix depends on  *)
(* the time that has passed, which is not modelled.                        *)
Prune(b) == {SubSeq(b, k, Len(b)) : k \in 1..(Len(b) + 1)}

(* push: at capacity the oldest events make room.                          *)
Push(b, n) == Append(IF Len(b) >= MaxReplay THEN SubSeq(b, Len(b) - MaxReplay + 2, Len(b)) ELSE b, n)

(* A plausible slip: the replay starts one event too late.                 *)
EventsAfterNext(b, n) == {m \in Range(b) : m > n + 1}

(* getEventsSince: what the buffer holds after event n. The buffer is in   *)
(* the order of the numbers, and what is chosen from it is sent so.        *)
getEventsSince(b, n) == {m \in Range(b) : m > n}

InOrder(events) == {s \in [1..Cardinality(events) -> events] :
                       \A i, j \in 1..Cardinality(events) : i < j => s[i] < s[j]}

----------------------------------------------------------------------------
(* TenantStreamEventBus *)

(* matchesWorkspace: the client sees its workspace and tenant-wide events. *)
matchesWorkspace(w) == w \in {Scope, Everywhere}

(* The subscriber's listener for event n of workspace w: one within the    *)
(* replayed horizon, or not after the last one delivered, is ignored.      *)
Listener(r, n, w) ==
    IF r.sub /\ matchesWorkspace(w) /\ n > r.seen
    THEN Sent([r EXCEPT !.seen = n], <<Event(n)>>)
    ELSE {r}

(* publish: number the event, keep it for replay and hand it to every      *)
(* subscriber, without an await in between.                                *)
Publish(w) ==
    LET n == getLatestSequence + 1
        outcomes == [c \in Conns |-> Listener(conn[c], n, w)]
    IN /\ n <= Budget
       /\ log' = Append(log, w)
       /\ \E b \in Prune(buffer) : buffer' = Push(b, n)
       /\ conn' \in {f \in [Conns -> UNION Range(outcomes)] : \A c \in Conns : f[c] \in outcomes[c]}
       /\ UNCHANGED epoch

(* publish of an event whose envelope does not validate: the number was    *)
(* already taken, nothing is kept or delivered.                            *)
PublishRejected ==
    /\ getLatestSequence < Budget
    /\ Cardinality({n \in 1..Len(log) : log[n] = Rejected}) < MaxRejected
    /\ log' = Append(log, Rejected)
    /\ UNCHANGED <<epoch, buffer, conn>>

(* evaluateReplay, for a well-formed cursor and a pruned buffer b.         *)
evaluateReplay(at, b) ==
    LET reset == [type |-> "RESET", events |-> {}]
    IN CASE at = NoCursor -> [type |-> "NONE", events |-> {}]
         [] at # NoCursor /\ at.epoch # epoch -> reset
         [] at.epoch = epoch /\ at.seq > getLatestSequence -> reset
         [] at.epoch = epoch /\ at.seq = getLatestSequence -> [type |-> "REPLAY", events |-> {}]
         [] OTHER -> IF b = <<>> \/ at.seq < Head(b) THEN reset
                     ELSE [type |-> "REPLAY", events |-> getEventsSince(b, at.seq)]

ResetFrame == [kind |-> "reset", epoch |-> epoch, seq |-> getLatestSequence]

(* subscribe: the replay or the reset is sent before any live event. A     *)
(* close() meanwhile finds no handle yet, so the subscription is left for  *)
(* bindSubscription to give back.                                          *)
Subscribed(r, replay) ==
    LET shown == {n \in replay.events : matchesWorkspace(log[n])}
        frames == IF replay.type = "RESET" THEN {<<ResetFrame>>}
                  ELSE {[i \in 1..Len(s) |-> Event(s[i])] : s \in InOrder(shown)}
        start == [r EXCEPT !.status = "ok", !.sub = TRUE,
                           !.live = (replay.type = "NONE"), !.from = getLatestSequence,
                           !.seen = IF replay.type # "REPLAY" THEN 0
                                    ELSE IF replay.events = {} THEN r.cursor.seq
                                    ELSE Max(replay.events)]
    IN {[out EXCEPT !.sub = TRUE] : out \in UNION {Sent(start, s) : s \in frames}}

(* A plausible slip: the handle is stored without looking at the response. *)
BindAlways(r) == r

bindSubscription(r) == IF r.closed \/ r.cut THEN [r EXCEPT !.sub = FALSE] ELSE r

----------------------------------------------------------------------------
(* GET /v1/telemetry/stream *)

(* The request of connection c is handled: refused by authentication, by   *)
(* the stream limit or by a server error, or subscribed.                   *)
Refuse(c, status) ==
    /\ conn[c].status = "none" /\ ~conn[c].closed
    /\ status = "429" => ~canSubscribe
    /\ conn' = [conn EXCEPT ![c].status = status, ![c].closed = TRUE]
    /\ UNCHANGED <<epoch, log, buffer>>

Subscribe(c) ==
    /\ conn[c].status = "none" /\ ~conn[c].closed /\ canSubscribe
    /\ \E b \in Prune(buffer) :
          LET replay == evaluateReplay(conn[c].cursor, b)
              looked == replay.type # "NONE" /\ conn[c].cursor.epoch = epoch /\ conn[c].cursor.seq < getLatestSequence
          IN /\ buffer' = IF looked THEN b ELSE buffer
             /\ \E r \in Subscribed(conn[c], replay) : conn' = [conn EXCEPT ![c] = bindSubscription(r)]
    /\ UNCHANGED <<epoch, log>>

(* The network loses the connection.                                       *)
Cut(c) ==
    /\ conn[c].status # "free" /\ ~conn[c].cut
    /\ conn' = [conn EXCEPT ![c].cut = TRUE]
    /\ UNCHANGED <<epoch, log, buffer>>

(* The backend process ends and starts again: a new epoch, empty maps.     *)
Restart ==
    /\ epoch < MaxEpochs
    /\ epoch' = epoch + 1
    /\ log' = <<>> /\ buffer' = <<>>
    /\ conn' = [c \in Conns |-> IF conn[c].status = "free" THEN conn[c] ELSE [Close(conn[c]) EXCEPT !.cut = TRUE]]

BusInit ==
    /\ epoch = 1 /\ log = <<>> /\ buffer = <<>>
    /\ conn = [c \in Conns |-> Idle]

BusStep ==
    \/ \E w \in Origins : Publish(w)
    \/ PublishRejected
    \/ \E c \in Conns : HandleDrain(c) \/ SendHeartbeat(c) \/ OnDisconnect(c) \/ Subscribe(c) \/ Cut(c)
    \/ \E c \in Conns, status \in {"401", "429", "5xx"} : Refuse(c, status)
    \/ Restart
====
