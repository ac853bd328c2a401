--------------------------- MODULE TelemetrySpool ----------------------------
(***************************************************************************)
(* The telemetry spool of the agent (telemetry/): a bounded queue that     *)
(* keeps critical events over the others, the back-pressure it reports,    *)
(* and its file (if it was given a directory; the agent gives none).       *)
(* Every call runs to its end.  An item counts one byte.                   *)
(***************************************************************************)
EXTENDS Naturals, Sequences, FiniteSets, SeqSelection, Notifications

CONSTANTS Events,
          CriticalEvents,      \* isCriticalSchemaId; metrics and traces never are
          MaxSpool,            \* maxQueueLength
          SpoolWarning,        \* warningThresholdBytes
          MaxBatch             \* the items flush takes at most

ASSUME SpoolAssumption == {MaxSpool, SpoolWarning, MaxBatch} \subseteq Nat

VARIABLES spool,               \* items
          spoolMetrics,        \* the counters of the back-pressure controller
          spoolFull,           \* isCriticalFull
          savedSpool,          \* the file
          tracked, spooled,    \* history: the calls, those that returned true
          unspooled            \* history: sent in a batch, cleared, or not in the file at a crash

spoolVars == <<spool, spoolMetrics, spoolFull, savedSpool, tracked, spooled, unspooled>>

NoMetrics == [critical |-> 0, nonCritical |-> 0, usedBytes |-> 0]
SpoolInit ==
  /\ spool = <<>> /\ spoolMetrics = NoMetrics /\ spoolFull = FALSE /\ savedSpool = <<>>
  /\ tracked = {} /\ spooled = {} /\ unspooled = {}

HardMaxSpool == 2 * MaxSpool
Elements(items) == {items[i] : i \in DOMAIN items}

\* recordItemAdded and recordItemEvicted: an eviction gives no byte back.
Added(m, e) ==
  LET n == IF e \in CriticalEvents THEN 1 ELSE 0 IN
  [critical |-> m.critical + n, nonCritical |-> m.nonCritical + 1 - n, usedBytes |-> m.usedBytes + 1]
Evicted(m) == [m EXCEPT !.nonCritical = IF @ >= 1 THEN @ - 1 ELSE @]

\* persistSpoolToStorage; a write that fails raises the signal.
SpoolPersisted(items, full) ==
  /\ spool' = items
  /\ \/ savedSpool' = items /\ spoolFull' = full
     \/ savedSpool' = savedSpool /\ spoolFull' = TRUE

-----------------------------------------------------------------------------
\* Where the oldest item is that is not critical.
SpoolVictim == {i \in DOMAIN spool : /\ spool[i] \notin CriticalEvents
                                     /\ \A j \in 1 .. i - 1 : spool[j] \in CriticalEvents}

\* Below the limit, or critical: an older one that is not makes room, or the limit doubles.
EnqueueItem(e) ==
  /\ e \notin tracked /\ tracked' = tracked \cup {e}
  /\ \/ /\ Len(spool) < MaxSpool
        /\ SpoolPersisted(Append(spool, e), spoolFull) /\ spoolMetrics' = Added(spoolMetrics, e)
     \/ /\ Len(spool) >= MaxSpool /\ e \in CriticalEvents
        /\ \E i \in SpoolVictim : SpoolPersisted(Append(Without(spool, i), e), spoolFull)
        /\ spoolMetrics' = Added(Evicted(spoolMetrics), e)
     \/ /\ Len(spool) >= MaxSpool /\ e \in CriticalEvents /\ SpoolVictim = {} /\ Len(spool) < HardMaxSpool
        /\ SpoolPersisted(Append(spool, e), spoolFull) /\ spoolMetrics' = Added(spoolMetrics, e)
  /\ spooled' = spooled \cup {e} /\ UNCHANGED unspooled

\* A new item that is not critical is refused at the limit, a critical one at twice of it.
ItemRefused(e) ==
  /\ e \notin tracked /\ tracked' = tracked \cup {e}
  /\ \/ /\ Len(spool) >= MaxSpool /\ e \notin CriticalEvents
        /\ spoolMetrics' = Evicted(spoolMetrics) /\ UNCHANGED spoolFull
     \/ /\ Len(spool) >= HardMaxSpool /\ e \in CriticalEvents /\ SpoolVictim = {}
        /\ spoolFull' = TRUE /\ UNCHANGED spoolMetrics
  /\ UNCHANGED <<spool, savedSpool, spooled, unspooled>>

\* flush and popBatch: the counters and the bytes stay as they are.
PopBatch ==
  /\ spool # <<>>
  /\ LET count == IF MaxBatch < Len(spool) THEN MaxBatch ELSE Len(spool) IN
     /\ SpoolPersisted(SubSeq(spool, count + 1, Len(spool)),
                       spoolFull /\ Len(spool) - count >= HardMaxSpool)
     /\ unspooled' = unspooled \cup Elements(SubSeq(spool, 1, count))
  /\ UNCHANGED <<spoolMetrics, tracked, spooled>>

ClearSpool ==
  /\ SpoolPersisted(<<>>, FALSE) /\ spoolMetrics' = NoMetrics
  /\ unspooled' = unspooled \cup spooled
  /\ UNCHANGED <<tracked, spooled>>

\* The process dies; loadSpoolFromStorage counts what was written last.
SpoolRestart ==
  /\ spool' = savedSpool /\ spoolFull' = FALSE
  /\ spoolMetrics' = LET n == Cardinality({i \in DOMAIN savedSpool : savedSpool[i] \in CriticalEvents}) IN
                     [critical |-> n, nonCritical |-> Len(savedSpool) - n, usedBytes |-> Len(savedSpool)]
  /\ unspooled' = IF spoolFull THEN unspooled \cup spooled ELSE unspooled
  /\ UNCHANGED <<savedSpool, tracked, spooled>>

SpoolNext ==
  \/ PopBatch \/ ClearSpool \/ SpoolRestart
  \/ \E e \in Events : EnqueueItem(e) \/ ItemRefused(e)

SpoolSpec == SpoolInit /\ [][SpoolNext]_spoolVars

-----------------------------------------------------------------------------
IsBackpressureActive == spoolFull \/ spoolMetrics.usedBytes >= SpoolWarning

(***************************************************************************)
(* A critical event that was spooled stays until it is sent or cleared; a  *)
(* crash loses it only after the spool reported itself full.  The spool    *)
(* keeps its bounds, goes beyond the first only with critical events, and  *)
(* its back-pressure is never less than what it holds calls for.           *)
(***************************************************************************)
SpoolKeepsCritical ==
  /\ (spooled \cap CriticalEvents) \ unspooled \subseteq Elements(spool)
  /\ Len(spool) <= HardMaxSpool
  /\ Len(spool) > MaxSpool => Elements(spool) \subseteq CriticalEvents
  /\ Len(spool) >= SpoolWarning => IsBackpressureActive

(***************************************************************************)
(* Under pressure the bounded queues, that of the notifications and this   *)
(* one, give up what is not urgent, and never what is                      *)
(* (notification-queue.ts, telemetry-spool.ts).                            *)
(***************************************************************************)
UrgentIsKept == NoticesAreKept /\ SpoolKeepsCritical
=============================================================================
