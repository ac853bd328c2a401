----------------------------- MODULE StateStore -----------------------------
(***************************************************************************)
(* The desktop agent's encrypted state store and the state manager in      *)
(* front of it (apps/desktop-agent/src/state): records in memory, the      *)
(* primary file, the last-known-good (LKG) copy and the temporary file,    *)
(* concurrent writers that take turns to flush, a crash between any two    *)
(* file operations, a damaged file, and loading.                           *)
(*                                                                         *)
(* A record's content is the number of the call that wrote it; an absent   *)
(* record is 0.  flushInternal has no await: while it runs (body) nothing  *)
(* else does, and only a crash can fall between its file operations.  A    *)
(* file that does not parse, decrypt or match its HMAC is Bad.             *)
(***************************************************************************)
EXTENDS Naturals, FiniteSets, FiniteSetsExt

CONSTANTS Keys,
          MaxWrites,   \* bound on set and delete calls
          MaxCrashes,  \* bound on restarts
          MaxFaults    \* bound on damaged files

ASSUME StoreAssumption == {MaxWrites, MaxCrashes, MaxFaults} \subseteq Nat

VARIABLES records,   \* the map in memory
          isLoaded,
          isStarted,
          clearing,  \* loadFromDisk waits for a restoreLKG that found nothing
          active,    \* activeFlushPromise: the call whose flush it is, 0 if null
          waiting,   \* calls in the loop of flush
          body,      \* the file operation flushInternal has reached
          primary, lkg, tmp,   \* the files
          calls,     \* number of set and delete calls
          call,      \* each one: [key, del, at]
          promised,  \* history: the last write of each key that was acknowledged
          blind,     \* history: a write came before the load was over
          flushed,   \* history: what the last flush wrote
          previous,  \* history: what the flush before it wrote
          flushes,   \* history: number of flushes, at most 2
          crashes, faults

files == <<primary, lkg, tmp>>
memory == <<records, isLoaded, isStarted, clearing>>
turns == <<active, waiting, body>>
writes == <<calls, call>>
storeHistory == <<promised, blind, flushed, previous, flushes>>
storeVars == <<memory, turns, files, writes, storeHistory, crashes, faults>>

Nothing == [k \in Keys |-> 0]
File(map) == [is |-> "ok", map |-> map]
Missing == [is |-> "missing", map |-> Nothing]
Bad == [is |-> "bad", map |-> Nothing]
NoCall == [key |-> CHOOSE k \in Keys : TRUE, del |-> "no", at |-> "idle"]
Ids == 1 .. MaxWrites

StoreInit ==
  /\ records = Nothing /\ isLoaded = FALSE /\ isStarted = FALSE /\ clearing = FALSE
  /\ active = 0 /\ waiting = {} /\ body = "off"
  /\ primary = Missing /\ lkg = Missing /\ tmp = Missing
  /\ calls = 0 /\ call = [i \in Ids |-> NoCall]
  /\ promised = Nothing /\ blind = FALSE
  /\ flushed = Nothing /\ previous = Nothing /\ flushes = 0
  /\ crashes = 0 /\ faults = 0

At(i, where) == call' = [call EXCEPT ![i].at = where]

-----------------------------------------------------------------------------
(* set and delete: the record changes at once, then the call flushes.      *)

\* saveRecord or deleteRecord: straight into flushInternal when no flush is
\* active, else into the loop that waits for it.
EnterFlush(k, del, i) ==
  /\ call' = [call EXCEPT ![i] = [key |-> k, del |-> del,
                                  at |-> IF active = 0 THEN "flushing" ELSE "waiting"]]
  /\ IF active = 0 THEN active' = i /\ body' = "begin" /\ UNCHANGED waiting
                   ELSE waiting' = waiting \cup {i} /\ UNCHANGED <<active, body>>

\* Whether the agent's lifecycle, the key and the limits allow the write is an
\* input: a refused write changes nothing.
SetRecord(k) ==
  LET i == calls + 1 IN
  /\ body = "off" /\ calls < MaxWrites
  /\ calls' = i
  /\ records' = [records EXCEPT ![k] = i]
  /\ isStarted' = TRUE
  /\ blind' = (blind \/ ~isLoaded \/ clearing)
  /\ EnterFlush(k, "no", i)
  /\ UNCHANGED <<isLoaded, clearing, files, promised, flushed, previous, flushes, crashes, faults>>

\* A delete of a record that is not in memory returns false.
DeleteRecord(k) ==
  LET i == calls + 1 IN
  /\ body = "off" /\ calls < MaxWrites /\ records[k] # 0
  /\ calls' = i
  /\ records' = [records EXCEPT ![k] = 0]
  /\ isStarted' = TRUE
  /\ blind' = (blind \/ ~isLoaded \/ clearing)
  /\ EnterFlush(k, "yes", i)
  /\ UNCHANGED <<isLoaded, clearing, files, promised, flushed, previous, flushes, crashes, faults>>

\* A plausible slip: a waiting call takes the flush it waited for as its own.
ResumeMutant(i) ==
  /\ body = "off" /\ active = 0 /\ i \in waiting
  /\ waiting' = waiting \ {i}
  /\ promised' = [promised EXCEPT ![call[i].key] =
                    IF call[i].del = "yes" THEN @ ELSE Max({@, i})]
  /\ At(i, "acknowledged")
  /\ UNCHANGED <<memory, active, body, files, calls, blind, flushed, previous, flushes, crashes, faults>>

\* The flush waited for is over and no other call was faster.
Resume(i) ==
  /\ body = "off" /\ active = 0 /\ i \in waiting
  /\ waiting' = waiting \ {i}
  /\ active' = i /\ body' = "begin"
  /\ At(i, "flushing")
  /\ UNCHANGED <<memory, files, calls, storeHistory, crashes, faults>>

-----------------------------------------------------------------------------
(* flushInternal.                                                          *)

\* Only a primary file that decrypts is copied over the LKG file.
BackUp ==
  /\ body = "begin" /\ body' = "backed up"
  /\ lkg' = IF primary.is = "ok" THEN primary ELSE lkg
  /\ UNCHANGED <<memory, active, waiting, primary, tmp, writes, storeHistory, crashes, faults>>

WriteTmp ==
  /\ body = "backed up" /\ body' = "written"
  /\ tmp' = File(records)
  /\ UNCHANGED <<memory, active, waiting, primary, lkg, writes, storeHistory, crashes, faults>>

\* The rename; the promise is settled a turn later (FlushSettles).
Rename ==
  /\ body = "written" /\ body' = "off"
  /\ primary' = tmp /\ tmp' = Missing
  /\ isLoaded' = TRUE
  /\ flushed' = tmp.map /\ previous' = flushed /\ flushes' = Min({2, flushes + 1})
  /\ UNCHANGED <<records, isStarted, clearing, active, waiting, lkg, writes, promised, blind,
                 crashes, faults>>

\* Too much data, or a file operation that fails, the rename included: the
\* record stays in memory, and the temporary file as far as it was written.
\* The call fails, and so does every call that waits for this flush.
FlushFails ==
  /\ body \in {"begin", "backed up", "written"} /\ body' = "off"
  /\ active' = 0 /\ waiting' = {}
  /\ call' = [i \in Ids |-> IF i = active \/ i \in waiting THEN [call[i] EXCEPT !.at = "failed"]
                                                           ELSE call[i]]
  /\ tmp' \in IF body = "backed up" THEN {Missing, Bad} ELSE {tmp}
  /\ UNCHANGED <<memory, primary, lkg, calls, storeHistory, crashes, faults>>

\* The call whose flush it was returns and activeFlushPromise is null again.
FlushSettles ==
  LET c == call[active] IN
  /\ active # 0 /\ body = "off"
  /\ promised' = [promised EXCEPT ![c.key] = IF c.del = "yes" THEN @ ELSE Max({@, active})]
  /\ At(active, "acknowledged")
  /\ active' = 0
  /\ UNCHANGED <<memory, waiting, body, files, calls, blind, flushed, previous, flushes,
                 crashes, faults>>

-----------------------------------------------------------------------------
(* loadFromDisk and restoreLKG.                                            *)

\* What the files give: the primary, else the LKG copy.
Readable == primary.is = "ok" \/ lkg.is = "ok"
Contents == IF primary.is = "ok" THEN primary.map ELSE lkg.map

\* restoreLKG writes what it restored to the primary file.
LoadFiles ==
  /\ isLoaded' = TRUE
  /\ tmp' = Missing
  /\ IF Readable
       THEN records' = Contents /\ primary' = File(Contents) /\ UNCHANGED clearing
       ELSE clearing' = TRUE /\ UNCHANGED <<records, primary>>

\* restoreLKG found nothing: a turn later the records are cleared, and the load
\* fails if there was a primary file.  Then a started manager stays started.
LoadEmpty ==
  /\ body = "off" /\ clearing
  /\ clearing' = FALSE
  /\ records' = Nothing
  /\ isStarted' = IF primary.is = "bad" THEN isStarted ELSE TRUE
  /\ UNCHANGED <<isLoaded, turns, files, writes, storeHistory, crashes, faults>>

StoreStarts ==
  /\ body = "off" /\ ~isStarted /\ ~clearing
  /\ LoadFiles
  /\ isStarted' = Readable
  /\ UNCHANGED <<turns, lkg, writes, storeHistory, crashes, faults>>

\* The first get of a store that was not loaded.
GetLoads ==
  /\ body = "off" /\ ~isLoaded
  /\ LoadFiles
  /\ isStarted' = TRUE
  /\ UNCHANGED <<turns, lkg, writes, storeHistory, crashes, faults>>

\* stop flushes; it is called once the agent takes no more work.
StoreStops ==
  /\ body = "off" /\ isStarted /\ active = 0
  /\ lkg' = IF primary.is = "ok" THEN primary ELSE lkg
  /\ primary' = File(records)
  /\ flushed' = records /\ previous' = flushed /\ flushes' = Min({2, flushes + 1})
  /\ isStarted' = FALSE /\ isLoaded' = TRUE
  /\ UNCHANGED <<records, clearing, turns, tmp, writes, promised, blind, crashes, faults>>

-----------------------------------------------------------------------------
(* The environment.                                                        *)

\* The process dies; a file that was being written may be torn.
StoreCrash ==
  /\ crashes < MaxCrashes /\ crashes' = crashes + 1
  /\ records' = Nothing /\ isLoaded' = FALSE /\ isStarted' = FALSE /\ clearing' = FALSE
  /\ active' = 0 /\ waiting' = {} /\ body' = "off"
  /\ call' = [i \in Ids |-> IF call[i].at \in {"waiting", "flushing"}
                              THEN [call[i] EXCEPT !.at = "lost"] ELSE call[i]]
  /\ \/ /\ \/ UNCHANGED tmp
           \/ body = "backed up" /\ tmp' = Bad
        /\ UNCHANGED <<lkg, faults>>
     \/ /\ body = "begin" /\ primary.is = "ok" /\ faults < MaxFaults
        /\ lkg' = Bad /\ faults' = faults + 1
        /\ UNCHANGED tmp
  /\ UNCHANGED <<primary, calls, storeHistory>>

Damage ==
  /\ body = "off" /\ faults < MaxFaults /\ primary.is = "ok"
  /\ faults' = faults + 1
  /\ primary' \in {Bad, Missing}
  /\ UNCHANGED <<memory, turns, lkg, tmp, writes, storeHistory, crashes>>

StoreNext ==
  \/ \E k \in Keys : SetRecord(k) \/ DeleteRecord(k)
  \/ \E i \in Ids : Resume(i)
  \/ BackUp \/ WriteTmp \/ Rename \/ FlushFails \/ FlushSettles
  \/ LoadEmpty \/ StoreStarts \/ GetLoads \/ StoreStops
  \/ StoreCrash \/ Damage

StoreSpec == StoreInit /\ [][StoreNext]_storeVars

-----------------------------------------------------------------------------
Maps == [Keys -> 0 .. MaxWrites]
FileOK(f) == f.is \in {"ok", "missing", "bad"} /\ f.map \in Maps

\* The types of the store, and its lock: flushInternal only runs for the call
\* that activeFlushPromise belongs to, and nobody waits for a flush of its own.
StoreTypeOK ==
  /\ records \in Maps /\ FileOK(primary) /\ FileOK(lkg) /\ FileOK(tmp)
  /\ body \in {"off", "begin", "backed up", "written"}
  /\ body # "off" => active # 0 /\ call[active].at = "flushing"
  /\ waiting = {i \in Ids : call[i].at = "waiting"} /\ active \notin waiting
  /\ calls \in 0 .. MaxWrites /\ promised \in Maps

Deletes(k) == {i \in Ids : call[i].key = k /\ call[i].del = "yes" /\ call[i].at # "idle"}

\* As long as no file is damaged and the store was loaded before its first write,
\* what a restart at any moment would load holds every acknowledged record (or a
\* later write of it), unless it was deleted since.
AcknowledgedSurvives ==
  faults = 0 /\ ~blind =>
    \A k \in Keys : Contents[k] >= promised[k] \/ \E i \in Deletes(k) : i > promised[k]

\* After two flushes, one damaged or torn file never costs more than the last
\* flush: the files give what the last flush wrote, or the one before it.
OneFileIsEnough ==
  faults <= 1 /\ flushes = 2 =>
    Readable /\ Contents \in {flushed, previous}

\* flush (copy to LKG, write, rename), shared by the writers that wait for it: a
\* crash loses nothing acknowledged, and a damaged file costs one flush.
StoreIsDurable == AcknowledgedSurvives /\ OneFileIsEnough
=============================================================================
