----------------------------- MODULE MemoryCache -----------------------------
(***************************************************************************)
(* The working memory of the agent (memory/memory-cache-manager.ts and     *)
(* memory-cache-store.ts): entries with a size and a lifetime, filed under *)
(* their task, workspace, lease and policy, evicted under pressure.        *)
(*                                                                         *)
(* A removal is awaited wherever it is one of several or comes before      *)
(* something else, so puts, clears and sweeps take turns between any two.  *)
(* An entry is named by the call that put it.  Which entries were used     *)
(* least recently is left open: equal times are common.                    *)
(***************************************************************************)
EXTENDS Naturals, FiniteSets, FiniteSetsExt

CONSTANTS CacheKeys, CachePuts,
          CacheKeyOf, SizeBytesOf,   \* per put; none is above maxEntrySizeBytes
          CacheTags, TagsOf,         \* the tasks, workspaces, leases and policies; per put
          CacheClears,               \* the calls that clear a tag
          MaxMemoryBytes, MaxEntries

ASSUME MemoryCacheAssumption ==
  /\ CacheKeyOf \in [CachePuts -> CacheKeys] /\ SizeBytesOf \in [CachePuts -> Nat]
  /\ TagsOf \in [CachePuts -> SUBSET CacheTags] /\ "none" \notin CachePuts
  /\ MaxMemoryBytes \in Nat /\ MaxEntries \in Nat \ {0}   \* the schema demands one entry

VARIABLES cache,           \* entries, totalSizeBytes and the four indexes as one
          cachePut,        \* per put: "idle", "removing" the old entry, "stored", "refused"
          sweep,           \* per sweep of expired entries: the keys it has still to remove
          cacheClear,      \* per call: its tag, the keys it has still to remove
          expired,         \* the entries whose time is over
          cacheStarted, cleanupTimer,
          collided,        \* history: two puts of a key overlapped
          unfiled          \* history: entries that were dropped from an index

memoryCacheVars == <<cache, cachePut, sweep, cacheClear, expired, cacheStarted, cleanupTimer,
                     collided, unfiled>>
cacheHistory == <<collided, unfiled>>

NoEntries == [entries |-> [k \in CacheKeys |-> "none"], total |-> 0, index |-> [t \in CacheTags |-> {}]]
\* `began` is history: the entries of the tag when the call began.
NoClear == [phase |-> "idle", tag |-> "none", left |-> {}, began |-> {}]
Sweepers == CachePuts \cup {"timer"}

MemoryCacheInit ==
  /\ cache = NoEntries /\ cachePut = [p \in CachePuts |-> "idle"]
  /\ sweep = [s \in Sweepers |-> {}] /\ cacheClear = [c \in CacheClears |-> NoClear]
  /\ expired = {} /\ cacheStarted = FALSE /\ cleanupTimer = FALSE
  /\ collided = FALSE /\ unfiled = {}

UsedKeys(c) == {k \in CacheKeys : c.entries[k] # "none"}
Present == {cache.entries[k] : k \in UsedKeys(cache)}
\* The bytes of some keys, one by one, and how many they are.
BytesOf(c, keys) == UNION {{k} \X (1 .. SizeBytesOf[c.entries[k]]) : k \in keys}
Bytes(c, keys) == Cardinality(BytesOf(c, keys))
ExpiredKeys(c) == {k \in UsedKeys(c) : c.entries[k] \in expired}

-----------------------------------------------------------------------------
\* remove, of several keys: what is not there is passed over, the total stops at zero.
Removed(c, keys) ==
  LET gone == keys \cap UsedKeys(c)
      size == Bytes(c, gone) IN
  [entries |-> [k \in CacheKeys |-> IF k \in gone THEN "none" ELSE c.entries[k]],
   total   |-> IF size > c.total THEN 0 ELSE c.total - size,
   index   |-> [t \in CacheTags |-> c.index[t] \ {k \in gone : t \in TagsOf[c.entries[k]]}]]

\* performEmergencyEviction: half of the entries.
Halved(c) == {Removed(c, keys) : keys \in kSubset((Cardinality(UsedKeys(c)) + 1) \div 2, UsedKeys(c))}

FitsInCache(c, p) == Cardinality(UsedKeys(c)) < MaxEntries /\ c.total + SizeBytesOf[p] <= MaxMemoryBytes

\* The eviction of ensureCapacity: one entry after the other, until the new one fits.
MadeRoom(c, p) ==
  IF FitsInCache(c, p) THEN {c}
  ELSE {Removed(c, keys) : keys \in
         {ks \in SUBSET UsedKeys(c) :
            /\ FitsInCache(Removed(c, ks), p) \/ ks = UsedKeys(c)
            /\ ks # {} => \E k \in ks : ~FitsInCache(Removed(c, ks \ {k}), p)}}

Stored(c, p) ==
  LET key == CacheKeyOf[p] IN
  [entries |-> [c.entries EXCEPT ![key] = p], total |-> c.total + SizeBytesOf[p],
   index   |-> [t \in CacheTags |-> IF t \in TagsOf[p] THEN c.index[t] \cup {key} ELSE c.index[t]]]

\* What put does after the old entry is gone.  evictExpired is not awaited: one expired
\* entry is removed here and the others later.
StoreEntry(p, c) ==
  \E pressed \in {c} \cup Halved(c) :
    LET due == ExpiredKeys(pressed) IN
    \E first \in IF due = {} THEN {{}} ELSE {{k} : k \in due} :
      /\ sweep' = [sweep EXCEPT ![p] = due \ first]
      /\ \E roomy \in MadeRoom(Removed(pressed, first), p) :
           IF roomy.total + SizeBytesOf[p] > MaxMemoryBytes
           THEN cache' = roomy /\ cachePut' = [cachePut EXCEPT ![p] = "refused"]
           ELSE cache' = Stored(roomy, p) /\ cachePut' = [cachePut EXCEPT ![p] = "stored"]

\* A plausible slip: the old entry is left to be overwritten.
PutInPlace(p) ==
  /\ cachePut[p] = "idle" /\ cacheStarted' = TRUE /\ StoreEntry(p, cache)
  /\ UNCHANGED <<cacheClear, expired, cleanupTimer, cacheHistory>>

\* put: the manager counts as started, with or without its timer.
Put(p) ==
  /\ cachePut[p] = "idle" /\ cacheStarted' = TRUE
  /\ IF CacheKeyOf[p] \in UsedKeys(cache)
     THEN /\ cache' = Removed(cache, {CacheKeyOf[p]})
          /\ cachePut' = [cachePut EXCEPT ![p] = "removing"] /\ UNCHANGED sweep
     ELSE StoreEntry(p, cache)
  /\ collided' = (collided \/ \E q \in CachePuts : cachePut[q] = "removing" /\ CacheKeyOf[q] = CacheKeyOf[p])
  /\ UNCHANGED <<cacheClear, expired, cleanupTimer, unfiled>>
PutGoesOn(p) ==
  /\ cachePut[p] = "removing" /\ StoreEntry(p, cache)
  /\ UNCHANGED <<cacheClear, expired, cacheStarted, cleanupTimer, cacheHistory>>

-----------------------------------------------------------------------------
\* remove, and a get that finds its entry expired.
RemoveKey(k) ==
  /\ k \in UsedKeys(cache) /\ cache' = Removed(cache, {k}) /\ cacheStarted' = TRUE
  /\ UNCHANGED <<cachePut, sweep, cacheClear, expired, cleanupTimer, cacheHistory>>

\* clearTask, clearWorkspace, clearLease and invalidatePolicyHash: the keys are listed,
\* each is removed and awaited, whoever has put it by then; then the index is dropped.
ClearTag(c, t) ==
  /\ cacheClear[c].phase = "idle" /\ cache.index[t] # {} /\ cacheStarted' = TRUE
  /\ \E k \in cache.index[t] :
       /\ cache' = Removed(cache, {k})
       /\ cacheClear' = [cacheClear EXCEPT ![c] =
            [phase |-> "clearing", tag |-> t, left |-> cache.index[t] \ {k},
             began |-> {p \in Present \ unfiled : t \in TagsOf[p]}]]
  /\ UNCHANGED <<cachePut, sweep, expired, cleanupTimer, cacheHistory>>
ClearGoesOn(c) ==
  /\ cacheClear[c].phase = "clearing"
  /\ \E k \in cacheClear[c].left :
       /\ cache' = Removed(cache, {k})
       /\ cacheClear' = [cacheClear EXCEPT ![c].left = @ \ {k}]
  /\ UNCHANGED <<cachePut, sweep, expired, cacheStarted, cleanupTimer, cacheHistory>>
Cleared(c) ==
  LET t == cacheClear[c].tag IN
  /\ cacheClear[c].phase = "clearing" /\ cacheClear[c].left = {}
  /\ cache' = [cache EXCEPT !.index[t] = {}]
  /\ cacheClear' = [cacheClear EXCEPT ![c].phase = "over"]
  /\ unfiled' = unfiled \cup {p \in Present : t \in TagsOf[p] /\ CacheKeyOf[p] \in cache.index[t]}
  /\ UNCHANGED <<cachePut, sweep, expired, cacheStarted, cleanupTimer, collided>>

-----------------------------------------------------------------------------
\* runBackgroundCleanup: the expired entries as they are now, one at a time.
Cleanup ==
  /\ cleanupTimer /\ sweep["timer"] = {}
  /\ \E k \in ExpiredKeys(cache) :
       cache' = Removed(cache, {k}) /\ sweep' = [sweep EXCEPT !["timer"] = ExpiredKeys(cache) \ {k}]
  /\ UNCHANGED <<cachePut, cacheClear, expired, cacheStarted, cleanupTimer, cacheHistory>>
SweepGoesOn(s) ==
  /\ \E k \in sweep[s] : cache' = Removed(cache, {k}) /\ sweep' = [sweep EXCEPT ![s] = @ \ {k}]
  /\ UNCHANGED <<cachePut, cacheClear, expired, cacheStarted, cleanupTimer, cacheHistory>>
EntryExpires(p) ==
  /\ p \in Present \ expired /\ expired' = expired \cup {p}
  /\ UNCHANGED <<cache, cachePut, sweep, cacheClear, cacheStarted, cleanupTimer, cacheHistory>>
\* getStatus under pressure.
PressureSeen ==
  /\ cache' \in Halved(cache)
  /\ UNCHANGED <<cachePut, sweep, cacheClear, expired, cacheStarted, cleanupTimer, cacheHistory>>

StartCache ==
  /\ ~cacheStarted /\ cacheStarted' = TRUE /\ cleanupTimer' = TRUE
  /\ UNCHANGED <<cache, cachePut, sweep, cacheClear, expired, cacheHistory>>
\* assertLifecycleAllowed marks the manager started before it looks at the lifecycle; so
\* does a call that it refuses, one that is not well-formed, and a get.
AssertLifecycleAllowed ==
  /\ cacheStarted' = TRUE
  /\ UNCHANGED <<cache, cachePut, sweep, cacheClear, expired, cleanupTimer, cacheHistory>>
\* stop, in which state no other call is accepted, and clearAll; sweeps, clears and puts
\* that are suspended go on.
StopCache ==
  /\ cacheStarted /\ cacheStarted' = FALSE /\ cleanupTimer' = FALSE /\ cache' = NoEntries
  /\ UNCHANGED <<cachePut, sweep, cacheClear, expired, cacheHistory>>
ClearAll ==
  /\ cache' = NoEntries
  /\ UNCHANGED <<cachePut, sweep, cacheClear, expired, cacheStarted, cleanupTimer, cacheHistory>>

MemoryCacheNext ==
  \/ Cleanup \/ PressureSeen \/ StartCache \/ AssertLifecycleAllowed \/ StopCache \/ ClearAll
  \/ \E p \in CachePuts : Put(p) \/ PutGoesOn(p) \/ EntryExpires(p)
  \/ \E k \in CacheKeys : RemoveKey(k)
  \/ \E s \in Sweepers : SweepGoesOn(s)
  \/ \E c \in CacheClears : ClearGoesOn(c) \/ Cleared(c) \/ \E t \in CacheTags : ClearTag(c, t)

MemoryCacheSpec == MemoryCacheInit /\ [][MemoryCacheNext]_memoryCacheVars

-----------------------------------------------------------------------------
(***************************************************************************)
(* The cache keeps its ceilings however puts, clears, sweeps and evictions *)
(* take turns, and its total is never below what it holds; it is exact as  *)
(* long as no two puts of a key overlap (memory-cache-store.ts, put).  An  *)
(* entry stays filed under its tags, so that clearing one of them removes  *)
(* whatever had it when the call began, unless an earlier clear of the tag *)
(* dropped the index with the entry in it.                                 *)
(***************************************************************************)
CacheIsBounded ==
  /\ Bytes(cache, UsedKeys(cache)) <= cache.total /\ cache.total <= MaxMemoryBytes
  /\ Cardinality(UsedKeys(cache)) <= MaxEntries
  /\ ~collided => cache.total = Bytes(cache, UsedKeys(cache))
  /\ \A p \in Present \ unfiled : \A t \in TagsOf[p] : CacheKeyOf[p] \in cache.index[t]
  /\ \A c \in CacheClears : cacheClear[c].phase = "over" => cacheClear[c].began \cap Present = {}
=============================================================================
