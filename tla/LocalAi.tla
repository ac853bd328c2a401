------------------------------- MODULE LocalAi -------------------------------
(***************************************************************************)
(* The local AI runtime.                                                   *)
(*                                                                         *)
(* The model cache (model-cache-manager.ts): downloads and staged files    *)
(* that are verified, promoted and listed, and the eviction that makes     *)
(* room for them.  An acquisition is suspended at every file and network   *)
(* operation; others acquire, evict, mark models active or inactive in     *)
(* between.  Sizes are units, the content of a file is "good" (what the    *)
(* manifest's hash says) or "bad".                                         *)
(*                                                                         *)
(* Local inference (model-runtime-manager.ts) over the cache: the resource *)
(* governor that admits an inference (resource-governor.ts), the planner   *)
(* that places the layers of a model on GPU and CPU (vram-offloader.ts),   *)
(* and the cleanup when the inference is over.  Memory is counted in       *)
(* units; the ceilings are 70 % of the RAM and 80 % of the VRAM of the     *)
(* first adapter.  The profile of the hardware is sampled again for every  *)
(* inference and need not be the same twice.                               *)
(***************************************************************************)
EXTENDS Integers, Sequences, FiniteSets, SequencesExt, SeqSelection

CONSTANTS Models, Acquisitions,
          FileSizeOf,        \* fileSizeBytes of a model
          MaxCacheBytes,
          MaxRedirects       \* 5 in the program

ASSUME ModelCacheAssumption ==
  /\ FileSizeOf \in [Models -> Nat \ {0}] /\ "none" \notin Models

VARIABLES modelFile,         \* per model: "absent", "good", "bad" in models/
          cached,            \* the catalog, least recently used first
          activeModelIds,
          inFlightDownloads, \* the models being downloaded
          staged,            \* per acquisition: its file in staging/
          acq,               \* per acquisition, how far it has come
          raced              \* history: models unlinked between their rename and
                             \* their entry

cacheVars == <<modelFile, cached, activeModelIds, inFlightDownloads, staged, acq, raced>>

NoAcq == [phase |-> "idle", via |-> "none", model |-> "none", hops |-> 0,
          victims |-> <<>>, total |-> 0, then |-> "none"]

CacheInit ==
  /\ modelFile = [m \in Models |-> "absent"] /\ cached = <<>>
  /\ activeModelIds = {} /\ inFlightDownloads = {}
  /\ staged = [a \in Acquisitions |-> "none"] /\ acq = [a \in Acquisitions |-> NoAcq]
  /\ raced = {}

Cataloged == ToSet(cached)
Forget(m) == ItemsAt(cached, {i \in DOMAIN cached : cached[i] # m})
InPhase(a, phase) == acq[a].phase = phase
GoOn(a, phase) == acq' = [acq EXCEPT ![a].phase = phase]

\* The units that some of the models, or of the inferences, take together.
Total(unitsOf, some) == Cardinality(UNION {{x} \X (1 .. unitsOf[x]) : x \in some})

\* The acquisition ends; a download leaves the map of downloads.
EndAcquisition(a, phase) ==
  /\ acq' = [acq EXCEPT ![a] = [NoAcq EXCEPT !.phase = phase, !.model = acq[a].model]]
  /\ inFlightDownloads' = IF acq[a].via = "download" THEN inFlightDownloads \ {acq[a].model}
                          ELSE inFlightDownloads

-----------------------------------------------------------------------------
\* downloadArtifact: a listed model whose file exists is returned as it is, one
\* already on its way is waited for.
DownloadArtifact(a, m) ==
  /\ InPhase(a, "idle")
  /\ ~(m \in Cataloged /\ modelFile[m] # "absent") /\ m \notin inFlightDownloads
  /\ acq' = [acq EXCEPT ![a] = [NoAcq EXCEPT !.phase = "validating", !.via = "download", !.model = m]]
  /\ inFlightDownloads' = inFlightDownloads \cup {m}
  /\ UNCHANGED <<modelFile, cached, activeModelIds, staged, raced>>

\* stageAndPromoteModel of a file somebody else has put into staging.
StageModel(a, m, content) ==
  /\ InPhase(a, "idle")
  /\ acq' = [acq EXCEPT ![a] = [NoAcq EXCEPT !.phase = "hashing", !.via = "stage", !.model = m]]
  /\ staged' = [staged EXCEPT ![a] = content]
  /\ UNCHANGED <<modelFile, cached, activeModelIds, inFlightDownloads, raced>>

\* resolveSafePath: the path leaves the cache directory or is no file name; or
\* there is no such file, or the model's identifier is malformed.
StageRefused(a, m) ==
  /\ InPhase(a, "idle")
  /\ acq' = [acq EXCEPT ![a] = [NoAcq EXCEPT !.phase = "failed", !.model = m]]
  /\ UNCHANGED <<modelFile, cached, activeModelIds, inFlightDownloads, staged, raced>>

\* The source, or a hop on the way to it, is not a public https address.
SourceRefused(a) ==
  /\ acq[a].phase \in {"validating", "connecting"} /\ EndAcquisition(a, "failed")
  /\ UNCHANGED <<modelFile, cached, activeModelIds, staged, raced>>

\* The staged file is removed; an unlink that fails is ignored and it stays.
DiscardStaged(a) == staged' \in {staged, [staged EXCEPT ![a] = "none"]}

\* No connection, a bad status or length, too many hops, a stream that is
\* aborted, too long, too short or without the manifest's hash.
AcquisitionFails(a) ==
  /\ acq[a].phase \in {"connecting", "streaming"}
  /\ EndAcquisition(a, "failed") /\ DiscardStaged(a)
  /\ UNCHANGED <<modelFile, cached, activeModelIds, raced>>

\* ensureCapacity, first piece: the sum, and whom to evict in which order.
EnsureCapacity(a, then) ==
  LET total == Total(FileSizeOf, Cataloged)
      fits == total + FileSizeOf[acq[a].model] <= MaxCacheBytes
  IN acq' = [acq EXCEPT ![a].phase = IF fits THEN then ELSE "evicting", ![a].then = then,
                        ![a].total = IF fits THEN 0 ELSE total,
                        ![a].victims = IF fits THEN <<>>
                                       ELSE ItemsAt(cached, {i \in DOMAIN cached : cached[i] \notin activeModelIds})]

\* validateRemoteArtifactSource passes: the capacity is checked before connecting.
SourceIsValid(a) ==
  /\ InPhase(a, "validating") /\ EnsureCapacity(a, "connecting")
  /\ UNCHANGED <<modelFile, cached, activeModelIds, inFlightDownloads, staged, raced>>

Victim(a) == Head(acq[a].victims)
Fits(a) == acq[a].total + FileSizeOf[acq[a].model] <= MaxCacheBytes

\* The next victim's file is unlinked (or the unlink fails and it stays) ...
Unlink(a) ==
  /\ InPhase(a, "evicting") /\ ~Fits(a) /\ acq[a].victims # <<>> /\ modelFile[Victim(a)] # "absent"
  /\ \/ /\ modelFile' = [modelFile EXCEPT ![Victim(a)] = "absent"] /\ GoOn(a, "unlinked")
        /\ raced' = IF \E b \in Acquisitions : InPhase(b, "listing") /\ acq[b].model = Victim(a)
                    THEN raced \cup {Victim(a)} ELSE raced
     \/ /\ acq' = [acq EXCEPT ![a].victims = Tail(@)] /\ UNCHANGED <<modelFile, raced>>
  /\ UNCHANGED <<cached, activeModelIds, inFlightDownloads, staged>>

\* A plausible slip: the space is counted, the entry stays in the catalog.
EvictFileOnly(a) ==
  acq' = [acq EXCEPT ![a].phase = "evicting", ![a].victims = Tail(@),
                     ![a].total = @ - FileSizeOf[Victim(a)]] /\ UNCHANGED cached

\* ... and it leaves the catalog, whatever the catalog has become meanwhile.
EvictEntry(a) ==
  acq' = [acq EXCEPT ![a].phase = "evicting", ![a].victims = Tail(@),
                     ![a].total = @ - FileSizeOf[Victim(a)]] /\ cached' = Forget(Victim(a))

Unlinked(a) ==
  /\ \/ InPhase(a, "unlinked")
     \/ InPhase(a, "evicting") /\ ~Fits(a) /\ acq[a].victims # <<>> /\ modelFile[Victim(a)] = "absent"
  /\ EvictEntry(a)
  /\ UNCHANGED <<modelFile, activeModelIds, inFlightDownloads, staged, raced>>

\* The loop is over: there is room, or the quota is exceeded and a promotion
\* leaves its verified file in staging.
EvictionDone(a) ==
  /\ InPhase(a, "evicting") /\ (Fits(a) \/ acq[a].victims = <<>>)
  /\ IF Fits(a) THEN /\ acq' = [acq EXCEPT ![a].phase = acq[a].then, ![a].victims = <<>>, ![a].total = 0]
                     /\ UNCHANGED inFlightDownloads
     ELSE EndAcquisition(a, "failed")
  /\ UNCHANGED <<modelFile, cached, activeModelIds, staged, raced>>

\* fetch: every hop is validated again; too many hops end it.
Redirect(a) ==
  /\ InPhase(a, "connecting") /\ acq[a].hops < MaxRedirects
  /\ acq' = [acq EXCEPT ![a].hops = @ + 1]
  /\ UNCHANGED <<modelFile, cached, activeModelIds, inFlightDownloads, staged, raced>>
Connect(a) ==
  /\ InPhase(a, "connecting") /\ acq' = [acq EXCEPT ![a].phase = "streaming", ![a].hops = 0]
  /\ staged' = [staged EXCEPT ![a] = "bad"]
  /\ UNCHANGED <<modelFile, cached, activeModelIds, inFlightDownloads, raced>>
\* The stream ends with exactly the manifest's size and hash.
Streamed(a) ==
  /\ InPhase(a, "streaming") /\ GoOn(a, "hashing") /\ staged' = [staged EXCEPT ![a] = "good"]
  /\ UNCHANGED <<modelFile, cached, activeModelIds, inFlightDownloads, raced>>

\* stageAndPromoteModel hashes the staged file and makes room again.
Verified(a) ==
  /\ InPhase(a, "hashing") /\ staged[a] = "good" /\ EnsureCapacity(a, "promoting")
  /\ UNCHANGED <<modelFile, cached, activeModelIds, inFlightDownloads, staged, raced>>
HashMismatch(a) ==
  /\ InPhase(a, "hashing") /\ staged[a] = "bad" /\ EndAcquisition(a, "failed")
  /\ DiscardStaged(a)
  /\ UNCHANGED <<modelFile, cached, activeModelIds, raced>>

\* The rename, and after it the catalog entry.
Promote(a) ==
  /\ InPhase(a, "promoting") /\ GoOn(a, "listing")
  /\ modelFile' = [modelFile EXCEPT ![acq[a].model] = staged[a]] /\ staged' = [staged EXCEPT ![a] = "none"]
  /\ UNCHANGED <<cached, activeModelIds, inFlightDownloads, raced>>
List(a) ==
  /\ InPhase(a, "listing") /\ EndAcquisition(a, "installed")
  /\ cached' = Append(Forget(acq[a].model), acq[a].model)
  /\ UNCHANGED <<modelFile, activeModelIds, staged, raced>>

\* markModelActive: a set, not a count; a listed model becomes the most recent.
MarkModelActive(m) ==
  /\ activeModelIds' = activeModelIds \cup {m}
  /\ cached' = IF m \in Cataloged THEN Append(Forget(m), m) ELSE cached
MarkModelInactive(m) == activeModelIds' = activeModelIds \ {m}

CacheStep(a) ==
  \/ \E m \in Models : DownloadArtifact(a, m) \/ \E c \in {"good", "bad"} : StageModel(a, m, c)
  \/ \E m \in Models : StageRefused(a, m)
  \/ SourceRefused(a) \/ AcquisitionFails(a) \/ SourceIsValid(a) \/ Unlink(a) \/ Unlinked(a) \/ EvictionDone(a)
  \/ Redirect(a) \/ Connect(a) \/ Streamed(a) \/ Verified(a) \/ HashMismatch(a) \/ Promote(a) \/ List(a)

-----------------------------------------------------------------------------
(***************************************************************************)
(* What the catalog lists can be loaded: its file is there, complete and   *)
(* with the manifest's hash, unless an eviction has just unlinked it and   *)
(* is about to drop the entry, or an eviction working from an old list of  *)
(* victims hit it between its rename and its entry.  An unverified file is *)
(* never in models/, although it may stay in staging for ever.             *)
(***************************************************************************)
CatalogIsVerified ==
  /\ \A m \in Cataloged :
       \/ modelFile[m] = "good" \/ m \in raced
       \/ \E a \in Acquisitions : InPhase(a, "unlinked") /\ Victim(a) = m
  /\ \A m \in Models : modelFile[m] # "bad"

-----------------------------------------------------------------------------
(* Inference.                                                              *)

CONSTANTS Inferences,
          MaxConcurrentInferences,  \* 2 in the program
          Profiles,                 \* possible hardware: [ram, vram], vram = 0: no adapter
          Budgets,                  \* hardwareBudget: [ram, vram], 0: not given
          FormatOf,                 \* per model: "gguf" or "onnx"
          KvCacheBytes, TotalLayers, DefaultBytes

ASSUME LocalAiAssumption ==
  /\ {Profiles, Budgets} \subseteq SUBSET [ram : Nat, vram : Nat] /\ Profiles # {}
  /\ {MaxConcurrentInferences, KvCacheBytes, DefaultBytes} \subseteq Nat /\ TotalLayers \in Nat \ {0}

VARIABLES inference,         \* per inference, how far it has come and on what
          activeReservations,
          activeConcurrentCount, reservedRamBytes, reservedVramBytes,
          aiShutdown         \* "no", "unloading", "done"

aiVars == <<inference, activeReservations, activeConcurrentCount, reservedRamBytes,
            reservedVramBytes, aiShutdown>>
governor == <<activeReservations, activeConcurrentCount, reservedRamBytes, reservedVramBytes>>

NoPlan == [status |-> "none", gpu |-> 0, cpu |-> 0, vram |-> 0, ram |-> 0, fallback |-> "no"]
NoInference == [phase |-> "idle", model |-> "none", listed |-> "no", ram |-> 0, vram |-> 0,
                plan |-> NoPlan, freeRam |-> 0, freeVram |-> 0]

AiInit ==
  /\ inference = [i \in Inferences |-> NoInference] /\ activeReservations = {}
  /\ activeConcurrentCount = 0 /\ reservedRamBytes = 0 /\ reservedVramBytes = 0
  /\ aiShutdown = "no"

AtLeastZero(n) == IF n < 0 THEN 0 ELSE n
CeilDiv(n, d) == (n + d - 1) \div d
MaxAllowedRam(p) == (p.ram * 7) \div 10
MaxAllowedVram(p) == (p.vram * 8) \div 10

\* availableRam and availableVram: what is left below the ceilings.
Available(reserved, ceiling) == AtLeastZero(ceiling - reserved)

-----------------------------------------------------------------------------
\* planLayerOffload: all layers on the GPU, some of them (gguf only), none of
\* them, or a plan that failed.
PlanLayerOffload(size, format, allowCpuFallback, freeRam, freeVram) ==
  LET perLayer == CeilDiv(size, TotalLayers)
      required == size + KvCacheBytes
      room == (freeVram - KvCacheBytes) \div perLayer
      fitting == IF room < TotalLayers THEN room ELSE TotalLayers - 1
      onCpu == (TotalLayers - fitting) * perLayer
      noGpu == [NoPlan EXCEPT !.cpu = TotalLayers, !.fallback = IF allowCpuFallback THEN "yes" ELSE "no"]
  IN CASE freeVram > 0 /\ required <= freeVram ->
            [NoPlan EXCEPT !.status = "SUPPORTED", !.gpu = TotalLayers, !.vram = required]
       [] /\ freeVram > 0 /\ required > freeVram /\ format = "gguf"
          /\ freeVram > KvCacheBytes + perLayer /\ fitting > 0 /\ onCpu <= freeRam ->
            [NoPlan EXCEPT !.status = "SUPPORTED", !.gpu = fitting, !.cpu = TotalLayers - fitting,
                           !.vram = fitting * perLayer + KvCacheBytes, !.ram = onCpu]
       [] OTHER -> IF allowCpuFallback /\ required <= freeRam
                   THEN [noGpu EXCEPT !.status = "FALLBACK", !.ram = required]
                   ELSE [noGpu EXCEPT !.status = "FAILED"]

RequiredRam(m, listed, budget) ==
  CASE budget.ram > 0 -> budget.ram
    [] OTHER -> IF listed THEN CeilDiv(FileSizeOf[m] * 11, 10) ELSE DefaultBytes
RequiredVram(m, listed, budget, p) ==
  CASE budget.vram > 0 -> budget.vram
    [] budget.vram = 0 /\ p.vram = 0 -> 0
    [] OTHER -> IF listed THEN CeilDiv(FileSizeOf[m] * 9, 10) ELSE DefaultBytes

FitsCeiling(need, reserved, ceiling) == reserved + need <= ceiling

\* executeInference starts: refused after a shutdown, otherwise its lease is
\* re-validated and the hardware profiled.
ExecuteInference(i, m) ==
  /\ inference[i].phase = "idle" /\ aiShutdown = "no"
  /\ inference' = [inference EXCEPT ![i].phase = "admitting", ![i].model = m]
  /\ UNCHANGED <<cacheVars, governor, aiShutdown>>

\* The generate operation of LocalAiRuntime.execute: refused without a model or a
\* prompt, or after a shutdown; otherwise executeInferenceDirect, which collects
\* the stream that executeInference hands on and is the same in all else.
Generate(i, m) ==
  \/ /\ inference[i].phase = "idle"
     /\ inference' = [inference EXCEPT ![i] = [NoInference EXCEPT !.phase = "over"]]
     /\ UNCHANGED <<cacheVars, governor, aiShutdown>>
  \/ ExecuteInference(i, m)

\* The lease is refused (by the boundary, its tenant or its scopes).
DenyInference(i) ==
  /\ inference[i].phase = "admitting" /\ inference' = [inference EXCEPT ![i] = [NoInference EXCEPT !.phase = "over"]]
  /\ UNCHANGED <<cacheVars, governor, aiShutdown>>

\* reserve: what is missing in VRAM is a CPU fallback if the request allows it.
\* A plan's own verdict counts only when it says to fall back.
Reserve(i, p, budget, allowCpuFallback) ==
  LET m == inference[i].model
      listed == m \in Cataloged
      ram == RequiredRam(m, listed, budget)
      vram == RequiredVram(m, listed, budget, p)
      freeRam == Available(reservedRamBytes, MaxAllowedRam(p))
      freeVram == Available(reservedVramBytes, MaxAllowedVram(p))
      tooLarge == p.vram > 0 /\ ~FitsCeiling(vram, reservedVramBytes, MaxAllowedVram(p))
      plan == IF listed THEN PlanLayerOffload(FileSizeOf[m], FormatOf[m], allowCpuFallback, freeRam, freeVram)
              ELSE NoPlan
      onCpu == tooLarge \/ plan.fallback = "yes" \/ p.vram = 0
  IN /\ inference[i].phase = "admitting"
     /\ IF /\ activeConcurrentCount < MaxConcurrentInferences
           /\ FitsCeiling(ram, reservedRamBytes, MaxAllowedRam(p)) /\ (tooLarge => allowCpuFallback)
        THEN /\ inference' = [inference EXCEPT ![i] =
                  [phase |-> "reserved", model |-> m, listed |-> IF listed THEN "yes" ELSE "no", ram |-> ram,
                   vram |-> IF onCpu THEN 0 ELSE vram, plan |-> plan,
                   freeRam |-> freeRam, freeVram |-> freeVram]]
             /\ activeReservations' = activeReservations \cup {i}
             /\ activeConcurrentCount' = activeConcurrentCount + 1
             /\ reservedRamBytes' = reservedRamBytes + ram
             /\ reservedVramBytes' = reservedVramBytes + (IF onCpu THEN 0 ELSE vram)
        ELSE /\ inference' = [inference EXCEPT ![i] = [NoInference EXCEPT !.phase = "over"]]
             /\ UNCHANGED governor
     /\ UNCHANGED <<cacheVars, aiShutdown>>

\* The plan goes to the adapter with the request.
Handed(r, phase) == [r EXCEPT !.phase = phase, !.plan = NoPlan, !.freeRam = 0, !.freeVram = 0]

\* The model is marked active and handed to the adapter, which refuses a wrong
\* format, a bad digest or a missing engine; nothing is cleaned up then.
LoadModel(i) ==
  /\ inference[i].phase = "reserved"
  /\ \/ inference' = [inference EXCEPT ![i] = Handed(@, "generating")]
     \/ inference[i].listed = "yes" /\ inference' = [inference EXCEPT ![i] = Handed(@, "refused")]
  /\ IF inference[i].listed = "yes" THEN MarkModelActive(inference[i].model)
     ELSE UNCHANGED <<activeModelIds, cached>>
  /\ UNCHANGED <<modelFile, inFlightDownloads, staged, acq, raced, governor, aiShutdown>>

Release(i) ==
  IF i \in activeReservations
  THEN /\ activeReservations' = activeReservations \ {i}
       /\ activeConcurrentCount' = AtLeastZero(activeConcurrentCount - 1)
       /\ reservedRamBytes' = AtLeastZero(reservedRamBytes - inference[i].ram)
       /\ reservedVramBytes' = AtLeastZero(reservedVramBytes - inference[i].vram)
  ELSE UNCHANGED governor

\* The stream ends (final chunk, limit of tokens or bytes, abort, error) and the
\* finally block runs.
InferenceEnds(i) ==
  /\ inference[i].phase = "generating" /\ Release(i)
  /\ IF inference[i].listed = "yes" THEN MarkModelInactive(inference[i].model) ELSE UNCHANGED activeModelIds
  /\ inference' = [inference EXCEPT ![i] = [NoInference EXCEPT !.phase = "over"]]
  /\ UNCHANGED <<cached, modelFile, inFlightDownloads, staged, acq, raced, aiShutdown>>

\* shutdown refuses new work at once, unloads the models one by one, and then
\* resets the governor under whatever still runs.
ShutdownAi ==
  /\ aiShutdown = "no" /\ aiShutdown' = "unloading" /\ UNCHANGED <<cacheVars, inference, governor>>
ResetGovernor ==
  /\ aiShutdown = "unloading" /\ aiShutdown' = "done"
  /\ activeReservations' = {} /\ activeConcurrentCount' = 0
  /\ reservedRamBytes' = 0 /\ reservedVramBytes' = 0
  /\ UNCHANGED <<cacheVars, inference>>

AiNext ==
  \/ \E a \in Acquisitions : CacheStep(a) /\ UNCHANGED aiVars
  \/ \E i \in Inferences :
       \/ \E m \in Models : ExecuteInference(i, m) \/ Generate(i, m)
       \/ DenyInference(i) \/ LoadModel(i) \/ InferenceEnds(i)
       \/ \E p \in Profiles, b \in Budgets, allow \in BOOLEAN : Reserve(i, p, b, allow)
  \/ ShutdownAi \/ ResetGovernor

LocalAiSpec == CacheInit /\ AiInit /\ [][AiNext]_<<cacheVars, aiVars>>

-----------------------------------------------------------------------------
(***************************************************************************)
(* The governor's three totals are those of the reservations it holds,     *)
(* also when a shutdown resets them under running inferences that release  *)
(* theirs later; they respect the limits of the largest hardware seen; and *)
(* whatever is not reserved is not generating, unless the reset took it.   *)
(* A plan accounts for every layer, and one that has not failed fits into  *)
(* the memory that was free when it was made.                              *)
(***************************************************************************)
GovernorExact ==
  /\ activeConcurrentCount = Cardinality(activeReservations)
  /\ reservedRamBytes = Total([i \in Inferences |-> inference[i].ram], activeReservations)
  /\ reservedVramBytes = Total([i \in Inferences |-> inference[i].vram], activeReservations)
  /\ activeConcurrentCount <= MaxConcurrentInferences
  /\ \E p \in Profiles : reservedRamBytes <= MaxAllowedRam(p)
  /\ \E p \in Profiles : reservedVramBytes <= MaxAllowedVram(p)
  /\ \A i \in Inferences :
       /\ inference[i].phase \in {"reserved", "generating"} =>
            i \in activeReservations \/ aiShutdown = "done"
       /\ LET plan == inference[i].plan
          IN /\ plan.status # "none" => plan.gpu + plan.cpu = TotalLayers
             /\ plan.vram <= inference[i].freeVram /\ plan.ram <= inference[i].freeRam

(***************************************************************************)
(* ensureCapacity "Evicts least recently used models if total size exceeds *)
(* quota. Protects active models.": a model that an inference is           *)
(* generating with is not picked as a victim.                              *)
(***************************************************************************)
InUse == {inference[i].model : i \in {j \in Inferences : /\ inference[j].phase = "generating"
                                                        /\ inference[j].listed = "yes"}}
ActiveIsSpared ==
  [][\A a \in Acquisitions : acq[a].victims = <<>> => ToSet(acq'[a].victims) \cap InUse = {}]_<<cacheVars, aiVars>>

(***************************************************************************)
(* The local models as a whole: what is listed can be loaded, and what is  *)
(* loaded is accounted for (model-cache-manager.ts, resource-governor.ts). *)
(***************************************************************************)
ModelsAccounted == CatalogIsVerified /\ GovernorExact
=============================================================================
