---------------------------- MODULE ServiceProofs ----------------------------
(***************************************************************************)
(* Proofs about the services of the desktop agent: its lifecycle and IPC   *)
(* endpoint, its vault, its configuration, the link to the control plane,  *)
(* its updates, its state store, the telemetry spool, the notifications,   *)
(* the memory cache and the execution queue.  Each theorem holds for every *)
(* value of the constants.                                                 *)
(***************************************************************************)
EXTENDS AgentIpc, VaultClient, ConfigManager, ControlPlane, UpdateManager, StateStore,
        TelemetrySpool, MemoryCache, ExecutionQueue, SeqSelectionProofs, TLAPS

-----------------------------------------------------------------------------
(* The lifecycle.                                                          *)

LifecycleTypeOK ==
  /\ lifecycle \in {"STARTING", "READY", "DEGRADED", "STOPPING", "STOPPED", "FAILED"}
  /\ boot \in [Starts -> {"idle", "recovering", "registering", "saving", "opening", "services", "over"}]
  /\ halt \in [Stops -> {"idle", "draining", "closing", "leaving", "over"}]

LifecycleIInv == LifecycleTypeOK /\ TransitionsOwned

\* An error of start() never leaves the agent STARTING or STOPPING.
LEMMA StartCatchesStep ==
  ASSUME LifecycleIInv, NEW s \in Starts, StartCatches(s), UNCHANGED halt
  PROVE  LifecycleIInv'
  <1>1. lifecycle' \in {"FAILED", "STOPPED"}
    BY DEF StartCatches, Allowed, LifecycleIInv, LifecycleTypeOK
  <1> QED
    BY <1>1 DEF StartCatches, LifecycleIInv, LifecycleTypeOK, TransitionsOwned

\* Every step of the start and stop calls and of the heartbeat.
LEMMA LifecycleStep == LifecycleIInv /\ [LifecycleNext]_lifecycleVars => LifecycleIInv'
  <1> SUFFICES ASSUME LifecycleIInv, [LifecycleNext]_lifecycleVars
               PROVE  LifecycleIInv'
    OBVIOUS
  <1> USE DEF LifecycleIInv, LifecycleTypeOK
  <1>1. ASSUME NEW s \in Starts, Start(s) PROVE LifecycleIInv'
    BY <1>1 DEF Start, TransitionsOwned
  <1>2. ASSUME NEW s \in Starts, Identified(s) PROVE LifecycleIInv'
    BY <1>2, StartCatchesStep DEF Identified, TransitionsOwned
  <1>3. ASSUME NEW s \in Starts, Registered(s) PROVE LifecycleIInv'
    BY <1>3, StartCatchesStep DEF Registered, TransitionsOwned
  <1>4. ASSUME NEW s \in Starts, Saved(s) PROVE LifecycleIInv'
    BY <1>4, StartCatchesStep DEF Saved, TransitionsOwned
  <1>5. ASSUME NEW s \in Starts, Opened(s) PROVE LifecycleIInv'
    BY <1>5, StartCatchesStep DEF Opened, TransitionsOwned
  <1>6. ASSUME NEW s \in Starts, Served(s) PROVE LifecycleIInv'
    BY <1>6, StartCatchesStep DEF Served, TransitionsOwned
  <1>7. ASSUME NEW t \in Stops, Stop(t) PROVE LifecycleIInv'
    BY <1>7 DEF Stop, TransitionsOwned
  <1>8. ASSUME NEW t \in Stops, Drained(t) \/ Closed(t) PROVE LifecycleIInv'
    BY <1>8 DEF Drained, Closed, TransitionsOwned
  <1>9. ASSUME NEW t \in Stops, Left(t) PROVE LifecycleIInv'
    <2>1. lifecycle' \in {"STOPPED", "FAILED"}
      BY <1>9 DEF Left, Allowed
    <2> QED
      BY <1>9, <2>1 DEF Left, TransitionsOwned
  <1>10. CASE Beat \/ BeatFails \/ BeatOk
    BY <1>10 DEF Beat, BeatFails, BeatOk, TransitionsOwned
  <1>11. CASE UNCHANGED lifecycleVars
    BY <1>11 DEF lifecycleVars, TransitionsOwned
  <1> QED
    BY <1>1, <1>2, <1>3, <1>4, <1>5, <1>6, <1>7, <1>8, <1>9, <1>10, <1>11
    DEF LifecycleNext, StartStep, StopStep

\* Whatever start() and stop() calls run into each other, the agent is never
\* left STARTING or STOPPING without a call that takes it further.
THEOREM TransitionsAlwaysOwned == LifecycleSpec => []TransitionsOwned
  <1>1. LifecycleInit => LifecycleIInv
    BY DEF LifecycleInit, LifecycleIInv, LifecycleTypeOK, TransitionsOwned
  <1> QED
    BY <1>1, LifecycleStep, PTL DEF LifecycleSpec, LifecycleIInv

-----------------------------------------------------------------------------
(* The vault.                                                              *)

Given == {"payload", "expired", "zeroed"}

VaultTypeOK ==
  /\ activeSecrets \in [SecretRefs -> SecretCalls \cup {"none"}]
  /\ secretCall \in [SecretCalls ->
       [state : Given \cup {"idle", "validating", "denied"}, ref : SecretRefs \cup {"none"}]]
  /\ \A c \in SecretCalls : secretCall[c].state # "idle" => secretCall[c].ref \in SecretRefs
  /\ crowded \in BOOLEAN
  /\ IsFiniteSet(LeasedRefs)

\* A lease is of a call that was given the payload of its reference.
LeasesGiven ==
  \A r \in LeasedRefs : secretCall[activeSecrets[r]].ref = r /\ secretCall[activeSecrets[r]].state \in Given

\* A payload that is out has a revoked reference, or one that is leased and
\* redacted or known to be unmasked; the payloads that ended have revoked references.
PayloadsWatched ==
  /\ \A c \in SecretCalls : secretCall[c].state \in Given =>
       \/ secretCall[c].ref \in revokedRefs
       \/ secretCall[c].ref \in LeasedRefs /\ FingerprintOf[secretCall[c].ref] \in fingerprints \cup unmasked
  /\ \A c \in endedPayloads : c \in SecretCalls /\ secretCall[c].state \in Given /\ secretCall[c].ref \in revokedRefs
  /\ leaks = {}

\* As long as resolutions do not overlap there is room for the one under way.
RoomKept ==
  ~crowded =>
    /\ Cardinality(LeasedRefs) <= MaxActiveSecrets
    /\ \A c \in SecretCalls : secretCall[c].state = "validating" =>
         /\ Cardinality(LeasedRefs) < MaxActiveSecrets
         /\ \A d \in SecretCalls : secretCall[d].state = "validating" => d = c

VaultIInv == VaultTypeOK /\ LeasesGiven /\ PayloadsWatched /\ RoomKept

\* A resolution starts, or is refused at once.
LEMMA ResolveSecretStep ==
  ASSUME VaultIInv, NEW c \in SecretCalls, NEW r \in SecretRefs, ResolveSecret(c, r)
  PROVE  VaultIInv'
  <1> USE DEF VaultIInv
  <1> DEFINE accepted == r \notin revokedRefs /\ Cardinality(LeasedRefs) < MaxActiveSecrets
             new == [state |-> IF accepted THEN "validating" ELSE "denied", ref |-> r]
  <1>1. /\ secretCall[c].state = "idle" /\ secretCall' = [secretCall EXCEPT ![c] = new]
        /\ crowded' = (crowded \/ (accepted /\ \E d \in SecretCalls : secretCall[d].state = "validating"))
        /\ UNCHANGED <<activeSecrets, revokedRefs, fingerprints, endedPayloads, unmasked, leaks>>
    BY DEF ResolveSecret
  <1>2. LeasedRefs' = LeasedRefs
    BY <1>1 DEF LeasedRefs
  <1>3. new.state \in {"validating", "denied"} /\ new.ref = r /\ (new.state = "validating" => accepted)
    OBVIOUS
  <1> HIDE DEF new
  <1>4. /\ secretCall'[c] = new
        /\ \A d \in SecretCalls \ {c} : secretCall'[d] = secretCall[d]
    BY <1>1 DEF VaultTypeOK
  <1>5. crowded' \in BOOLEAN /\ (~crowded' => ~crowded /\ (accepted => \A d \in SecretCalls : secretCall[d].state # "validating"))
    BY <1>1 DEF VaultTypeOK
  <1>6. VaultTypeOK'
    <2>1. new \in [state : Given \cup {"idle", "validating", "denied"}, ref : SecretRefs \cup {"none"}]
      BY <1>3 DEF new
    <2> QED
      BY <1>1, <1>2, <1>3, <1>4, <1>5, <2>1 DEF VaultTypeOK
  <1>7. LeasesGiven'
    BY <1>1, <1>2, <1>4 DEF LeasesGiven, Given, LeasedRefs, VaultTypeOK
  <1>8. PayloadsWatched'
    BY <1>1, <1>2, <1>3, <1>4 DEF PayloadsWatched, Given
  <1>9. RoomKept'
    BY <1>2, <1>3, <1>4, <1>5 DEF RoomKept
  <1> QED
    BY <1>6, <1>7, <1>8, <1>9

\* A resolution comes back with a payload.
LEMMA SecretResolvedStep ==
  ASSUME VaultIInv, NEW c \in SecretCalls, SecretResolved(c)
  PROVE  VaultIInv'
  <1> USE VaultAssumption DEF VaultIInv
  <1> DEFINE r == secretCall[c].ref
  <1>1. /\ r \in SecretRefs /\ secretCall[c].state = "validating"
        /\ secretCall'[c].state = "payload" /\ secretCall'[c].ref = r
        /\ \A d \in SecretCalls \ {c} : secretCall'[d] = secretCall[d]
    BY DEF SecretResolved, VaultTypeOK
  <1>2. /\ activeSecrets'[r] = c
        /\ \A q \in SecretRefs \ {r} : activeSecrets'[q] = activeSecrets[q]
    BY <1>1 DEF SecretResolved, VaultTypeOK
  <1>3. LeasedRefs' = LeasedRefs \cup {r}
    BY <1>1, <1>2 DEF LeasedRefs
  <1>4. /\ IsFiniteSet(LeasedRefs') /\ Cardinality(LeasedRefs') <= Cardinality(LeasedRefs) + 1
        /\ Cardinality(LeasedRefs) \in Nat /\ Cardinality(LeasedRefs') \in Nat
    <2>1. /\ IsFiniteSet(LeasedRefs \cup {r})
          /\ Cardinality(LeasedRefs \cup {r}) = IF r \in LeasedRefs THEN Cardinality(LeasedRefs) ELSE Cardinality(LeasedRefs) + 1
      BY FS_AddElement DEF VaultTypeOK
    <2>2. Cardinality(LeasedRefs) \in Nat
      BY FS_CardinalityType DEF VaultTypeOK
    <2> QED
      BY <1>3, <2>1, <2>2
  <1>5. VaultTypeOK'
    BY <1>1, <1>4 DEF SecretResolved, VaultTypeOK, Given
  <1>6. LeasesGiven'
    <2> SUFFICES ASSUME NEW q \in LeasedRefs'
                 PROVE  secretCall'[activeSecrets'[q]].ref = q /\ secretCall'[activeSecrets'[q]].state \in Given
      BY DEF LeasesGiven
    <2>1. CASE q = r
      BY <2>1, <1>1, <1>2 DEF Given
    <2>2. CASE q # r
      <3>1. q \in LeasedRefs /\ activeSecrets'[q] = activeSecrets[q] /\ activeSecrets[q] \in SecretCalls
        BY <2>2, <1>2, <1>3 DEF LeasedRefs, VaultTypeOK
      <3> QED
        BY <3>1, <1>1 DEF LeasesGiven, Given
    <2> QED
      BY <2>1, <2>2
  <1>7. PayloadsWatched'
    <2>1. /\ fingerprints' = fingerprints \cup {FingerprintOf[r]}
          /\ unmasked' = unmasked \ {FingerprintOf[r]}
          /\ UNCHANGED <<revokedRefs, endedPayloads, leaks>>
      BY DEF SecretResolved
    <2> QED
      BY <1>1, <1>3, <2>1 DEF PayloadsWatched, Given
  <1>8. RoomKept'
    BY <1>1, <1>4 DEF RoomKept, SecretResolved, VaultTypeOK
  <1> QED
    BY <1>5, <1>6, <1>7, <1>8

\* A refusal, or the five minutes: one call changes its state.
LEMMA SecretStateStep ==
  ASSUME VaultIInv, NEW c \in SecretCalls, SecretDenied(c) \/ PayloadExpires(c)
  PROVE  VaultIInv'
  <1> USE DEF VaultIInv
  <1>1. /\ UNCHANGED <<activeSecrets, revokedRefs, fingerprints, endedPayloads, unmasked, leaks, crowded>>
        /\ LeasedRefs' = LeasedRefs
    BY DEF SecretDenied, PayloadExpires, LeasedRefs
  <1>2. /\ secretCall'[c].ref = secretCall[c].ref /\ secretCall[c].state # "idle"
        /\ secretCall'[c].state # "validating" /\ (secretCall'[c].state \in Given <=> secretCall[c].state \in Given)
        /\ \A d \in SecretCalls \ {c} : secretCall'[d] = secretCall[d]
    BY DEF SecretDenied, PayloadExpires, VaultTypeOK, Given
  <1>3. VaultTypeOK'
    BY <1>1, <1>2 DEF SecretDenied, PayloadExpires, VaultTypeOK, Given
  <1>4. LeasesGiven'
    BY <1>1, <1>2 DEF LeasesGiven, LeasedRefs, VaultTypeOK
  <1>5. PayloadsWatched'
    BY <1>1, <1>2 DEF PayloadsWatched
  <1>6. RoomKept'
    BY <1>1, <1>2 DEF RoomKept
  <1> QED
    BY <1>3, <1>4, <1>5, <1>6

\* Zeroing payloads that were given changes nothing but their state.
LEMMA ZeroizedStep ==
  ASSUME VaultIInv, NEW P, \A c \in P : c \in SecretCalls /\ secretCall[c].state \in Given,
         secretCall' = Zeroized(P)
  PROVE  /\ secretCall' \in [SecretCalls ->
               [state : Given \cup {"idle", "validating", "denied"}, ref : SecretRefs \cup {"none"}]]
         /\ \A c \in SecretCalls : /\ secretCall'[c].ref = secretCall[c].ref
                                   /\ secretCall'[c].state \in Given <=> secretCall[c].state \in Given
                                   /\ secretCall[c].state \notin Given => secretCall'[c] = secretCall[c]
  BY DEF Zeroized, VaultIInv, VaultTypeOK, Given

\* Payloads end: references are revoked and their leases go; any secrets are
\* no longer redacted.
LEMMA EndStep ==
  ASSUME VaultIInv, NEW R \in SUBSET SecretRefs,
         revokedRefs' = revokedRefs \cup R,
         activeSecrets' = [r \in SecretRefs |-> IF r \in R THEN "none" ELSE activeSecrets[r]],
         NEW F, Unregister(F),
         NEW P, \A c \in P : c \in SecretCalls /\ secretCall[c].state \in Given,
         secretCall' = Zeroized(P),
         NEW E, \A c \in E : c \in SecretCalls /\ secretCall[c].state \in Given /\ secretCall[c].ref \in revokedRefs \cup R,
         endedPayloads' = endedPayloads \cup E,
         UNCHANGED <<leaks, crowded>>
  PROVE  VaultIInv'
  <1> USE VaultAssumption DEF VaultIInv
  <1>1. /\ secretCall' \in [SecretCalls ->
              [state : Given \cup {"idle", "validating", "denied"}, ref : SecretRefs \cup {"none"}]]
        /\ \A c \in SecretCalls : /\ secretCall'[c].ref = secretCall[c].ref
                                  /\ secretCall'[c].state \in Given <=> secretCall[c].state \in Given
                                  /\ secretCall[c].state \notin Given => secretCall'[c] = secretCall[c]
    BY ZeroizedStep
  <1>2. LeasedRefs' = LeasedRefs \ R
    BY DEF LeasedRefs
  <1>3. /\ IsFiniteSet(LeasedRefs') /\ Cardinality(LeasedRefs') <= Cardinality(LeasedRefs)
        /\ Cardinality(LeasedRefs) \in Nat /\ Cardinality(LeasedRefs') \in Nat
    <2>1. LeasedRefs' \in SUBSET LeasedRefs
      BY <1>2
    <2> QED
      BY <2>1, FS_Subset, FS_CardinalityType DEF VaultTypeOK
  <1>4. VaultTypeOK'
    <2>1. \A c \in SecretCalls : secretCall'[c].state # "idle" => secretCall'[c].ref \in SecretRefs
      BY <1>1 DEF VaultTypeOK, Given
    <2> QED
      BY <1>1, <1>3, <2>1 DEF VaultTypeOK
  <1>5. LeasesGiven'
    BY <1>1, <1>2 DEF LeasesGiven, LeasedRefs, VaultTypeOK
  <1>6. PayloadsWatched'
    <2>1. ASSUME NEW c \in SecretCalls, secretCall'[c].state \in Given, secretCall'[c].ref \notin revokedRefs'
          PROVE  secretCall'[c].ref \in LeasedRefs' /\ FingerprintOf[secretCall'[c].ref] \in fingerprints' \cup unmasked'
      <3>1. /\ secretCall[c].ref \in LeasedRefs \ R /\ secretCall[c].ref \in SecretRefs
            /\ FingerprintOf[secretCall[c].ref] \in fingerprints \cup unmasked
        BY <1>1, <2>1 DEF PayloadsWatched, LeasedRefs
      <3>2. secretCall[c].ref \in SecretRefs \ revokedRefs'
        BY <1>1, <2>1, <3>1
      <3>3. FingerprintOf[secretCall[c].ref] \in fingerprints' \cup unmasked'
        BY <3>1, <3>2 DEF Unregister
      <3> QED
        BY <1>1, <1>2, <3>1, <3>3
    <2> QED
      BY <1>1, <2>1 DEF PayloadsWatched
  <1>7. RoomKept'
    <2>1. \A c \in SecretCalls : secretCall'[c].state = "validating" <=> secretCall[c].state = "validating"
      BY <1>1 DEF Given
    <2> QED
      BY <1>3, <2>1 DEF RoomKept
  <1> QED
    BY <1>4, <1>5, <1>6, <1>7

\* Every call, revocation and shutdown.
LEMMA VaultStep == VaultIInv /\ [VaultNext]_vaultVars => VaultIInv'
  <1> SUFFICES ASSUME VaultIInv, [VaultNext]_vaultVars
               PROVE  VaultIInv'
    OBVIOUS
  <1>1. CASE VaultShutdown
    <2> DEFINE P == {activeSecrets[r] : r \in LeasedRefs}
               F == {FingerprintOf[r] : r \in LeasedRefs}
               E == PayloadsOf(SecretRefs)
    <2>1. LeasedRefs \in SUBSET SecretRefs
      BY DEF LeasedRefs
    <2>2. activeSecrets' = [r \in SecretRefs |-> IF r \in LeasedRefs THEN "none" ELSE activeSecrets[r]]
      BY <1>1 DEF VaultShutdown, LeasedRefs
    <2>3. \A c \in P : c \in SecretCalls /\ secretCall[c].state \in Given
      BY DEF VaultIInv, VaultTypeOK, LeasesGiven, LeasedRefs
    <2>4. \A c \in E : c \in SecretCalls /\ secretCall[c].state \in Given /\ secretCall[c].ref \in revokedRefs \cup LeasedRefs
      BY DEF PayloadsOf, VaultIInv, PayloadsWatched, Given
    <2>5. /\ secretCall' = Zeroized(P) /\ Unregister(F)
          /\ revokedRefs' = revokedRefs \cup LeasedRefs /\ endedPayloads' = endedPayloads \cup E
          /\ UNCHANGED <<leaks, crowded>>
      BY <1>1 DEF VaultShutdown
    <2> HIDE DEF P, E, F
    <2> QED
      BY <2>1, <2>2, <2>3, <2>4, <2>5, EndStep
  <1>2. ASSUME NEW r \in SecretRefs, NEW given \in SUBSET PayloadsOf(SecretRefs), RevokeSecret(r, given)
        PROVE  VaultIInv'
    <2> DEFINE F == {FingerprintOf[secretCall[c].ref] : c \in given}
               E == PayloadsOf({r})
    <2>1. activeSecrets' = [q \in SecretRefs |-> IF q \in {r} THEN "none" ELSE activeSecrets[q]]
      BY <1>2 DEF RevokeSecret, VaultIInv, VaultTypeOK
    <2>2. Unregister(F)
      BY <1>2 DEF RevokeSecret
    <2>3. \A c \in E : c \in SecretCalls /\ secretCall[c].state \in Given /\ secretCall[c].ref \in revokedRefs \cup {r}
      BY DEF PayloadsOf, Given
    <2>4. \A c \in given : c \in SecretCalls /\ secretCall[c].state \in Given
      BY DEF PayloadsOf, Given
    <2>5. /\ secretCall' = Zeroized(given) /\ revokedRefs' = revokedRefs \cup {r}
          /\ endedPayloads' = endedPayloads \cup E /\ UNCHANGED <<leaks, crowded>>
      BY <1>2 DEF RevokeSecret
    <2>6. {r} \in SUBSET SecretRefs
      OBVIOUS
    <2> HIDE DEF E, F
    <2> QED
      BY <2>1, <2>2, <2>3, <2>4, <2>5, <2>6, EndStep
  <1>3. ASSUME NEW c \in SecretCalls, InjectSecret(c) PROVE VaultIInv'
    <2>1. leaks' = leaks
      BY <1>3 DEF InjectSecret, AssertPayloadValid, VaultIInv, PayloadsWatched, Given
    <2>2. LeasedRefs' = LeasedRefs
      BY <1>3 DEF InjectSecret, LeasedRefs
    <2> QED
      BY <1>3, <2>1, <2>2 DEF InjectSecret, VaultIInv, VaultTypeOK, LeasesGiven, PayloadsWatched, RoomKept
  <1>4. CASE UNCHANGED vaultVars
    <2>1. LeasedRefs' = LeasedRefs
      BY <1>4 DEF vaultVars, LeasedRefs
    <2> QED
      BY <1>4, <2>1 DEF vaultVars, VaultIInv, VaultTypeOK, LeasesGiven, PayloadsWatched, RoomKept
  <1> QED
    BY <1>1, <1>2, <1>3, <1>4, ResolveSecretStep, SecretResolvedStep, SecretStateStep DEF VaultNext, InjectFabricated

\* No secret that ended is injected, and none that is not redacted unless the end
\* of another reference unmasked it, whatever was revoked (with whatever payload),
\* displaced or shut down while resolutions were under way.
THEOREM SecretsAlwaysEnd == VaultSpec => []SecretsEnd
  <1>1. VaultInit => VaultIInv
    <2> SUFFICES ASSUME VaultInit PROVE VaultIInv
      OBVIOUS
    <2>1. LeasedRefs = {}
      BY DEF VaultInit, LeasedRefs
    <2>2. VaultTypeOK
      BY <2>1, FS_EmptySet DEF VaultInit, VaultTypeOK, NoSecretCall
    <2>3. PayloadsWatched
      BY DEF VaultInit, PayloadsWatched, NoSecretCall, Given
    <2>4. RoomKept
      BY <2>1, FS_EmptySet, VaultAssumption DEF VaultInit, RoomKept, NoSecretCall
    <2> QED
      BY <2>1, <2>2, <2>3, <2>4 DEF VaultIInv, LeasesGiven
  <1>2. VaultIInv => SecretsEnd
    BY DEF VaultIInv, PayloadsWatched, RoomKept, SecretsEnd
  <1> QED
    BY <1>1, <1>2, VaultStep, PTL DEF VaultSpec

-----------------------------------------------------------------------------
(* The configuration.                                                      *)

Layers == DOMAIN Level
Configs == [layer : Layers, revision : Nat, settings : [Settings -> ConfigCalls \cup {"shipped"}]]
ConfigCallRecord ==
  [phase : {"idle", "verifying", "applied", "rejected"}, layer : Layers \cup {"none"},
   setting : Settings \cup {"none"}, revision : EnvelopeRevisions \cup {0}, read : Configs]

\* A call that verifies or is applied has the layer and the setting of its update.
ConfigTypeOK ==
  /\ activeConfig \in Configs
  /\ configCall \in [ConfigCalls -> ConfigCallRecord]
  /\ \A c \in ConfigCalls : configCall[c].phase \in {"verifying", "applied"} =>
                              configCall[c].layer \in Layers /\ configCall[c].setting \in Settings
  /\ appliedUpdates \in Seq(ConfigCalls)
  /\ \A i \in 1 .. Len(appliedUpdates) : configCall[appliedUpdates[i]].phase = "applied"
  /\ overtaken \in BOOLEAN

ConfigsAgree == activeConfig = lkgConfig /\ observedConfig = activeConfig

\* The layer of the last update is that of the configuration: it decides
\* whether the next one is merged.
LayerIsLast ==
  activeConfig.layer = IF Len(appliedUpdates) = 0 THEN "IMMUTABLE_SHIPPED_DEFAULTS"
                       ELSE configCall[appliedUpdates[Len(appliedUpdates)]].layer

SettingIsLast(s) ==
  \/ \E i \in 1 .. Len(appliedUpdates) : Wins(i, s) /\ activeConfig.settings[s] = appliedUpdates[i]
  \/ (\A i \in 1 .. Len(appliedUpdates) : ~Wins(i, s)) /\ activeConfig.settings[s] = "shipped"

UpdatesSerial ==
  ~overtaken => /\ activeConfig.revision = 1 + Len(appliedUpdates)
                /\ LayerIsLast
                /\ \A s \in Settings : SettingIsLast(s)

ConfigIInv == ConfigTypeOK /\ ConfigsAgree /\ UpdatesSerial

\* The layers are ordered by natural numbers, the shipped defaults lowest.
LEMMA LevelIsNat ==
  /\ \A l \in Layers : Level[l] \in Nat
  /\ "IMMUTABLE_SHIPPED_DEFAULTS" \in Layers /\ Level["IMMUTABLE_SHIPPED_DEFAULTS"] = 1
  BY DEF Layers, Level

\* As long as the applied calls stay as they are, so does which of them wins.
LEMMA WinsUnchanged ==
  ASSUME ConfigTypeOK, UNCHANGED appliedUpdates,
         \A c \in ConfigCalls : configCall[c].phase = "applied" => configCall'[c] = configCall[c]
  PROVE  /\ \A i \in 1 .. Len(appliedUpdates), s \in Settings : Wins(i, s)' <=> Wins(i, s)
         /\ \A i \in 1 .. Len(appliedUpdates) : configCall'[appliedUpdates'[i]] = configCall[appliedUpdates[i]]
  <1>1. \A i \in 1 .. Len(appliedUpdates) : configCall'[appliedUpdates'[i]] = configCall[appliedUpdates[i]]
    BY DEF ConfigTypeOK
  <1>2. Len(appliedUpdates) \in Nat
    BY DEF ConfigTypeOK
  <1>3. \A i \in 1 .. Len(appliedUpdates) : TakesEffect(i)' <=> TakesEffect(i)
    BY <1>1, <1>2 DEF TakesEffect
  <1> QED
    BY <1>1, <1>2, <1>3 DEF Wins

\* A step of a call that applies nothing.
LEMMA ConfigCallStep ==
  ASSUME ConfigIInv, configCall' \in [ConfigCalls -> ConfigCallRecord],
         \A c \in ConfigCalls : configCall'[c].phase \in {"verifying", "applied"} =>
                                  configCall'[c].layer \in Layers /\ configCall'[c].setting \in Settings,
         \A c \in ConfigCalls : configCall[c].phase = "applied" => configCall'[c] = configCall[c],
         UNCHANGED <<activeConfig, lkgConfig, observedConfig, appliedUpdates, overtaken>>
  PROVE  ConfigIInv'
  <1>1. /\ \A i \in 1 .. Len(appliedUpdates), s \in Settings : Wins(i, s)' <=> Wins(i, s)
        /\ \A i \in 1 .. Len(appliedUpdates) : configCall'[appliedUpdates'[i]] = configCall[appliedUpdates[i]]
        /\ Len(appliedUpdates) \in Nat
    BY WinsUnchanged DEF ConfigIInv, ConfigTypeOK
  <1>2. ConfigTypeOK'
    BY <1>1 DEF ConfigIInv, ConfigTypeOK
  <1>3. LayerIsLast => LayerIsLast'
    BY <1>1 DEF LayerIsLast
  <1>4. \A s \in Settings : SettingIsLast(s) => SettingIsLast(s)'
    BY <1>1 DEF SettingIsLast
  <1> QED
    BY <1>2, <1>3, <1>4 DEF ConfigIInv, ConfigsAgree, UpdatesSerial

\* An update is applied: it is the last one, and it wins its setting if its
\* layer is not below the layer applied before.
LEMMA ApplyStep ==
  ASSUME ConfigIInv, NEW c \in ConfigCalls, NEW entry \in ConfigCallRecord, configCall[c].phase # "applied",
         entry.layer \in Layers, entry.setting \in Settings, ApplySnapshot(c, entry)
  PROVE  ConfigIInv'
  <1> USE DEF ConfigIInv
  <1>0. PICK n \in Nat : n = Len(appliedUpdates)
    BY DEF ConfigTypeOK
  <1> DEFINE merged == Level[entry.layer] >= Level[entry.read.layer]
  <1>1. /\ appliedUpdates \in Seq(ConfigCalls) /\ n \in Nat /\ n = Len(appliedUpdates)
        /\ appliedUpdates' \in Seq(ConfigCalls) /\ Len(appliedUpdates') = n + 1
        /\ appliedUpdates'[n + 1] = c
        /\ \A i \in 1 .. n : appliedUpdates'[i] = appliedUpdates[i] /\ appliedUpdates[i] \in ConfigCalls
    BY <1>0 DEF ApplySnapshot, ConfigTypeOK
  <1>2. /\ configCall' \in [ConfigCalls -> ConfigCallRecord]
        /\ configCall'[c].phase = "applied" /\ configCall'[c].layer = entry.layer /\ configCall'[c].setting = entry.setting
        /\ \A d \in ConfigCalls \ {c} : configCall'[d] = configCall[d]
    BY DEF ApplySnapshot, ConfigTypeOK, ConfigCallRecord
  <1>3. \A i \in 1 .. n : configCall'[appliedUpdates'[i]] = configCall[appliedUpdates[i]]
                          /\ configCall[appliedUpdates[i]].phase = "applied"
    BY <1>1, <1>2 DEF ConfigTypeOK
  <1>4. entry.read \in Configs /\ ResolvePrecedence(c, entry) \in [Settings -> ConfigCalls \cup {"shipped"}]
    BY DEF ConfigCallRecord, Configs, ResolvePrecedence
  <1>5. /\ activeConfig' \in Configs /\ activeConfig'.layer = entry.layer
        /\ activeConfig'.revision = entry.read.revision + 1
        /\ activeConfig'.settings = ResolvePrecedence(c, entry)
    BY <1>4 DEF ApplySnapshot, Configs
  <1>6. ConfigTypeOK'
    <2>1. \A i \in 1 .. n + 1 : configCall'[appliedUpdates'[i]].phase = "applied"
      <3> SUFFICES ASSUME NEW i \in 1 .. n + 1 PROVE configCall'[appliedUpdates'[i]].phase = "applied"
        OBVIOUS
      <3>1. i = n + 1 \/ i \in 1 .. n
        BY <1>1
      <3> QED
        BY <1>1, <1>2, <1>3, <3>1
    <2>2. overtaken' \in BOOLEAN
      BY DEF ApplySnapshot, ConfigTypeOK
    <2>3. \A d \in ConfigCalls : configCall'[d].phase \in {"verifying", "applied"} =>
                                configCall'[d].layer \in Layers /\ configCall'[d].setting \in Settings
      BY <1>2 DEF ConfigTypeOK
    <2> QED
      BY <1>1, <1>2, <1>5, <2>1, <2>2, <2>3 DEF ConfigTypeOK
  <1>7. ConfigsAgree'
    BY DEF ApplySnapshot, ConfigsAgree
  <1>8. ASSUME ~overtaken'
        PROVE  /\ activeConfig'.revision = 1 + Len(appliedUpdates')
               /\ LayerIsLast'
               /\ \A s \in Settings : SettingIsLast(s)'
    <2>1. ~overtaken /\ entry.read = activeConfig
      BY <1>8 DEF ApplySnapshot, ConfigTypeOK
    <2>2. activeConfig.revision = 1 + n /\ LayerIsLast
      BY <1>1, <2>1 DEF UpdatesSerial
    <2>3. LayerIsLast'
      BY <1>1, <1>2, <1>5 DEF LayerIsLast
    <2>4. TakesEffect(n + 1)' <=> merged
      <3>1. CASE n = 0
        BY <1>1, <1>2, <2>1, <2>2, <3>1, LevelIsNat DEF TakesEffect, LayerIsLast
      <3>2. CASE n # 0
        <4>1. n \in 1 .. n /\ n + 1 # 1 /\ (n + 1) - 1 = n
          BY <1>1, <3>2
        <4>2. configCall'[appliedUpdates'[(n + 1) - 1]].layer = activeConfig.layer
          BY <1>1, <1>3, <2>2, <3>2, <4>1 DEF LayerIsLast
        <4> QED
          BY <1>1, <1>2, <2>1, <4>1, <4>2 DEF TakesEffect
      <3> QED
        BY <3>1, <3>2
    <2>5. \A i \in 1 .. n : TakesEffect(i)' <=> TakesEffect(i)
      BY <1>1, <1>3 DEF TakesEffect
    <2> HIDE DEF merged
    <2>6. ASSUME NEW s \in Settings
          PROVE  /\ Wins(n + 1, s)' <=> (merged /\ s = entry.setting)
                 /\ \A i \in 1 .. n : Wins(i, s)' <=> Wins(i, s) /\ ~(merged /\ s = entry.setting)
      <3>1. Wins(n + 1, s)' <=> (merged /\ s = entry.setting)
        <4>1. (n + 1) + 1 .. Len(appliedUpdates') = {}
          BY <1>1
        <4> QED
          BY <1>1, <1>2, <2>4, <4>1 DEF Wins
      <3>2. ASSUME NEW i \in 1 .. n
            PROVE  Wins(i, s)' <=> Wins(i, s) /\ ~(merged /\ s = entry.setting)
        <4>1. i + 1 .. Len(appliedUpdates') = (i + 1 .. n) \cup {n + 1}
          BY <1>1
        <4>2. \A j \in i + 1 .. n : j \in 1 .. n
          BY <1>1
        <4>3. \A j \in i + 1 .. n : /\ TakesEffect(j)' <=> TakesEffect(j)
                                    /\ configCall'[appliedUpdates'[j]].setting = configCall[appliedUpdates[j]].setting
          BY <1>3, <2>5, <4>2
        <4>4. Wins(i, s)' <=> /\ TakesEffect(i) /\ configCall[appliedUpdates[i]].setting = s
                              /\ \A j \in i + 1 .. n : TakesEffect(j) => configCall[appliedUpdates[j]].setting # s
                              /\ merged => entry.setting # s
          BY <1>1, <1>2, <1>3, <2>4, <2>5, <4>1, <4>3 DEF Wins
        <4> QED
          BY <1>1, <4>4 DEF Wins
      <3> QED
        BY <3>1, <3>2
    <2>7. ASSUME NEW s \in Settings PROVE SettingIsLast(s)'
      <3>1. /\ activeConfig'.settings[s] = IF merged /\ s = entry.setting THEN c ELSE activeConfig.settings[s]
        BY <1>5, <2>1 DEF ResolvePrecedence, merged, ConfigTypeOK, Configs
      <3>2. 1 .. Len(appliedUpdates') = (1 .. n) \cup {n + 1}
        BY <1>1
      <3>3. CASE merged /\ s = entry.setting
        BY <1>1, <2>6, <3>1, <3>2, <3>3 DEF SettingIsLast
      <3>4. CASE ~(merged /\ s = entry.setting)
        BY <1>1, <2>1, <2>6, <3>1, <3>2, <3>4 DEF SettingIsLast, UpdatesSerial
      <3> QED
        BY <3>3, <3>4
    <2> QED
      BY <1>1, <1>5, <2>1, <2>2, <2>3, <2>7
  <1> QED
    BY <1>6, <1>7, <1>8 DEF UpdatesSerial

\* Every update, rejection and rollback.
LEMMA ConfigStep == ConfigIInv /\ [ConfigNext]_configVars => ConfigIInv'
  <1> SUFFICES ASSUME ConfigIInv, [ConfigNext]_configVars
               PROVE  ConfigIInv'
    OBVIOUS
  <1> USE DEF ConfigIInv
  <1>1. ASSUME NEW c \in ConfigCalls, configCall[c].phase \in {"idle", "verifying"}, RejectUpdate(c)
        PROVE  ConfigIInv'
    <2>1. /\ [NoConfigCall EXCEPT !.phase = "rejected"] \in ConfigCallRecord
          /\ [NoConfigCall EXCEPT !.phase = "rejected"].phase = "rejected"
      BY LevelIsNat DEF NoConfigCall, ConfigCallRecord, Shipped, Configs
    <2>2. /\ configCall' \in [ConfigCalls -> ConfigCallRecord]
          /\ configCall'[c].phase = "rejected"
          /\ \A d \in ConfigCalls \ {c} : configCall'[d] = configCall[d]
      BY <1>1, <2>1 DEF RejectUpdate, ConfigTypeOK
    <2> QED
      BY <1>1, <2>2, ConfigCallStep DEF RejectUpdate, ConfigTypeOK
  <1>2. ASSUME NEW c \in ConfigCalls, NEW layer \in DOMAIN Level, NEW s \in Settings, ApplyUnsigned(c, layer, s)
        PROVE  ConfigIInv'
    <2> DEFINE entry == [phase |-> "idle", layer |-> layer, setting |-> s, revision |-> 0, read |-> activeConfig]
    <2>1. entry \in ConfigCallRecord /\ entry.layer \in Layers /\ entry.setting \in Settings
      BY DEF ConfigCallRecord, Layers, ConfigTypeOK
    <2>2. ApplySnapshot(c, entry) /\ configCall[c].phase # "applied"
      BY <1>2 DEF ApplyUnsigned
    <2> HIDE DEF entry
    <2> QED
      BY <2>1, <2>2, ApplyStep
  <1>3. ASSUME NEW c \in ConfigCalls, NEW layer \in DOMAIN Level, NEW s \in Settings,
               NEW r \in EnvelopeRevisions, ApplySigned(c, layer, s, r)
        PROVE  ConfigIInv'
    <2> DEFINE entry == [phase |-> "verifying", layer |-> layer, setting |-> s, revision |-> r, read |-> activeConfig]
    <2>1. entry \in ConfigCallRecord /\ entry.layer \in Layers /\ entry.setting \in Settings
      BY DEF ConfigCallRecord, Layers, ConfigTypeOK
    <2>2. /\ configCall' = [configCall EXCEPT ![c] = entry] /\ configCall[c].phase = "idle"
          /\ UNCHANGED <<activeConfig, lkgConfig, observedConfig, appliedUpdates, overtaken>>
      BY <1>3 DEF ApplySigned
    <2> HIDE DEF entry
    <2>3. /\ configCall' \in [ConfigCalls -> ConfigCallRecord]
          /\ configCall'[c] = entry
          /\ \A d \in ConfigCalls \ {c} : configCall'[d] = configCall[d]
      BY <2>1, <2>2 DEF ConfigTypeOK
    <2> QED
      BY <2>1, <2>2, <2>3, ConfigCallStep DEF ConfigTypeOK
  <1>4. ASSUME NEW c \in ConfigCalls, SignatureVerified(c) PROVE ConfigIInv'
    BY <1>4, ApplyStep DEF SignatureVerified, ConfigTypeOK
  <1>5. CASE RollbackToLKG
    <2>1. UNCHANGED <<activeConfig, lkgConfig, observedConfig, configCall, appliedUpdates, overtaken>>
      BY <1>5 DEF RollbackToLKG, ConfigsAgree
    <2> QED
      BY <2>1, ConfigCallStep DEF ConfigTypeOK
  <1>6. CASE UNCHANGED configVars
    BY <1>6, ConfigCallStep DEF configVars, ConfigTypeOK
  <1> QED
    BY <1>1, <1>2, <1>3, <1>4, <1>5, <1>6 DEF ConfigNext, ValidationFails, SignatureFails, RevisionReplayed

\* Observers, the active configuration and the last known good one agree, and
\* as long as no update overtook another every setting is that of the last
\* update that took effect.
THEOREM ConfigAlwaysSerial == ConfigSpec => []ConfigIsSerial
  <1>1. ConfigInit => ConfigIInv
    <2> SUFFICES ASSUME ConfigInit PROVE ConfigIInv
      OBVIOUS
    <2>1. Shipped \in Configs /\ NoConfigCall \in ConfigCallRecord
      BY LevelIsNat DEF Shipped, Configs, NoConfigCall, ConfigCallRecord
    <2>2. appliedUpdates = <<>> /\ Len(appliedUpdates) = 0 /\ appliedUpdates \in Seq(ConfigCalls)
      BY DEF ConfigInit
    <2>3. ConfigTypeOK
      <3>1. 1 .. Len(appliedUpdates) = {} /\ NoConfigCall.phase = "idle"
        BY <2>2 DEF NoConfigCall
      <3> QED
        BY <2>1, <2>2, <3>1 DEF ConfigInit, ConfigTypeOK
    <2>4. UpdatesSerial
      BY <2>2 DEF ConfigInit, UpdatesSerial, LayerIsLast, SettingIsLast, Shipped
    <2> QED
      BY <2>3, <2>4 DEF ConfigInit, ConfigIInv, ConfigsAgree
  <1>2. ConfigIInv => ConfigIsSerial
    <2> SUFFICES ASSUME ConfigIInv PROVE ConfigIsSerial
      OBVIOUS
    <2>1. DOMAIN appliedUpdates = 1 .. Len(appliedUpdates)
      BY DEF ConfigIInv, ConfigTypeOK
    <2> QED
      BY <2>1 DEF ConfigIInv, ConfigsAgree, UpdatesSerial, SettingIsLast, ConfigIsSerial
  <1> QED
    BY <1>1, <1>2, ConfigStep, PTL DEF ConfigSpec

-----------------------------------------------------------------------------
(* The link to the control plane: the connection, the relays and the       *)
(* commands each have a part of the invariant.                             *)

Reviving == {"connecting", "identifying", "registering"}
SpoolEvents == LinkEvents \cup {RejectionEvent}
StartCalls == [LinkStarts -> [phase : Reviving \cup {"idle", "draining"}, left : SUBSET SpoolEvents]]

LinkTypeOK ==
  /\ startCall \in StartCalls /\ eventSpool \subseteq SpoolEvents
  /\ linked \in BOOLEAN /\ reconnectTimer \in BOOLEAN /\ released \in BOOLEAN /\ cutOff \in BOOLEAN

\* A start that is past its connection has a transport, and so has a link
\* that is active, unless the transport closed under a start.
LinkWatched ==
  /\ ~cutOff => \A s \in LinkStarts : startCall[s].phase \in {"identifying", "registering"} => linked
  /\ ~cutOff /\ connState = "CONNECTED_ACTIVE" => linked
  /\ ~released /\ ~cutOff /\ ~reconnectTimer /\ (\A s \in LinkStarts : startCall[s].phase \notin Reviving) =>
       connState \in {"UNPAIRED", "REGISTERING", "CONNECTED_ACTIVE"}

\* A relay that is about to delete its record has sent the event.
RelaysKept ==
  /\ relay \in [LinkEvents \cup LinkStarts ->
       [phase : {"idle", "storing", "sending", "deleting", "over"}, event : SpoolEvents \cup {"none"}]]
  /\ \A x \in LinkEvents \cup LinkStarts :
       /\ relay[x].phase = "storing" => relay[x].event \in SpoolEvents
       /\ relay[x].phase = "deleting" => relay[x].event \in received
  /\ relayed \subseteq eventRecords \cup received

\* A command that awaits its lease is the only one of its identifier, has not
\* run, and its identifier is remembered and not stale.
CommandsOnce ==
  /\ dispatched \in [Frames -> Nat]
  /\ delivery \in [FrameDeliveries -> [phase : {"idle", "leasing", "dispatched", "refused"}, frame : Frames \cup {"none"}]]
  /\ \A f \in Frames : dispatched[f] <= 1
  /\ \A d \in FrameDeliveries : delivery[d].phase = "leasing" =>
       /\ delivery[d].frame \in Frames /\ delivery[d].frame \in processed \ staleIds
       /\ dispatched[delivery[d].frame] = 0
       /\ \A e \in FrameDeliveries : delivery[e].phase = "leasing" /\ delivery[e].frame = delivery[d].frame => e = d

ControlIInv == LinkTypeOK /\ LinkWatched /\ RelaysKept /\ CommandsOnce

\* A start call moves on, the spool and the other calls stay.
LEMMA StartMovesStep ==
  ASSUME LinkTypeOK, NEW s \in LinkStarts, NEW phase \in Reviving, StartMoves(s, phase)
  PROVE  /\ startCall' \in StartCalls /\ startCall'[s].phase = phase
         /\ \A t \in LinkStarts \ {s} : startCall'[t] = startCall[t]
  BY DEF LinkTypeOK, StartCalls, StartMoves

\* A start that failed is idle again, and the timer will call another.
LEMMA StartCatchStep ==
  ASSUME LinkTypeOK, LinkWatched, NEW s \in LinkStarts, StartCatch(s), UNCHANGED <<linked, released, cutOff, eventSpool>>
  PROVE  LinkTypeOK' /\ LinkWatched'
  <1>1. NoStart \in [phase : Reviving \cup {"idle", "draining"}, left : SUBSET SpoolEvents] /\ NoStart.phase = "idle"
    BY DEF NoStart
  <1>2. startCall' \in StartCalls /\ startCall'[s].phase = "idle" /\ \A t \in LinkStarts \ {s} : startCall'[t] = startCall[t]
    BY <1>1 DEF StartCatch, LinkTypeOK, StartCalls
  <1> QED
    BY <1>2 DEF StartCatch, LinkTypeOK, LinkWatched

\* The steps of a start() call up to the registration.
LEMMA LinkStartStep ==
  ASSUME LinkTypeOK, LinkWatched, NEW s \in LinkStarts,
         StartLink(s) \/ ReconnectFires(s) \/ TransportConnects(s) \/ IdentityFound(s) \/ StartFails(s)
  PROVE  LinkTypeOK' /\ LinkWatched' /\ UNCHANGED <<relayVars, commandVars>>
  <1>1. ASSUME BeginsStart(s), UNCHANGED <<linked, cutOff, eventSpool>>, released' \in BOOLEAN,
               reconnectTimer' \in BOOLEAN
        PROVE  LinkTypeOK' /\ LinkWatched'
    <2>1. CASE connState = "CONNECTED_ACTIVE"
      BY <1>1, <2>1 DEF BeginsStart, LinkTypeOK, LinkWatched
    <2>2. CASE connState # "CONNECTED_ACTIVE"
      <3>1. /\ startCall' \in StartCalls /\ startCall'[s].phase = "connecting" /\ connState' = "CONNECTING"
            /\ \A t \in LinkStarts \ {s} : startCall'[t] = startCall[t]
        BY <1>1, <2>2, StartMovesStep DEF BeginsStart, Reviving
      <3> QED
        BY <1>1, <3>1 DEF LinkTypeOK, LinkWatched, Reviving
    <2> QED
      BY <2>1, <2>2
  <1>2. CASE StartLink(s) \/ ReconnectFires(s)
    BY <1>1, <1>2 DEF StartLink, ReconnectFires, relayVars, LinkTypeOK
  <1>3. CASE TransportConnects(s)
    <2>1. /\ startCall' \in StartCalls /\ startCall'[s].phase = "identifying"
          /\ \A t \in LinkStarts \ {s} : startCall'[t] = startCall[t]
      BY <1>3, StartMovesStep DEF TransportConnects, Reviving
    <2> QED
      BY <1>3, <2>1 DEF TransportConnects, relayVars, LinkTypeOK, LinkWatched, Reviving
  <1>4. CASE IdentityFound(s)
    <2>1. /\ startCall' \in StartCalls /\ startCall'[s].phase = "registering"
          /\ \A t \in LinkStarts \ {s} : startCall'[t] = startCall[t]
      BY <1>4, StartMovesStep DEF IdentityFound, Reviving
    <2> QED
      BY <1>4, <2>1 DEF IdentityFound, relayVars, LinkTypeOK, LinkWatched, Reviving
  <1>5. CASE StartFails(s)
    BY <1>5, StartCatchStep DEF StartFails, relayVars
  <1> QED
    BY <1>2, <1>3, <1>4, <1>5

\* The registration and the draining of the spool.
LEMMA DrainStep ==
  ASSUME LinkTypeOK, LinkWatched, RelaysKept, NEW s \in LinkStarts,
         RegistrationEnds(s) \/ DrainNext(s) \/ DrainEnds(s)
  PROVE  LinkTypeOK' /\ LinkWatched' /\ RelaysKept' /\ UNCHANGED commandVars
  <1>1. CASE RegistrationEnds(s)
    <2>1. PICK batch \in SUBSET eventSpool :
             /\ startCall' = [startCall EXCEPT ![s] = [phase |-> "draining", left |-> batch]]
             /\ eventSpool' = eventSpool \ batch
      BY <1>1 DEF RegistrationEnds
    <2>2. [phase |-> "draining", left |-> batch] \in [phase : Reviving \cup {"idle", "draining"}, left : SUBSET SpoolEvents]
      BY DEF LinkTypeOK
    <2>3. startCall' \in StartCalls /\ startCall'[s].phase = "draining" /\ \A t \in LinkStarts \ {s} : startCall'[t] = startCall[t]
      BY <1>1, <2>1, <2>2 DEF RegistrationEnds, LinkTypeOK, StartCalls
    <2>4. ~cutOff => linked
      BY <1>1 DEF RegistrationEnds, LinkWatched
    <2> QED
      BY <1>1, <2>1, <2>3, <2>4 DEF RegistrationEnds, LinkTypeOK, LinkWatched, RelaysKept
  <1>2. CASE DrainNext(s)
    <2>1. PICK e \in startCall[s].left :
            /\ relay' = [relay EXCEPT ![s] = [phase |-> "storing", event |-> e]]
            /\ startCall' = [startCall EXCEPT ![s].left = @ \ {e}]
      BY <1>2 DEF DrainNext
    <2>2. /\ startCall' \in StartCalls /\ e \in SpoolEvents
          /\ \A t \in LinkStarts : startCall'[t].phase = startCall[t].phase
      BY <2>1 DEF LinkTypeOK, StartCalls
    <2>3. RelaysKept'
      BY <1>2, <2>1, <2>2 DEF DrainNext, RelaysKept
    <2> QED
      BY <1>2, <2>2, <2>3 DEF DrainNext, LinkTypeOK, LinkWatched
  <1>3. CASE DrainEnds(s)
    <2>1. NoStart \in [phase : Reviving \cup {"idle", "draining"}, left : SUBSET SpoolEvents] /\ NoStart.phase = "idle"
      BY DEF NoStart
    <2>2. /\ startCall' \in StartCalls /\ startCall'[s].phase = "idle" /\ startCall[s].phase = "draining"
          /\ \A t \in LinkStarts \ {s} : startCall'[t] = startCall[t]
      BY <1>3, <2>1 DEF DrainEnds, LinkTypeOK, StartCalls
    <2> QED
      BY <1>3, <2>2 DEF DrainEnds, relayVars, LinkTypeOK, LinkWatched, RelaysKept, Reviving
  <1> QED
    BY <1>1, <1>2, <1>3

\* The relays: the record of an event goes after the event was sent.
LEMMA RelayStep ==
  ASSUME LinkTypeOK, LinkWatched, RelaysKept, NEW x \in LinkEvents \cup LinkStarts,
         (x \in LinkEvents /\ RelayEvent(x)) \/ RelayStored(x) \/ RelayNotStored(x) \/ RelaySent(x) \/ RelayEnds(x)
  PROVE  LinkTypeOK' /\ LinkWatched' /\ RelaysKept' /\ UNCHANGED commandVars
  <1>0. ASSUME NEW phase \in {"idle", "sending", "deleting", "over"},
               relay' = [relay EXCEPT ![x].phase = phase]
        PROVE  /\ relay' \in [LinkEvents \cup LinkStarts ->
                     [phase : {"idle", "storing", "sending", "deleting", "over"}, event : SpoolEvents \cup {"none"}]]
               /\ relay'[x].phase = phase /\ relay'[x].event = relay[x].event
               /\ \A y \in (LinkEvents \cup LinkStarts) \ {x} : relay'[y] = relay[y]
    BY <1>0 DEF RelaysKept
  <1>1. CASE x \in LinkEvents /\ RelayEvent(x)
    BY <1>1 DEF RelayEvent, linkVars, LinkTypeOK, LinkWatched, RelaysKept, SpoolEvents
  <1>2. RelayOver(x) \in {"idle", "over"}
    BY DEF RelayOver
  <1>3. CASE RelayStored(x)
    <2>1. PICK phase \in {"idle", "sending", "over"} : relay' = [relay EXCEPT ![x].phase = phase]
      BY <1>2, <1>3 DEF RelayStored
    <2>2. relay[x].event \in SpoolEvents
      BY <1>3 DEF RelayStored, RelaysKept
    <2>3. RelaysKept'
      BY <1>0, <1>3, <2>1 DEF RelayStored, RelaysKept
    <2> QED
      BY <1>3, <2>2, <2>3 DEF RelayStored, linkVars, LinkTypeOK, LinkWatched
  <1>4. CASE RelayNotStored(x)
    <2>1. RelaysKept'
      BY <1>0, <1>2, <1>4 DEF RelayNotStored, RelaysKept
    <2>2. LinkTypeOK' /\ LinkWatched'
      <3>1. CASE x \in LinkStarts
        BY <1>4, <3>1, StartCatchStep DEF RelayNotStored
      <3>2. CASE x \notin LinkStarts
        BY <1>4, <3>2 DEF RelayNotStored, LinkTypeOK, LinkWatched
      <3> QED
        BY <3>1, <3>2
    <2> QED
      BY <1>4, <2>1, <2>2 DEF RelayNotStored
  <1>5. CASE RelaySent(x)
    <2>1. RelaysKept'
      BY <1>0, <1>5 DEF RelaySent, RelaysKept
    <2> QED
      BY <1>5, <2>1 DEF RelaySent, linkVars, LinkTypeOK, LinkWatched
  <1>6. CASE RelayEnds(x)
    <2>1. RelaysKept'
      BY <1>0, <1>2, <1>6 DEF RelayEnds, RelaysKept
    <2> QED
      BY <1>6, <2>1 DEF RelayEnds, linkVars, LinkTypeOK, LinkWatched
  <1> QED
    BY <1>1, <1>3, <1>4, <1>5, <1>6

\* The callbacks of the transport, disconnect, and a rejected frame.
LEMMA TransportStep ==
  ASSUME LinkTypeOK, LinkWatched, RelaysKept,
         RegisterAgent \/ TransportCloses \/ TransportErrs \/ DisconnectLink \/ DisconnectEnds \/ FrameRejected
  PROVE  LinkTypeOK' /\ LinkWatched' /\ RelaysKept' /\ UNCHANGED commandVars
  <1>1. UNCHANGED <<startCall, relay, eventRecords, relayed, received, commandVars>>
    BY DEF RegisterAgent, TransportCloses, TransportErrs, DisconnectLink, DisconnectEnds, FrameRejected, relayVars, linkVars
  <1>2. RelaysKept'
    BY <1>1 DEF RelaysKept
  <1>3. ASSUME OnClose
        PROVE  /\ connState' = "OFFLINE" /\ linked' = FALSE /\ cutOff' \in BOOLEAN
               /\ ~cutOff' => ~cutOff /\ \A s \in LinkStarts : startCall[s].phase \notin {"identifying", "registering"}
    BY <1>3 DEF OnClose, StartsAt, LinkTypeOK
  <1>4. CASE RegisterAgent
    BY <1>2, <1>4 DEF RegisterAgent, relayVars, commandVars, LinkTypeOK, LinkWatched
  <1>5. CASE TransportCloses
    <2>1. LinkTypeOK'
      BY <1>3, <1>5 DEF TransportCloses, relayVars, LinkTypeOK
    <2>2. LinkWatched'
      BY <1>3, <1>5 DEF TransportCloses, LinkTypeOK, LinkWatched
    <2> QED
      BY <1>1, <1>2, <2>1, <2>2
  <1>6. CASE TransportErrs
    BY <1>1, <1>2, <1>6 DEF TransportErrs, relayVars, LinkTypeOK, LinkWatched
  <1>7. CASE DisconnectLink
    <2>1. LinkTypeOK'
      BY <1>3, <1>7 DEF DisconnectLink, relayVars, LinkTypeOK
    <2>2. LinkWatched'
      BY <1>3, <1>7 DEF DisconnectLink, LinkTypeOK, LinkWatched
    <2> QED
      BY <1>1, <1>2, <2>1, <2>2
  <1>8. CASE DisconnectEnds
    BY <1>1, <1>2, <1>8 DEF DisconnectEnds, relayVars, LinkTypeOK, LinkWatched
  <1>9. CASE FrameRejected
    BY <1>1, <1>2, <1>9 DEF FrameRejected, linkVars, LinkTypeOK, LinkWatched, SpoolEvents
  <1> QED
    BY <1>4, <1>5, <1>6, <1>7, <1>8, <1>9

\* The commands: what is remembered is not run again, what is forgotten is
\* not under way.
LEMMA CommandStep ==
  ASSUME CommandsOnce, CommandNext
  PROVE  CommandsOnce' /\ UNCHANGED <<linkVars, relayVars>>
  <1>1. CASE SafetyChanges
    BY <1>1 DEF SafetyChanges, CommandsOnce
  <1>2. ASSUME NEW d \in FrameDeliveries, LeaseAnswers(d) PROVE CommandsOnce' /\ UNCHANGED <<linkVars, relayVars>>
    <2>1. /\ delivery[d].frame \in Frames /\ dispatched[delivery[d].frame] = 0 /\ delivery[d].phase = "leasing"
      BY <1>2 DEF LeaseAnswers, CommandsOnce
    <2>2. /\ delivery' \in [FrameDeliveries -> [phase : {"idle", "leasing", "dispatched", "refused"}, frame : Frames \cup {"none"}]]
          /\ delivery'[d].phase # "leasing"
          /\ \A e \in FrameDeliveries \ {d} : delivery'[e] = delivery[e]
      BY <1>2 DEF LeaseAnswers, CommandsOnce
    <2>3. /\ dispatched' \in [Frames -> Nat] /\ dispatched'[delivery[d].frame] <= 1
          /\ \A f \in Frames \ {delivery[d].frame} : dispatched'[f] = dispatched[f]
      BY <1>2, <2>1 DEF LeaseAnswers, CommandsOnce
    <2> QED
      BY <1>2, <2>1, <2>2, <2>3 DEF LeaseAnswers, CommandsOnce
  <1>3. ASSUME NEW d \in FrameDeliveries, NEW f \in Frames, FrameArrives(d, f)
        PROVE  CommandsOnce' /\ UNCHANGED <<linkVars, relayVars>>
    <2>1. processed \ staleIds \subseteq Remembered
      BY DEF Remembered
    <2>2. PICK phase \in {"refused", "leasing", "dispatched"} :
            /\ phase # "refused" => f \notin Remembered
            /\ delivery' = [delivery EXCEPT ![d] = [phase |-> phase, frame |-> f]]
            /\ dispatched' = Counts(IF phase = "dispatched" THEN {f} ELSE {})
      BY <1>3 DEF FrameArrives
    <2>3. phase \in {"refused", "leasing", "dispatched"} /\ (phase # "refused" => f \notin Remembered)
      BY <2>2
    <2>4. /\ delivery' \in [FrameDeliveries -> [phase : {"idle", "leasing", "dispatched", "refused"}, frame : Frames \cup {"none"}]]
          /\ delivery'[d].phase = phase /\ delivery'[d].frame = f
          /\ \A e \in FrameDeliveries \ {d} : delivery'[e] = delivery[e]
      BY <2>2, <2>3 DEF CommandsOnce
    <2>5. /\ dispatched' \in [Frames -> Nat]
          /\ \A g \in Frames : /\ dispatched'[g] <= 1
                               /\ g \in Remembered => dispatched'[g] = dispatched[g]
                               /\ g \notin Remembered /\ phase # "dispatched" => dispatched'[g] = 0
      BY <2>2, <2>3 DEF Counts, CommandsOnce
    <2>6. /\ processed' = Remembered \cup {f} /\ staleIds' = staleIds \cap Remembered
          /\ UNCHANGED <<linkVars, relayVars>>
      BY <1>3 DEF FrameArrives
    <2>7. ASSUME NEW e \in FrameDeliveries \ {d}, delivery[e].phase = "leasing"
          PROVE  /\ delivery[e].frame \in Remembered \ staleIds
                 /\ dispatched'[delivery[e].frame] = 0
      <3>1. /\ delivery[e].frame \in Frames /\ delivery[e].frame \in processed \ staleIds
            /\ dispatched[delivery[e].frame] = 0
        BY <2>7 DEF CommandsOnce
      <3> QED
        BY <2>1, <2>5, <3>1
    <2>8. CASE phase = "leasing"
      <3>1. f \notin staleIds' /\ f \in processed' /\ dispatched'[f] = 0
        BY <2>3, <2>5, <2>6, <2>8
      <3>2. \A e \in FrameDeliveries \ {d} : delivery[e].phase = "leasing" => delivery[e].frame # f
        BY <2>3, <2>7, <2>8
      <3>3. ASSUME NEW e \in FrameDeliveries, delivery'[e].phase = "leasing"
            PROVE  /\ delivery'[e].frame \in Frames /\ delivery'[e].frame \in processed' \ staleIds'
                   /\ dispatched'[delivery'[e].frame] = 0
        BY <2>4, <2>6, <2>7, <3>1, <3>3 DEF CommandsOnce
      <3>4. ASSUME NEW e \in FrameDeliveries, delivery'[e].phase = "leasing",
                   NEW g \in FrameDeliveries, delivery'[g].phase = "leasing", delivery'[g].frame = delivery'[e].frame
            PROVE  g = e
        BY <2>4, <3>2, <3>4 DEF CommandsOnce
      <3> QED
        BY <2>4, <2>5, <2>6, <3>3, <3>4 DEF CommandsOnce
    <2>9. CASE phase # "leasing"
      <3>1. ASSUME NEW e \in FrameDeliveries, delivery'[e].phase = "leasing"
            PROVE  e # d /\ delivery'[e] = delivery[e]
        BY <2>4, <2>9, <3>1
      <3>2. ASSUME NEW e \in FrameDeliveries, delivery'[e].phase = "leasing"
            PROVE  /\ delivery'[e].frame \in Frames /\ delivery'[e].frame \in processed' \ staleIds'
                   /\ dispatched'[delivery'[e].frame] = 0
        BY <2>6, <2>7, <3>1, <3>2 DEF CommandsOnce
      <3>3. ASSUME NEW e \in FrameDeliveries, delivery'[e].phase = "leasing",
                   NEW g \in FrameDeliveries, delivery'[g].phase = "leasing", delivery'[g].frame = delivery'[e].frame
            PROVE  g = e
        BY <3>1, <3>3 DEF CommandsOnce
      <3> QED
        BY <2>4, <2>5, <2>6, <3>2, <3>3 DEF CommandsOnce
    <2> QED
      BY <2>8, <2>9
  <1>4. ASSUME NEW f \in Frames, IdGoesStale(f) PROVE CommandsOnce' /\ UNCHANGED <<linkVars, relayVars>>
    <2>1. ASSUME NEW d \in FrameDeliveries, delivery[d].phase = "leasing" PROVE delivery[d].frame # f
      <3>1. delivery[d] = [phase |-> delivery[d].phase, frame |-> delivery[d].frame]
        BY DEF CommandsOnce
      <3> QED
        BY <1>4, <2>1, <3>1 DEF IdGoesStale
    <2> QED
      BY <1>4, <2>1 DEF IdGoesStale, CommandsOnce
  <1> QED
    BY <1>1, <1>2, <1>3, <1>4 DEF CommandNext

\* Every step of the link and of the commands.
LEMMA ControlStep == ControlIInv /\ [ControlNext]_controlVars => ControlIInv'
  <1> SUFFICES ASSUME ControlIInv, [ControlNext]_controlVars
               PROVE  ControlIInv'
    OBVIOUS
  <1> USE DEF ControlIInv
  <1>1. UNCHANGED commandVars => CommandsOnce'
    BY DEF commandVars, CommandsOnce
  <1>2. UNCHANGED relayVars => RelaysKept'
    BY DEF relayVars, RelaysKept
  <1>3. UNCHANGED linkVars /\ UNCHANGED eventSpool => LinkTypeOK' /\ LinkWatched'
    BY DEF linkVars, LinkTypeOK, LinkWatched
  <1>4. CASE LinkNext
    BY <1>1, <1>2, <1>4, LinkStartStep, DrainStep, RelayStep, TransportStep DEF LinkNext
  <1>5. CASE CommandNext
    BY <1>2, <1>3, <1>5, CommandStep DEF relayVars
  <1>6. CASE UNCHANGED controlVars
    BY <1>1, <1>2, <1>3, <1>6 DEF controlVars, relayVars
  <1> QED
    BY <1>4, <1>5, <1>6 DEF ControlNext

\* A link that is down has somebody to bring it up, an event that was stored
\* is kept until it is sent, and a command runs once while it is remembered.
THEOREM LinkAlwaysHolds == ControlSpec => []LinkHolds
  <1>1. ControlInit => ControlIInv
    <2> SUFFICES ASSUME ControlInit PROVE ControlIInv
      OBVIOUS
    <2>1. LinkTypeOK /\ LinkWatched
      <3>1. /\ NoStart \in [phase : Reviving \cup {"idle", "draining"}, left : SUBSET SpoolEvents]
            /\ NoStart.phase = "idle"
        BY DEF NoStart
      <3>2. startCall \in StartCalls /\ \A s \in LinkStarts : startCall[s].phase = "idle"
        BY <3>1 DEF ControlInit, StartCalls
      <3> QED
        BY <3>2 DEF ControlInit, LinkTypeOK, LinkWatched
    <2>2. RelaysKept
      <3>1. /\ NoRelay \in [phase : {"idle", "storing", "sending", "deleting", "over"}, event : SpoolEvents \cup {"none"}]
            /\ NoRelay.phase = "idle"
        BY DEF NoRelay
      <3> QED
        BY <3>1 DEF ControlInit, RelaysKept
    <2>3. CommandsOnce
      <3>1. \A d \in FrameDeliveries : delivery[d].phase = "idle"
        BY DEF ControlInit
      <3> QED
        BY <3>1 DEF ControlInit, CommandsOnce
    <2> QED
      BY <2>1, <2>2, <2>3 DEF ControlIInv
  <1>2. ControlIInv => LinkHolds
    BY DEF ControlIInv, LinkTypeOK, LinkWatched, RelaysKept, CommandsOnce, LinkHolds, StartsAt, Reviving
  <1> QED
    BY <1>1, <1>2, ControlStep, PTL DEF ControlSpec

-----------------------------------------------------------------------------
(* The endpoint.                                                           *)

RequestRecord ==
  [conn : Conns \cup {"none"}, method : Methods \cup {"none"}, lease : {"none", "valid", "expired"},
   phase : {"unsent", "auth", "authz", "entered", "leasing", "running", "over"},
   vetted : SUBSET {"ready", "token", "lease", "up", "leaseHeader"},
   answer : {"none", "pending", "sent", "lost"}]

IpcTypeOK ==
  /\ halt \in [Stops -> {"idle", "draining", "closing", "leaving", "over"}]
  /\ sock \in [Conns -> {"none", "open", "closed"}]
  /\ IsFiniteSet(clients)
  /\ req \in [Requests -> RequestRecord]

\* Nothing is open while a stop() closes the endpoint, nor afterwards.
SocketsClosed ==
  /\ \A c \in Conns : sock[c] = "open" => c \in clients
  /\ Cardinality(clients) <= MaxConnections
  /\ ipc = "STOPPED" \/ (\E t \in Stops : halt[t] = "closing") => \A c \in Conns : sock[c] # "open"

\* What a request has been checked for when it is as far as its phase says.
CheckedFor(q) ==
  /\ q.phase \in {"auth", "authz", "entered", "leasing", "running"} => q.method = "ping" \/ "ready" \in q.vetted
  /\ q.phase \in {"entered", "leasing", "running"} => q.method \in BuiltIn \/ q.vetted \cap {"token", "lease"} # {}
  /\ q.phase = "leasing" => "up" \in q.vetted
  /\ q.phase = "running" /\ q.method \in LeasedMethods => {"up", "leaseHeader"} \subseteq q.vetted

RequestsChecked == \A r \in Requests : CheckedFor(req[r])

IpcIInv == IpcTypeOK /\ SocketsClosed /\ RequestsChecked

\* A request that is over has passed no gate, whatever it was checked for.
LEMMA FinishStep ==
  ASSUME IpcTypeOK, RequestsChecked, NEW r \in Requests, Finish(r)
  PROVE  req' \in [Requests -> RequestRecord] /\ RequestsChecked'
  <1> DEFINE a == IF req[r].answer = "pending" THEN Answered(r) ELSE req[r].answer
             q == [req[r] EXCEPT !.phase = "over", !.method = "none", !.lease = "none",
                                 !.vetted = {}, !.answer = a]
  <1>0. a \in {"none", "pending", "sent", "lost"} /\ req[r] \in RequestRecord
    BY DEF IpcTypeOK, RequestRecord, Answered
  <1>1. req' = [req EXCEPT ![r] = q]
    BY DEF Finish, IpcTypeOK
  <1> HIDE DEF a
  <1>2. q \in RequestRecord /\ q.phase = "over"
    BY <1>0 DEF RequestRecord
  <1> HIDE DEF q
  <1> QED
    BY <1>1, <1>2 DEF IpcTypeOK, RequestsChecked, CheckedFor

\* A request that goes on keeps its method and what it was checked for.
LEMMA GoToStep ==
  ASSUME IpcTypeOK, NEW r \in Requests, NEW phase \in {"authz", "entered", "leasing", "running"},
         NEW checks \in SUBSET {"ready", "token", "lease", "up", "leaseHeader"}, GoTo(r, phase, checks)
  PROVE  /\ req' \in [Requests -> RequestRecord]
         /\ req'[r].phase = phase /\ req'[r].method = req[r].method
         /\ req'[r].vetted = req[r].vetted \cup checks
         /\ \A x \in Requests \ {r} : req'[x] = req[x]
  <1> DEFINE q == [req[r] EXCEPT !.phase = phase, !.vetted = req[r].vetted \cup checks]
  <1>1. req[r] \in RequestRecord
    BY DEF IpcTypeOK
  <1>2. req' = [req EXCEPT ![r] = q]
    BY DEF GoTo, IpcTypeOK
  <1>3. /\ q \in RequestRecord /\ q.phase = phase /\ q.method = req[r].method
        /\ q.vetted = req[r].vetted \cup checks
    BY <1>1 DEF RequestRecord
  <1> HIDE DEF q
  <1> QED
    BY <1>2, <1>3 DEF IpcTypeOK

\* The gates of a request.
LEMMA RequestStepKeeps ==
  ASSUME IpcTypeOK, RequestsChecked, NEW r \in Requests, RequestStep(r)
  PROVE  req' \in [Requests -> RequestRecord] /\ RequestsChecked'
  <1>1. CASE Authenticated(r)
    <2>1. ASSUME NEW scope \in CallerScopes, GoTo(r, "authz", scope)
          PROVE  req' \in [Requests -> RequestRecord] /\ RequestsChecked'
      <3>1. scope \in SUBSET {"ready", "token", "lease", "up", "leaseHeader"}
        BY DEF CallerScopes
      <3>2. /\ req' \in [Requests -> RequestRecord]
            /\ req'[r].phase = "authz" /\ req'[r].method = req[r].method
            /\ req'[r].vetted = req[r].vetted \cup scope
            /\ \A x \in Requests \ {r} : req'[x] = req[x]
        BY <2>1, <3>1, GoToStep
      <3> QED
        BY <1>1, <3>2 DEF Authenticated, RequestsChecked, CheckedFor
    <2> QED
      BY <1>1, <2>1, FinishStep DEF Authenticated
  <1>2. CASE Authorized(r)
    <2>1. CASE ~Authorizes(r)
      BY <1>2, <2>1, FinishStep DEF Authorized
    <2>2. CASE Authorizes(r)
      <3>1. PICK checks \in SUBSET {"ready", "token", "lease", "up", "leaseHeader"} :
              /\ GoTo(r, "entered", checks)
              /\ req[r].lease = "valid" => "lease" \in checks
        BY <1>2, <2>2 DEF Authorized
      <3>2. /\ req' \in [Requests -> RequestRecord]
            /\ req'[r].phase = "entered" /\ req'[r].method = req[r].method
            /\ req'[r].vetted = req[r].vetted \cup checks
            /\ \A x \in Requests \ {r} : req'[x] = req[x]
        BY <3>1, GoToStep
      <3> QED
        BY <1>2, <2>2, <3>1, <3>2 DEF Authorized, Authorizes, RequestsChecked, CheckedFor
    <2> QED
      BY <2>1, <2>2
  <1>3. CASE HandlerEntered(r)
    <2>1. CASE req[r].method \in LeasedMethods /\ GoTo(r, "leasing", {"up"})
      <3>1. /\ req' \in [Requests -> RequestRecord]
            /\ req'[r].phase = "leasing" /\ req'[r].method = req[r].method
            /\ req'[r].vetted = req[r].vetted \cup {"up"}
            /\ \A x \in Requests \ {r} : req'[x] = req[x]
        BY <2>1, GoToStep
      <3> QED
        BY <1>3, <3>1 DEF HandlerEntered, RequestsChecked, CheckedFor
    <2>2. ASSUME NEW checks \in SUBSET {"up"}, req[r].method \notin LeasedMethods, GoTo(r, "running", checks)
          PROVE  req' \in [Requests -> RequestRecord] /\ RequestsChecked'
      <3>1. /\ req' \in [Requests -> RequestRecord]
            /\ req'[r].phase = "running" /\ req'[r].method = req[r].method
            /\ req'[r].vetted = req[r].vetted \cup checks
            /\ \A x \in Requests \ {r} : req'[x] = req[x]
        BY <2>2, GoToStep
      <3> QED
        BY <1>3, <2>2, <3>1 DEF HandlerEntered, RequestsChecked, CheckedFor
    <2> QED
      BY <1>3, <2>1, <2>2, FinishStep DEF HandlerEntered
  <1>4. CASE Leased(r)
    <2>1. Finish(r) \/ GoTo(r, "running", {"leaseHeader"})
      BY <1>4 DEF Leased, Leases
    <2>2. CASE GoTo(r, "running", {"leaseHeader"})
      <3>1. /\ req' \in [Requests -> RequestRecord]
            /\ req'[r].phase = "running" /\ req'[r].method = req[r].method
            /\ req'[r].vetted = req[r].vetted \cup {"leaseHeader"}
            /\ \A x \in Requests \ {r} : req'[x] = req[x]
        BY <2>2, GoToStep
      <3> QED
        BY <1>4, <3>1 DEF Leased, RequestsChecked, CheckedFor
    <2> QED
      BY <2>1, <2>2, FinishStep
  <1> QED
    BY <1>1, <1>2, <1>3, <1>4 DEF RequestStep

\* A frame comes in: it is refused, or it goes to the first gate.
LEMMA ReceiveStep ==
  ASSUME IpcTypeOK, RequestsChecked, NEW r \in Requests, NEW c \in Conns, NEW m \in Methods,
         NEW l \in {"none", "valid"}, Receive(r, c, m, l)
  PROVE  req' \in [Requests -> RequestRecord] /\ RequestsChecked' /\ UNCHANGED <<sock, clients>>
  <1>1. PICK q \in RequestRecord : req' = [req EXCEPT ![r] = q] /\ CheckedFor(q)
    <2> DEFINE refused == [Unsent EXCEPT !.conn = c, !.phase = "over", !.answer = "sent"]
               checks == IF m = "ping" THEN {} ELSE {"ready"}
               asked == [Unsent EXCEPT !.conn = c, !.method = m, !.lease = l, !.phase = "auth", !.answer = "pending"]
               passed == [asked EXCEPT !.vetted = checks]
    <2>1. req' = [req EXCEPT ![r] = refused] \/ req' = [req EXCEPT ![r] = passed]
      BY DEF Receive
    <2>u. Unsent \in RequestRecord
      BY DEF RequestRecord, Unsent
    <2>2. refused \in RequestRecord /\ CheckedFor(refused)
      BY <2>u DEF RequestRecord, CheckedFor
    <2>a. asked \in RequestRecord /\ asked.method = m /\ asked.phase = "auth"
      BY <2>u DEF RequestRecord
    <2>c. checks \in SUBSET {"ready", "token", "lease", "up", "leaseHeader"} /\ (m = "ping" \/ "ready" \in checks)
      OBVIOUS
    <2>3. passed \in RequestRecord /\ CheckedFor(passed)
      <3> HIDE DEF asked, checks
      <3> QED
        BY <2>a, <2>c DEF RequestRecord, CheckedFor
    <2> QED
      BY <2>1, <2>2, <2>3
  <1> QED
    BY <1>1 DEF Receive, IpcTypeOK, RequestsChecked

\* Every step of the lifecycle, the sockets and the requests.
LEMMA IpcStep == IpcIInv /\ [IpcNext]_<<lifecycleVars, ipcVars>> => IpcIInv'
  <1> SUFFICES ASSUME IpcIInv, [IpcNext]_<<lifecycleVars, ipcVars>>
               PROVE  IpcIInv'
    OBVIOUS
  <1> USE IpcAssumption DEF IpcIInv
  <1>1. ASSUME UNCHANGED ipcVars, halt' \in [Stops -> {"idle", "draining", "closing", "leaving", "over"}],
               ipc' = "STOPPED" => ipc = "STOPPED",
               \A t \in Stops : halt'[t] = "closing" => halt[t] = "closing"
        PROVE  IpcIInv'
    BY <1>1 DEF ipcVars, IpcTypeOK, SocketsClosed, RequestsChecked
  <1>2. ASSUME NEW s \in Starts, Start(s) \/ StartStep(s), UNCHANGED ipcVars PROVE IpcIInv'
    BY <1>1, <1>2 DEF Start, StartStep, Identified, Registered, Saved, Opened, Served, IpcTypeOK
  <1>3. ASSUME NEW t \in Stops, Stop(t) \/ Left(t), UNCHANGED ipcVars PROVE IpcIInv'
    BY <1>1, <1>3 DEF Stop, Left, IpcTypeOK
  <1>4. ASSUME Beat \/ BeatFails \/ BeatOk, UNCHANGED ipcVars PROVE IpcIInv'
    BY <1>1, <1>4 DEF Beat, BeatFails, BeatOk, IpcTypeOK
  <1>5. ASSUME NEW t \in Stops, CloseAll(t) PROVE IpcIInv'
    <2>1. /\ halt' \in [Stops -> {"idle", "draining", "closing", "leaving", "over"}]
          /\ ipc = "STOPPED" => ipc' = "STOPPED" /\ \A u \in Stops : halt'[u] = "closing" => halt[u] = "closing"
          /\ ipc # "STOPPED" => ipc' = "STOPPING"
          /\ UNCHANGED req
      BY <1>5 DEF CloseAll, Drained, IpcTypeOK
    <2>2. CASE ipc = "STOPPED"
      BY <1>5, <2>1, <2>2 DEF CloseAll, IpcTypeOK, SocketsClosed, RequestsChecked
    <2>3. CASE ipc # "STOPPED"
      <3>1. /\ sock' = [c \in Conns |-> IF c \in clients THEN "closed" ELSE sock[c]] /\ clients' = {}
        BY <1>5, <2>3 DEF CloseAll
      <3>2. IpcTypeOK' /\ RequestsChecked'
        BY <2>1, <3>1, FS_EmptySet DEF IpcTypeOK, RequestsChecked
      <3>3. \A c \in Conns : sock'[c] # "open"
        BY <3>1 DEF SocketsClosed
      <3>4. SocketsClosed'
        BY <3>1, <3>3, FS_EmptySet DEF SocketsClosed
      <3> QED
        BY <3>2, <3>4
    <2> QED
      BY <2>2, <2>3
  <1>6. ASSUME NEW t \in Stops, EndpointClosed(t) PROVE IpcIInv'
    BY <1>6 DEF EndpointClosed, Closed, IpcTypeOK, SocketsClosed, RequestsChecked
  <1>7. ASSUME NEW c \in Conns, EndpointStep(c), UNCHANGED lifecycleVars PROVE IpcIInv'
    <2>1. UNCHANGED <<halt, ipc, req>>
      BY <1>7 DEF EndpointStep, Accept, Disconnected, BadFrame, CloseEvent, WindowMoves, lifecycleVars
    <2>2. CASE Accept(c)
      <3>1. CASE Cardinality(clients) >= MaxConnections
        BY <2>1, <2>2, <3>1 DEF Accept, Accepting, IpcTypeOK, SocketsClosed, RequestsChecked
      <3>2. CASE ~(Cardinality(clients) >= MaxConnections)
        <4>1. /\ sock' = [sock EXCEPT ![c] = "open"] /\ clients' = clients \cup {c}
              /\ ipc = "LISTENING" /\ \A t \in Stops : halt[t] # "closing"
          BY <2>2, <3>2 DEF Accept, Accepting
        <4>2. /\ IsFiniteSet(clients \cup {c}) /\ Cardinality(clients) \in Nat
              /\ Cardinality(clients \cup {c}) = IF c \in clients THEN Cardinality(clients) ELSE Cardinality(clients) + 1
          BY FS_AddElement, FS_CardinalityType DEF IpcTypeOK
        <4>3. Cardinality(clients \cup {c}) <= MaxConnections
          BY <3>2, <4>2
        <4> QED
          BY <2>1, <4>1, <4>2, <4>3 DEF IpcTypeOK, SocketsClosed, RequestsChecked
      <3> QED
        BY <3>1, <3>2
    <2>3. CASE Disconnected(c) \/ CloseEvent(c)
      <3>1. clients' = clients \ {c} /\ clients' \in SUBSET clients
        BY <2>3 DEF Disconnected, CloseEvent
      <3>2. /\ IsFiniteSet(clients') /\ Cardinality(clients') <= Cardinality(clients)
            /\ Cardinality(clients') \in Nat /\ Cardinality(clients) \in Nat
        BY <3>1, FS_Subset, FS_CardinalityType DEF IpcTypeOK
      <3>3. Cardinality(clients') <= MaxConnections
        BY <3>2 DEF SocketsClosed
      <3> QED
        BY <2>1, <2>3, <3>1, <3>2, <3>3 DEF Disconnected, CloseEvent, IpcTypeOK, SocketsClosed, RequestsChecked
    <2>4. CASE BadFrame(c) \/ WindowMoves(c)
      BY <2>1, <2>4 DEF BadFrame, WindowMoves, IpcTypeOK, SocketsClosed, RequestsChecked
    <2> QED
      BY <1>7, <2>2, <2>3, <2>4 DEF EndpointStep
  <1>8. ASSUME req' \in [Requests -> RequestRecord], RequestsChecked', UNCHANGED <<sock, clients, lifecycleVars>>
        PROVE  IpcIInv'
    BY <1>8 DEF lifecycleVars, IpcTypeOK, SocketsClosed
  <1>9. ASSUME NEW r \in Requests, RequestStep(r) \/ Return(r), UNCHANGED lifecycleVars PROVE IpcIInv'
    <2>1. UNCHANGED <<sock, clients>>
      BY <1>9 DEF RequestStep, Return, Authenticated, Authorized, HandlerEntered, Leased
    <2> QED
      BY <1>8, <1>9, <2>1, RequestStepKeeps, FinishStep DEF Return
  <1>10. ASSUME NEW r \in Requests, Timeout(r) \/ Expires(r), UNCHANGED lifecycleVars PROVE IpcIInv'
    <2>1. /\ req' \in [Requests -> RequestRecord] /\ UNCHANGED <<sock, clients>>
          /\ req'[r].phase = req[r].phase /\ req'[r].method = req[r].method /\ req'[r].vetted = req[r].vetted
          /\ \A x \in Requests \ {r} : req'[x] = req[x]
      BY <1>10 DEF Timeout, Expires, Answered, IpcTypeOK, RequestRecord
    <2>2. RequestsChecked'
      BY <2>1 DEF RequestsChecked, CheckedFor
    <2> QED
      BY <1>8, <1>10, <2>1, <2>2
  <1>11. ASSUME NEW r \in Requests, NEW c \in Conns, NEW m \in Methods, NEW l \in {"none", "valid"},
                Receive(r, c, m, l), UNCHANGED lifecycleVars
         PROVE  IpcIInv'
    BY <1>8, <1>11, ReceiveStep
  <1>12. CASE UNCHANGED <<lifecycleVars, ipcVars>>
    BY <1>1, <1>12 DEF lifecycleVars, IpcTypeOK
  <1> QED
    BY <1>2, <1>3, <1>4, <1>5, <1>6, <1>7, <1>9, <1>10, <1>11, <1>12 DEF IpcNext

\* Every open socket is one that stop() closes, and a component is only
\* reached by a request that passed the gates of its method.
THEOREM EndpointAlwaysGuarded == IpcSpec => []EndpointIsGuarded
  <1>1. IpcInit => IpcIInv
    <2> SUFFICES ASSUME IpcInit PROVE IpcIInv
      OBVIOUS
    <2>1. Unsent \in RequestRecord /\ CheckedFor(Unsent)
      BY DEF Unsent, RequestRecord, CheckedFor
    <2> QED
      BY <2>1, FS_EmptySet, IpcAssumption
      DEF IpcInit, LifecycleInit, IpcIInv, IpcTypeOK, SocketsClosed, RequestsChecked
  <1>2. IpcIInv => EndpointIsGuarded
    BY DEF IpcIInv, SocketsClosed, RequestsChecked, CheckedFor, EndpointIsGuarded, SocketsTracked, EffectsAreVetted
  <1> QED
    BY <1>1, <1>2, IpcStep, PTL DEF IpcSpec

-----------------------------------------------------------------------------
(* The updater.                                                            *)

Replacing == {"checking", "copying", "installing", "removing"}
InActivation == Replacing \cup {"saving", "naming"}
UpdPhases == {"idle", "writing", "renaming", "reading", "cleaning", "dropping", "over"} \cup InActivation
FileNames == {"none", "tmp", "staged", "gone", "snapshotTmp", "snapshot", "activeTmp", "active"}
UpdCallRecord == [phase : UpdPhases, package : Releases \cup {"none", "torn"}, version : Nat, at : FileNames]

UpdTypeOK ==
  /\ currentVersion \in Nat \ {0} /\ currentManifest \in Releases \cup {"none"}
  /\ updCall \in [UpdateCalls -> UpdCallRecord]
  /\ rollbackSnapshot \in [tmp : Nat, kept : Nat, torn : SUBSET {"tmp", "kept"}]
  /\ packages \in [tmp : Releases \cup {"torn", "absent"}, staged : Releases \cup {"torn", "absent"},
                   activeTmp : Releases \cup {"torn", "absent"}, active : Releases \cup {"torn", "absent"}]

\* What the phase of a call says of its other fields.
CallSound(q) ==
  /\ q.phase = "idle" => q.version = 0 /\ q.at = "none"
  /\ q.phase \in {"saving", "naming", "cleaning", "dropping"} => q.version # 0
  /\ q.phase = "writing" => q.package \in Releases /\ q.at \in {"tmp", "staged", "gone"}
  /\ q.phase = "saving" => q.at \in {"snapshotTmp", "snapshot", "gone"}
  /\ q.phase = "copying" => q.package # "none" /\ q.at \in {"activeTmp", "active", "gone"}

CallsSound == \A c \in UpdateCalls : CallSound(updCall[c])

\* The temporary snapshot that a call may rename is the one of a call that still waits to.
SnapshotIsOwned ==
  (\E c \in UpdateCalls : updCall[c].phase \in {"saving", "naming"})
    => \/ rollbackSnapshot.tmp = 0
       \/ \E d \in UpdateCalls : /\ updCall[d].version = rollbackSnapshot.tmp
                                 /\ \/ updCall[d].phase = "naming"
                                    \/ updCall[d].phase = "saving" /\ updCall[d].at = "snapshotTmp"

SnapshotIsKept ==
  \A c \in UpdateCalls \ orphaned :
    updCall[c].phase \in Replacing =>
      rollbackSnapshot.kept # 0 /\ \E d \in UpdateCalls : updCall[d].version = rollbackSnapshot.kept

\* Without overlapping downloads the temporary package is whole when it is renamed,
\* and so is what an activation copies.
StagedWhole ==
  overlapped = {} =>
    /\ \A c, d \in UpdateCalls : c \in Staging /\ d \in Staging => c = d
    /\ \A c \in UpdateCalls :
         /\ updCall[c].phase = "writing" => updCall[c].at \in {"tmp", "gone"}
         /\ updCall[c].phase = "renaming" \/ (updCall[c].phase = "writing" /\ updCall[c].at = "gone")
              => packages.tmp # "torn"
         /\ updCall[c].phase = "copying" => updCall[c].package # "torn"
    /\ packages.staged # "torn"

\* Without overlapping activations the snapshot is whole when it is renamed ...
SnapshotWhole ==
  contended = {} =>
    /\ \A c, d \in UpdateCalls : c \in Activating /\ d \in Activating => c = d
    /\ \A c \in UpdateCalls :
         /\ updCall[c].phase = "saving" => updCall[c].at \in {"snapshotTmp", "gone"}
         /\ updCall[c].phase = "naming" \/ (updCall[c].phase = "saving" /\ updCall[c].at = "gone")
              => "tmp" \notin rollbackSnapshot.torn
         /\ updCall[c].phase = "copying" => updCall[c].at \in {"activeTmp", "gone"}
    /\ "kept" \notin rollbackSnapshot.torn

\* ... and without overlapping downloads too, the package that is installed.
ActiveWhole ==
  contended = {} /\ overlapped = {} =>
    /\ \A c \in UpdateCalls :
         updCall[c].phase = "installing" \/ (updCall[c].phase = "copying" /\ updCall[c].at = "gone")
           => packages.activeTmp # "torn"
    /\ packages.active # "torn"

UpdIInv == UpdTypeOK /\ CallsSound /\ SnapshotIsOwned /\ SnapshotIsKept /\ StagedWhole /\ SnapshotWhole /\ ActiveWhole

LEMMA ActivatingPhases == \A c \in UpdateCalls : c \in Activating <=> updCall[c].phase \in InActivation
  BY DEF Activating, InActivation, Replacing

\* A call goes on with its `at` and its package.
LEMMA GoesTo ==
  ASSUME UpdTypeOK, NEW c \in UpdateCalls, NEW from, NEW to \in UpdPhases, Goes(c, from, to)
  PROVE  \E q \in UpdCallRecord :
           /\ updCall' = [updCall EXCEPT ![c] = q] /\ updCall[c].phase = from
           /\ q.phase = to /\ q.package = updCall[c].package /\ q.version = updCall[c].version
           /\ q.at = updCall[c].at
  <1> DEFINE q == [updCall[c] EXCEPT !.phase = to]
  <1>1. updCall[c] \in UpdCallRecord
    BY DEF UpdTypeOK
  <1>2. updCall' = [updCall EXCEPT ![c] = q] /\ updCall[c].phase = from
    BY DEF Goes, UpdTypeOK
  <1>3. /\ q \in UpdCallRecord /\ q.phase = to /\ q.package = updCall[c].package
        /\ q.version = updCall[c].version /\ q.at = updCall[c].at
    BY <1>1 DEF UpdCallRecord
  <1> HIDE DEF q
  <1> QED
    BY <1>2, <1>3

LEMMA OpensTo ==
  ASSUME UpdTypeOK, NEW c \in UpdateCalls, NEW from, NEW to \in UpdPhases, NEW file \in FileNames,
         NEW content \in Releases \cup {"torn"}, Opens(c, from, to, file, content)
  PROVE  \E q \in UpdCallRecord :
           /\ updCall' = [updCall EXCEPT ![c] = q] /\ updCall[c].phase = from
           /\ q.phase = to /\ q.package = content /\ q.version = updCall[c].version /\ q.at = file
  <1> DEFINE q == [updCall[c] EXCEPT !.phase = to, !.at = file, !.package = content]
  <1>1. updCall[c] \in UpdCallRecord
    BY DEF UpdTypeOK
  <1>2. updCall' = [updCall EXCEPT ![c] = q] /\ updCall[c].phase = from
    BY DEF Opens, UpdTypeOK
  <1>3. /\ q \in UpdCallRecord /\ q.phase = to /\ q.package = content
        /\ q.version = updCall[c].version /\ q.at = file
    BY <1>1 DEF UpdCallRecord
  <1> HIDE DEF q
  <1> QED
    BY <1>2, <1>3

LEMMA WritesTo ==
  ASSUME UpdTypeOK, NEW c \in UpdateCalls, NEW from, NEW to \in UpdPhases, Writes(c, from, to)
  PROVE  \E q \in UpdCallRecord :
           /\ updCall' = [updCall EXCEPT ![c] = q] /\ updCall[c].phase = from
           /\ q.phase = to /\ q.package = updCall[c].package /\ q.version = updCall[c].version
           /\ q.at = "none"
  <1> DEFINE q == [updCall[c] EXCEPT !.phase = to, !.at = "none"]
  <1>1. updCall[c] \in UpdCallRecord
    BY DEF UpdTypeOK
  <1>2. updCall' = [updCall EXCEPT ![c] = q] /\ updCall[c].phase = from
    BY DEF Writes, UpdTypeOK
  <1>3. /\ q \in UpdCallRecord /\ q.phase = to /\ q.package = updCall[c].package
        /\ q.version = updCall[c].version /\ q.at = "none"
    BY <1>1 DEF UpdCallRecord, FileNames
  <1> HIDE DEF q
  <1> QED
    BY <1>2, <1>3

\* A rename moves its call on, and the names of the files that others write to.
LEMMA RenamesTo ==
  ASSUME UpdTypeOK, NEW c \in UpdateCalls, NEW from, NEW to \in UpdPhases,
         NEW file \in FileNames, NEW name \in FileNames, Renames(c, from, to, file, name)
  PROVE  /\ updCall[c].phase = from /\ updCall' \in [UpdateCalls -> UpdCallRecord]
         /\ \A d \in UpdateCalls :
              /\ updCall'[d].package = updCall[d].package /\ updCall'[d].version = updCall[d].version
              /\ updCall'[d].phase = IF d = c THEN to ELSE updCall[d].phase
              /\ \/ updCall'[d].at = updCall[d].at
                 \/ updCall[d].at = file /\ updCall'[d].at = name
                 \/ updCall[d].at = name /\ updCall'[d].at = "gone"
  <1>1. ASSUME NEW d \in UpdateCalls
        PROVE  /\ updCall'[d] \in UpdCallRecord /\ updCall'[d].package = updCall[d].package
               /\ updCall'[d].version = updCall[d].version
               /\ updCall'[d].phase = IF d = c THEN to ELSE updCall[d].phase
               /\ \/ updCall'[d].at = updCall[d].at
                  \/ updCall[d].at = file /\ updCall'[d].at = name
                  \/ updCall[d].at = name /\ updCall'[d].at = "gone"
    <2>0. updCall[d] \in UpdCallRecord
      BY DEF UpdTypeOK
    <2>1. CASE d = c
      <3>1. updCall'[d] = [updCall[d] EXCEPT !.phase = to]
        BY <2>1 DEF Renames
      <3> QED
        BY <2>0, <2>1, <3>1 DEF UpdCallRecord
    <2>2. CASE d # c
      <3>1. PICK at \in FileNames :
              /\ updCall'[d] = [updCall[d] EXCEPT !.at = at]
              /\ \/ at = updCall[d].at
                 \/ updCall[d].at = file /\ at = name
                 \/ updCall[d].at = name /\ at = "gone"
        BY <2>0, <2>2 DEF Renames, UpdCallRecord, FileNames
      <3> QED
        BY <2>0, <2>2, <3>1 DEF UpdCallRecord
    <2> QED
      BY <2>1, <2>2
  <1>2. updCall' \in [UpdateCalls -> UpdCallRecord]
    BY <1>1 DEF Renames
  <1> QED
    BY <1>1, <1>2 DEF Renames

\* A call that has no snapshot to write or to rename leaves the promise of the snapshots alone.
LEMMA CallMoves ==
  ASSUME UpdIInv, NEW c \in UpdateCalls, NEW q \in UpdCallRecord,
         updCall' = [updCall EXCEPT ![c] = q], CallSound(q), UNCHANGED <<rollbackSnapshot, orphaned>>,
         q.version = updCall[c].version \/ updCall[c].version = 0 \/ q.version = rollbackSnapshot.kept,
         q.phase \notin {"saving", "naming"},
         \/ rollbackSnapshot.tmp = 0
         \/ updCall[c].phase # "naming" /\ ~(updCall[c].phase = "saving" /\ updCall[c].at = "snapshotTmp"),
         q.phase \in Replacing => updCall[c].phase \in Replacing
  PROVE  /\ updCall' \in [UpdateCalls -> UpdCallRecord] /\ CallsSound'
         /\ SnapshotIsOwned' /\ SnapshotIsKept'
  <1> USE DEF UpdIInv
  <1>1. /\ updCall'[c] = q /\ \A d \in UpdateCalls \ {c} : updCall'[d] = updCall[d]
        /\ updCall' \in [UpdateCalls -> UpdCallRecord]
    BY DEF UpdTypeOK
  <1>2. CallsSound'
    BY <1>1 DEF CallsSound
  <1>3. SnapshotIsOwned'
    BY <1>1 DEF SnapshotIsOwned
  <1>4. SnapshotIsKept'
    <2> SUFFICES ASSUME NEW e \in UpdateCalls \ orphaned, updCall'[e].phase \in Replacing
                 PROVE  /\ rollbackSnapshot.kept # 0
                        /\ \E d \in UpdateCalls : updCall'[d].version = rollbackSnapshot.kept
      BY DEF SnapshotIsKept
    <2>1. updCall[e].phase \in Replacing
      BY <1>1
    <2>2. PICK d \in UpdateCalls : updCall[d].version = rollbackSnapshot.kept
      BY <2>1 DEF SnapshotIsKept
    <2>3. rollbackSnapshot.kept # 0
      BY <2>1 DEF SnapshotIsKept
    <2> QED
      BY <1>1, <2>2, <2>3
  <1> QED
    BY <1>1, <1>2, <1>3, <1>4

\* A call that stages nothing (any more) tears no staged package.
LEMMA CallStagesNothing ==
  ASSUME UpdIInv, NEW c \in UpdateCalls, NEW q \in UpdCallRecord,
         updCall' = [updCall EXCEPT ![c] = q], q.phase \notin {"writing", "renaming"},
         q.phase = "copying" => q.package = packages.staged,
         UNCHANGED overlapped, packages'.tmp = packages.tmp,
         packages'.staged \in {packages.staged, "absent"}
  PROVE  StagedWhole'
  <1>1. updCall'[c] = q /\ \A d \in UpdateCalls \ {c} : updCall'[d] = updCall[d]
    BY DEF UpdIInv, UpdTypeOK
  <1>2. \A d \in UpdateCalls : d \in Staging' => d \in Staging
    BY <1>1 DEF Staging
  <1> QED
    BY <1>1, <1>2 DEF UpdIInv, StagedWhole

\* A call that is not, or no longer, an activation tears neither snapshot nor active package.
LEMMA CallActivatesNothing ==
  ASSUME UpdIInv, NEW c \in UpdateCalls, NEW q \in UpdCallRecord,
         updCall' = [updCall EXCEPT ![c] = q], q.phase \notin InActivation,
         UNCHANGED <<contended, rollbackSnapshot>>, overlapped \subseteq overlapped',
         packages'.activeTmp = packages.activeTmp,
         packages'.active \in {packages.active, "absent"}
  PROVE  SnapshotWhole' /\ ActiveWhole'
  <1>1. updCall'[c] = q /\ \A d \in UpdateCalls \ {c} : updCall'[d] = updCall[d]
    BY DEF UpdIInv, UpdTypeOK
  <1>2. \A d \in UpdateCalls : d \in Activating' => d \in Activating
    BY <1>1 DEF Activating, InActivation, Replacing
  <1>3. q.phase \notin {"saving", "naming", "copying", "installing"}
    BY DEF InActivation, Replacing
  <1>4. SnapshotWhole'
    BY <1>1, <1>2, <1>3 DEF UpdIInv, SnapshotWhole
  <1>5. ActiveWhole'
    BY <1>1, <1>3 DEF UpdIInv, ActiveWhole
  <1> QED
    BY <1>4, <1>5

\* hasRollbackSnapshot and what is left of the call.
LEMMA RollsBackStep ==
  ASSUME UpdIInv, NEW c \in UpdateCalls, NEW state, NEW left, RollsBack(c, state, left),
         updCall[c].phase \in Replacing \cup {"idle"},
         left = packages \/ left = [packages EXCEPT !.staged = "absent"]
  PROVE  UpdIInv'
  <1> USE DEF updHistory, manifests
  <1> DEFINE to == IF rollbackSnapshot.kept = 0 THEN "over" ELSE "reading"
             q == [updCall[c] EXCEPT !.phase = to]
  <1>0. updCall[c] \in UpdCallRecord /\ to \in {"over", "reading"}
    BY DEF UpdIInv, UpdTypeOK
  <1>1. updCall' = [updCall EXCEPT ![c] = q]
    BY DEF UpdIInv, UpdTypeOK, RollsBack
  <1> HIDE DEF to
  <1>2. q \in UpdCallRecord /\ q.phase \in {"over", "reading"} /\ q.version = updCall[c].version
    BY <1>0 DEF UpdCallRecord, UpdPhases
  <1> HIDE DEF q
  <1>3. CallSound(q)
    BY <1>2 DEF CallSound
  <1>4. /\ updCall' \in [UpdateCalls -> UpdCallRecord] /\ CallsSound'
        /\ SnapshotIsOwned' /\ SnapshotIsKept'
    BY <1>1, <1>2, <1>3, CallMoves DEF RollsBack, Replacing
  <1>5. /\ packages'.tmp = packages.tmp /\ packages'.staged \in {packages.staged, "absent"}
        /\ packages'.activeTmp = packages.activeTmp /\ packages'.active = packages.active
        /\ UpdTypeOK'
    BY <1>4 DEF RollsBack, UpdIInv, UpdTypeOK
  <1>6. StagedWhole'
    BY <1>1, <1>2, <1>5, CallStagesNothing DEF RollsBack
  <1>7. SnapshotWhole' /\ ActiveWhole'
    BY <1>1, <1>2, <1>5, CallActivatesNothing DEF RollsBack, InActivation, Replacing
  <1> QED
    BY <1>4, <1>5, <1>6, <1>7 DEF UpdIInv

\* A call that ends, or goes on with its rollback.
LEMMA QuietStep ==
  ASSUME UpdIInv, NEW c \in UpdateCalls, NEW from, NEW to \in {"over", "dropping"},
         Goes(c, from, to), UNCHANGED <<rollbackSnapshot, updHistory>>,
         from = "naming" => rollbackSnapshot.tmp = 0,
         from = "saving" => updCall[c].at = "gone",
         to = "dropping" => from = "cleaning",
         UpdTypeOK' \/ UNCHANGED <<currentVersion, currentManifest>>,
         \/ UNCHANGED packages
         \/ packages' = [packages EXCEPT !.staged = "absent"]
         \/ packages' = [packages EXCEPT !.active = "absent"]
  PROVE  UpdIInv'
  <1> USE DEF updHistory
  <1>1. PICK q \in UpdCallRecord :
           /\ updCall' = [updCall EXCEPT ![c] = q] /\ updCall[c].phase = from
           /\ q.phase = to /\ q.package = updCall[c].package /\ q.version = updCall[c].version
           /\ q.at = updCall[c].at
    BY GoesTo DEF UpdIInv, UpdPhases
  <1>2. CallSound(q)
    BY <1>1 DEF UpdIInv, CallsSound, CallSound
  <1>3. /\ updCall' \in [UpdateCalls -> UpdCallRecord] /\ CallsSound'
        /\ SnapshotIsOwned' /\ SnapshotIsKept'
    BY <1>1, <1>2, CallMoves DEF Replacing
  <1>4. /\ packages'.tmp = packages.tmp /\ packages'.staged \in {packages.staged, "absent"}
        /\ packages'.activeTmp = packages.activeTmp
        /\ packages'.active \in {packages.active, "absent"}
        /\ UpdTypeOK'
    BY <1>3 DEF UpdIInv, UpdTypeOK
  <1>5. StagedWhole'
    BY <1>1, <1>4, CallStagesNothing
  <1>6. SnapshotWhole' /\ ActiveWhole'
    BY <1>1, <1>4, CallActivatesNothing DEF InActivation, Replacing
  <1> QED
    BY <1>3, <1>4, <1>5, <1>6 DEF UpdIInv

\* A download: the temporary package is torn until the call has written it.
LEMMA DownloadStep ==
  ASSUME UpdIInv, NEW c \in UpdateCalls, NEW r \in Releases, NEW p \in Releases, DownloadAndVerify(c, r, p)
  PROVE  UpdIInv'
  <1> USE DEF manifests
  <1>0. /\ "writing" \in UpdPhases /\ "tmp" \in FileNames /\ p \in Releases \cup {"torn"} /\ UpdTypeOK
        /\ Opens(c, "idle", "writing", "tmp", p)
    BY DEF UpdIInv, UpdPhases, FileNames, DownloadAndVerify
  <1>1. PICK q \in UpdCallRecord :
           /\ updCall' = [updCall EXCEPT ![c] = q] /\ updCall[c].phase = "idle"
           /\ q.phase = "writing" /\ q.package = p /\ q.version = updCall[c].version /\ q.at = "tmp"
    BY <1>0, OpensTo
  <1>2. CallSound(q)
    BY <1>1 DEF CallSound
  <1>3. /\ updCall' \in [UpdateCalls -> UpdCallRecord] /\ CallsSound'
        /\ SnapshotIsOwned' /\ SnapshotIsKept'
    BY <1>1, <1>2, CallMoves DEF DownloadAndVerify, Replacing
  <1>4. packages' = [packages EXCEPT !.tmp = "torn"] /\ UpdTypeOK'
    BY <1>3 DEF DownloadAndVerify, UpdIInv, UpdTypeOK
  <1>5. StagedWhole'
    <2> SUFFICES ASSUME overlapped' = {} PROVE StagedWhole'
      BY DEF StagedWhole
    <2>1. Staging = {} /\ overlapped = {}
      BY DEF DownloadAndVerify
    <2>2. updCall'[c] = q /\ \A d \in UpdateCalls \ {c} : updCall'[d] = updCall[d]
      BY <1>1 DEF UpdIInv, UpdTypeOK
    <2>3. \A d \in UpdateCalls \ {c} : updCall[d].phase \notin {"writing", "renaming"}
      BY <2>1 DEF Staging
    <2> QED
      BY <1>1, <1>4, <2>1, <2>2, <2>3 DEF UpdIInv, UpdTypeOK, StagedWhole, Staging
  <1>6. SnapshotWhole' /\ ActiveWhole'
    <2>1. /\ packages'.activeTmp = packages.activeTmp /\ packages'.active = packages.active
          /\ overlapped \subseteq overlapped' /\ UNCHANGED <<contended, rollbackSnapshot>>
      BY <1>4 DEF DownloadAndVerify, UpdIInv, UpdTypeOK
    <2> QED
      BY <1>1, <2>1, CallActivatesNothing DEF InActivation, Replacing
  <1> QED
    BY <1>3, <1>4, <1>5, <1>6 DEF UpdIInv

LEMMA WriteStep ==
  ASSUME UpdIInv, NEW c \in UpdateCalls, WritePackage(c)
  PROVE  UpdIInv'
  <1> USE UpdateAssumption DEF updHistory, manifests
  <1>1. PICK q \in UpdCallRecord :
           /\ updCall' = [updCall EXCEPT ![c] = q] /\ updCall[c].phase = "writing"
           /\ q.phase = "renaming" /\ q.package = updCall[c].package /\ q.version = updCall[c].version
           /\ q.at = "none"
    BY WritesTo DEF UpdIInv, UpdPhases, WritePackage
  <1>2. CallSound(q)
    BY <1>1 DEF CallSound
  <1>3. /\ updCall' \in [UpdateCalls -> UpdCallRecord] /\ CallsSound'
        /\ SnapshotIsOwned' /\ SnapshotIsKept'
    BY <1>1, <1>2, CallMoves DEF WritePackage, Replacing
  <1>4. PICK content \in {updCall[c].package} \cup (IF c \in overlapped THEN {"torn"} ELSE {}) :
          IF updCall[c].at = "gone"
          THEN packages' \in {packages} \cup {[packages EXCEPT !.tmp = content] : d \in {c} \cap orphaned}
          ELSE packages' = [packages EXCEPT ![updCall[c].at] = IF @ = "absent" THEN @ ELSE content]
    BY DEF WritePackage
  <1>5. updCall[c].package \in Releases /\ content \in Releases \cup {"torn"} /\ updCall[c].at \in {"tmp", "staged", "gone"}
    BY <1>1, <1>4 DEF UpdIInv, CallsSound, CallSound
  <1>6. \/ UNCHANGED packages /\ updCall[c].at = "gone"
        \/ packages' = [packages EXCEPT !.tmp = content]
        \/ packages' = [packages EXCEPT !.tmp = packages.tmp] /\ packages.tmp = "absent"
        \/ /\ updCall[c].at = "staged"
           /\ \E x \in {"absent", content} : packages' = [packages EXCEPT !.staged = x]
    BY <1>4, <1>5 DEF UpdIInv, UpdTypeOK
  <1>7. UpdTypeOK'
    BY <1>3, <1>5, <1>6 DEF WritePackage, UpdIInv, UpdTypeOK
  <1>8. StagedWhole'
    <2> SUFFICES ASSUME overlapped' = {} PROVE StagedWhole'
      BY DEF StagedWhole
    <2>1. overlapped = {} /\ content # "torn"
      BY <1>4, <1>5 DEF WritePackage
    <2>2. updCall'[c] = q /\ \A d \in UpdateCalls \ {c} : updCall'[d] = updCall[d]
      BY <1>1 DEF UpdIInv, UpdTypeOK
    <2>3. updCall[c].at \in {"tmp", "gone"} /\ (updCall[c].at = "gone" => packages.tmp # "torn")
      BY <1>1, <2>1 DEF UpdIInv, StagedWhole
    <2>4. packages'.tmp # "torn" /\ packages'.staged = packages.staged
      BY <1>6, <2>1, <2>3 DEF UpdIInv, UpdTypeOK
    <2>5. \A d \in UpdateCalls : d \in Staging' => d \in Staging
      BY <1>1, <2>2 DEF Staging
    <2> QED
      BY <1>1, <2>1, <2>2, <2>4, <2>5 DEF UpdIInv, StagedWhole
  <1>9. SnapshotWhole' /\ ActiveWhole'
    <2>1. /\ packages'.activeTmp = packages.activeTmp /\ packages'.active = packages.active
          /\ UNCHANGED <<contended, rollbackSnapshot, overlapped>>
      BY <1>6 DEF WritePackage, UpdIInv, UpdTypeOK
    <2> QED
      BY <1>1, <2>1, CallActivatesNothing DEF InActivation, Replacing
  <1> QED
    BY <1>3, <1>7, <1>8, <1>9 DEF UpdIInv

LEMMA RenameStep ==
  ASSUME UpdIInv, NEW c \in UpdateCalls, RenamePackage(c)
  PROVE  UpdIInv'
  <1> USE DEF updHistory, manifests
  <1>0. "over" \in UpdPhases /\ "tmp" \in FileNames /\ "staged" \in FileNames
    BY DEF UpdPhases, FileNames
  <1>1. /\ updCall[c].phase = "renaming" /\ updCall' \in [UpdateCalls -> UpdCallRecord]
        /\ \A d \in UpdateCalls :
             /\ updCall'[d].package = updCall[d].package /\ updCall'[d].version = updCall[d].version
             /\ updCall'[d].phase = IF d = c THEN "over" ELSE updCall[d].phase
             /\ \/ updCall'[d].at = updCall[d].at
                \/ updCall[d].at = "tmp" /\ updCall'[d].at = "staged"
                \/ updCall[d].at = "staged" /\ updCall'[d].at = "gone"
    BY <1>0, RenamesTo DEF RenamePackage, UpdIInv
  <1>2. /\ UNCHANGED <<rollbackSnapshot, overlapped, contended, orphaned, currentVersion, currentManifest>>
        /\ packages' = [packages EXCEPT !.staged = packages.tmp, !.tmp = "absent"]
    BY DEF RenamePackage
  <1>3. UpdTypeOK'
    BY <1>1, <1>2 DEF UpdIInv, UpdTypeOK
  <1>4. CallsSound'
    BY <1>1 DEF UpdIInv, CallsSound, CallSound
  <1>5. \A d \in UpdateCalls : updCall[d].phase \in {"saving", "copying"} => updCall'[d].at = updCall[d].at
    BY <1>1 DEF UpdIInv, CallsSound, CallSound
  <1>6. SnapshotIsOwned'
    BY <1>1, <1>2, <1>5 DEF UpdIInv, SnapshotIsOwned
  <1>7. SnapshotIsKept'
    <2> SUFFICES ASSUME NEW e \in UpdateCalls \ orphaned, updCall'[e].phase \in Replacing
                 PROVE  /\ rollbackSnapshot'.kept # 0
                        /\ \E d \in UpdateCalls : updCall'[d].version = rollbackSnapshot'.kept
      BY <1>2 DEF SnapshotIsKept
    <2>1. updCall[e].phase \in Replacing
      BY <1>1 DEF Replacing
    <2> QED
      BY <1>1, <1>2, <2>1 DEF UpdIInv, SnapshotIsKept
  <1>8. StagedWhole'
    <2> SUFFICES ASSUME overlapped = {} PROVE StagedWhole'
      BY <1>2 DEF StagedWhole
    <2>1. \A d \in UpdateCalls : updCall'[d].phase \notin {"writing", "renaming"}
      BY <1>1 DEF UpdIInv, StagedWhole, Staging
    <2>2. packages'.staged # "torn"
      BY <1>1, <1>2 DEF UpdIInv, UpdTypeOK, StagedWhole
    <2> QED
      BY <1>1, <2>1, <2>2 DEF UpdIInv, StagedWhole, Staging
  <1>9. SnapshotWhole'
    <2>1. \A d \in UpdateCalls : d \in Activating' => d \in Activating
      BY <1>1 DEF Activating
    <2> QED
      BY <1>1, <1>2, <1>5, <2>1 DEF UpdIInv, SnapshotWhole
  <1>10. ActiveWhole'
    BY <1>1, <1>2, <1>5 DEF UpdIInv, UpdTypeOK, ActiveWhole
  <1> QED
    BY <1>3, <1>4, <1>6, <1>7, <1>8, <1>9, <1>10 DEF UpdIInv

\* An activation begins: the temporary snapshot is its own, and torn.
LEMMA ActivateStep ==
  ASSUME UpdIInv, NEW c \in UpdateCalls, StageAndActivate(c)
  PROVE  UpdIInv'
  <1> USE DEF manifests
  <1> DEFINE q == [updCall[c] EXCEPT !.phase = "saving", !.at = "snapshotTmp", !.version = currentVersion]
  <1>0. updCall[c] \in UpdCallRecord /\ currentVersion \in Nat \ {0}
    BY DEF UpdIInv, UpdTypeOK
  <1>1. /\ updCall' = [updCall EXCEPT ![c] = q] /\ updCall[c].phase = "idle"
        /\ rollbackSnapshot' = [rollbackSnapshot EXCEPT !.tmp = currentVersion, !.torn = @ \cup {"tmp"}]
        /\ UNCHANGED <<currentVersion, currentManifest, packages, overlapped, orphaned>>
        /\ contended' = IF Activating = {} THEN contended ELSE contended \cup Activating \cup {c}
    BY DEF StageAndActivate, BeginActivation
  <1>2. q \in UpdCallRecord /\ q.phase = "saving" /\ q.version = currentVersion /\ q.at = "snapshotTmp"
    BY <1>0 DEF UpdCallRecord, UpdPhases, InActivation, FileNames
  <1> HIDE DEF q
  <1>3. updCall'[c] = q /\ \A d \in UpdateCalls \ {c} : updCall'[d] = updCall[d]
    BY <1>1 DEF UpdIInv, UpdTypeOK
  <1>4. /\ rollbackSnapshot'.tmp = currentVersion /\ rollbackSnapshot'.kept = rollbackSnapshot.kept
        /\ rollbackSnapshot'.torn = rollbackSnapshot.torn \cup {"tmp"}
        /\ rollbackSnapshot' \in [tmp : Nat, kept : Nat, torn : SUBSET {"tmp", "kept"}]
    BY <1>0, <1>1 DEF UpdIInv, UpdTypeOK
  <1>5. UpdTypeOK'
    BY <1>1, <1>2, <1>4 DEF UpdIInv, UpdTypeOK
  <1>6. CallsSound'
    BY <1>0, <1>2, <1>3 DEF UpdIInv, CallsSound, CallSound
  <1>7. SnapshotIsOwned'
    BY <1>2, <1>3, <1>4 DEF SnapshotIsOwned
  <1>8. SnapshotIsKept'
    <2> SUFFICES ASSUME NEW e \in UpdateCalls \ orphaned, updCall'[e].phase \in Replacing
                 PROVE  /\ rollbackSnapshot'.kept # 0
                        /\ \E d \in UpdateCalls : updCall'[d].version = rollbackSnapshot'.kept
      BY <1>1 DEF SnapshotIsKept
    <2>1. updCall[e].phase \in Replacing
      BY <1>2, <1>3 DEF Replacing
    <2>2. rollbackSnapshot.kept # 0 /\ \E d \in UpdateCalls : updCall[d].version = rollbackSnapshot.kept
      BY <2>1 DEF UpdIInv, SnapshotIsKept
    <2>3. updCall[c].version = 0
      BY <1>1 DEF UpdIInv, CallsSound, CallSound
    <2> QED
      BY <1>3, <1>4, <2>2, <2>3
  <1>9. StagedWhole'
    BY <1>1, <1>2, CallStagesNothing
  <1>10. SnapshotWhole'
    <2> SUFFICES ASSUME contended' = {} PROVE SnapshotWhole'
      BY DEF SnapshotWhole
    <2>1. Activating = {} /\ contended = {}
      BY <1>1
    <2>2. \A d \in UpdateCalls : updCall[d].phase \notin {"saving", "naming", "copying"}
      BY <2>1 DEF Activating
    <2>3. \A d \in UpdateCalls : d \in Activating' => d = c
      BY <1>3, <2>1 DEF Activating
    <2> QED
      BY <1>2, <1>3, <1>4, <2>1, <2>2, <2>3 DEF UpdIInv, SnapshotWhole
  <1>11. ActiveWhole'
    <2>1. contended' = {} => contended = {}
      BY <1>1
    <2> QED
      BY <1>1, <1>2, <1>3, <2>1 DEF UpdIInv, ActiveWhole
  <1> QED
    BY <1>5, <1>6, <1>7, <1>8, <1>9, <1>10, <1>11 DEF UpdIInv

\* The snapshot is written by a call that waits to name it from then on.
LEMMA SnapshotStep ==
  ASSUME UpdIInv, NEW c \in UpdateCalls, CreateRollbackSnapshot(c)
  PROVE  UpdIInv'
  <1> USE DEF updHistory, manifests
  <1>1. PICK q \in UpdCallRecord :
           /\ updCall' = [updCall EXCEPT ![c] = q] /\ updCall[c].phase = "saving"
           /\ q.phase = "naming" /\ q.package = updCall[c].package /\ q.version = updCall[c].version
           /\ q.at = "none"
    <2>1. "naming" \in UpdPhases /\ UpdTypeOK
      BY DEF UpdIInv, UpdPhases, InActivation
    <2>2. Writes(c, "saving", "naming")
      BY DEF CreateRollbackSnapshot
    <2> QED
      BY <2>1, <2>2, WritesTo
  <1>2. updCall'[c] = q /\ \A d \in UpdateCalls \ {c} : updCall'[d] = updCall[d]
    BY <1>1 DEF UpdIInv, UpdTypeOK
  <1>3. q.version # 0 /\ q.version \in Nat /\ CallSound(q)
    BY <1>1 DEF UpdIInv, CallsSound, CallSound, UpdCallRecord
  <1>4. UNCHANGED <<currentVersion, currentManifest, packages, overlapped, contended, orphaned>>
    BY DEF CreateRollbackSnapshot
  <1>5. /\ rollbackSnapshot' \in [tmp : Nat, kept : Nat, torn : SUBSET {"tmp", "kept"}]
        /\ contended = {} => rollbackSnapshot'.torn \subseteq rollbackSnapshot.torn
        /\ \/ /\ updCall[c].at = "snapshotTmp" \/ Stranded(c)
              /\ rollbackSnapshot'.tmp = q.version /\ rollbackSnapshot'.kept = rollbackSnapshot.kept
              /\ contended = {} => "tmp" \notin rollbackSnapshot'.torn
           \/ /\ updCall[c].at = "snapshot"
              /\ rollbackSnapshot'.tmp = rollbackSnapshot.tmp /\ rollbackSnapshot'.kept = q.version
           \/ updCall[c].at = "gone" /\ rollbackSnapshot' = rollbackSnapshot
    <2>0. rollbackSnapshot \in [tmp : Nat, kept : Nat, torn : SUBSET {"tmp", "kept"}]
      BY DEF UpdIInv, UpdTypeOK
    <2>1. PICK part \in {{}} \cup (IF c \in contended THEN {{"tmp", "kept"}} ELSE {}) :
            \/ /\ updCall[c].at = "snapshotTmp" \/ Stranded(c)
               /\ rollbackSnapshot' = [rollbackSnapshot EXCEPT !.tmp = updCall[c].version,
                                          !.torn = (@ \ {"tmp"}) \cup ({"tmp"} \cap part)]
            \/ /\ updCall[c].at = "snapshot"
               /\ rollbackSnapshot' = [rollbackSnapshot EXCEPT !.kept = updCall[c].version,
                                          !.torn = (@ \ {"kept"}) \cup ({"kept"} \cap part)]
            \/ updCall[c].at = "gone" /\ rollbackSnapshot' = rollbackSnapshot
      BY DEF CreateRollbackSnapshot
    <2>2. part \in {{}, {"tmp", "kept"}} /\ (contended = {} => part = {})
      BY <2>1
    <2> QED
      BY <1>1, <1>3, <2>0, <2>1, <2>2
  <1>6. UpdTypeOK'
    BY <1>1, <1>4, <1>5 DEF UpdIInv, UpdTypeOK
  <1>7. CallsSound'
    BY <1>2, <1>3 DEF UpdIInv, CallsSound
  <1>8. SnapshotIsOwned'
    <2>1. CASE rollbackSnapshot'.tmp = q.version
      BY <1>1, <1>2, <2>1 DEF SnapshotIsOwned
    <2>2. CASE rollbackSnapshot'.tmp = rollbackSnapshot.tmp /\ updCall[c].at # "snapshotTmp"
      BY <1>1, <1>2, <2>2 DEF UpdIInv, SnapshotIsOwned
    <2> QED
      BY <1>5, <2>1, <2>2
  <1>9. SnapshotIsKept'
    <2> SUFFICES ASSUME NEW e \in UpdateCalls \ orphaned, updCall'[e].phase \in Replacing
                 PROVE  /\ rollbackSnapshot'.kept # 0
                        /\ \E d \in UpdateCalls : updCall'[d].version = rollbackSnapshot'.kept
      BY <1>4 DEF SnapshotIsKept
    <2>1. updCall[e].phase \in Replacing
      BY <1>1, <1>2 DEF Replacing
    <2>2. rollbackSnapshot.kept # 0 /\ \E d \in UpdateCalls : updCall[d].version = rollbackSnapshot.kept
      BY <2>1 DEF UpdIInv, SnapshotIsKept
    <2>3. \A d \in UpdateCalls : updCall'[d].version = updCall[d].version
      BY <1>1, <1>2
    <2>4. rollbackSnapshot'.kept \in {rollbackSnapshot.kept, q.version}
      BY <1>5
    <2> QED
      BY <1>2, <1>3, <2>2, <2>3, <2>4
  <1>10. StagedWhole'
    BY <1>1, <1>4, CallStagesNothing
  <1>11. SnapshotWhole'
    <2> SUFFICES ASSUME contended = {} PROVE SnapshotWhole'
      BY <1>4 DEF SnapshotWhole
    <2>1. /\ updCall[c].at \in {"snapshotTmp", "gone"}
          /\ updCall[c].at = "gone" => "tmp" \notin rollbackSnapshot.torn
          /\ "kept" \notin rollbackSnapshot.torn
      BY <1>1 DEF UpdIInv, SnapshotWhole
    <2>2. "tmp" \notin rollbackSnapshot'.torn /\ "kept" \notin rollbackSnapshot'.torn
      BY <1>5, <2>1
    <2>3. \A d \in UpdateCalls : d \in Activating' <=> d \in Activating
      BY <1>1, <1>2 DEF Activating
    <2> QED
      BY <1>1, <1>2, <2>2, <2>3 DEF UpdIInv, SnapshotWhole
  <1>12. ActiveWhole'
    BY <1>1, <1>2, <1>4 DEF UpdIInv, ActiveWhole
  <1> QED
    BY <1>6, <1>7, <1>8, <1>9, <1>10, <1>11, <1>12 DEF UpdIInv

LEMMA NameStep ==
  ASSUME UpdIInv, NEW c \in UpdateCalls, NameSnapshot(c)
  PROVE  UpdIInv'
  <1> USE DEF updHistory, manifests
  <1>0. "checking" \in UpdPhases /\ "snapshotTmp" \in FileNames /\ "snapshot" \in FileNames
    BY DEF UpdPhases, InActivation, Replacing, FileNames
  <1>1. /\ updCall[c].phase = "naming" /\ updCall' \in [UpdateCalls -> UpdCallRecord]
        /\ \A d \in UpdateCalls :
             /\ updCall'[d].package = updCall[d].package /\ updCall'[d].version = updCall[d].version
             /\ updCall'[d].phase = IF d = c THEN "checking" ELSE updCall[d].phase
             /\ \/ updCall'[d].at = updCall[d].at
                \/ updCall[d].at = "snapshotTmp" /\ updCall'[d].at = "snapshot"
                \/ updCall[d].at = "snapshot" /\ updCall'[d].at = "gone"
    BY <1>0, RenamesTo DEF NameSnapshot, UpdIInv
  <1>2. /\ UNCHANGED <<packages, overlapped, contended, orphaned, currentVersion, currentManifest>>
        /\ rollbackSnapshot.tmp # 0 /\ rollbackSnapshot'.tmp = 0 /\ rollbackSnapshot'.kept = rollbackSnapshot.tmp
        /\ rollbackSnapshot'.torn = IF "tmp" \in rollbackSnapshot.torn THEN {"kept"} ELSE {}
    BY DEF NameSnapshot
  <1>3. UpdTypeOK'
    <2>1. rollbackSnapshot' \in [tmp : Nat, kept : Nat, torn : SUBSET {"tmp", "kept"}]
      BY DEF NameSnapshot, UpdIInv, UpdTypeOK
    <2> QED
      BY <1>1, <1>2, <2>1 DEF UpdIInv, UpdTypeOK
  <1>4. CallsSound'
    BY <1>1 DEF UpdIInv, CallsSound, CallSound
  <1>5. \A d \in UpdateCalls : updCall[d].phase \in {"writing", "copying"} => updCall'[d].at = updCall[d].at
    BY <1>1 DEF UpdIInv, CallsSound, CallSound
  <1>6. SnapshotIsOwned'
    BY <1>2 DEF SnapshotIsOwned
  <1>7. SnapshotIsKept'
    <2>1. PICK d \in UpdateCalls : updCall[d].version = rollbackSnapshot.tmp
      BY <1>1, <1>2 DEF UpdIInv, SnapshotIsOwned
    <2>2. updCall'[d].version = rollbackSnapshot'.kept
      BY <1>1, <1>2, <2>1
    <2> QED
      BY <1>2, <2>2 DEF SnapshotIsKept
  <1>8. StagedWhole'
    <2>1. \A d \in UpdateCalls : d \in Staging' => d \in Staging
      BY <1>1 DEF Staging
    <2> QED
      BY <1>1, <1>2, <1>5, <2>1 DEF UpdIInv, StagedWhole
  <1>9. SnapshotWhole'
    <2> SUFFICES ASSUME contended = {} PROVE SnapshotWhole'
      BY <1>2 DEF SnapshotWhole
    <2>1. \A d \in UpdateCalls : d \in Activating' <=> d \in Activating
      BY <1>1 DEF Activating
    <2>2. \A d \in UpdateCalls : updCall'[d].phase \notin {"saving", "naming"}
      BY <1>1 DEF UpdIInv, SnapshotWhole, Activating
    <2>3. "kept" \notin rollbackSnapshot'.torn
      BY <1>1, <1>2 DEF UpdIInv, SnapshotWhole
    <2> QED
      BY <1>1, <1>5, <2>1, <2>2, <2>3 DEF UpdIInv, SnapshotWhole
  <1>10. ActiveWhole'
    BY <1>1, <1>2, <1>5 DEF UpdIInv, ActiveWhole
  <1> QED
    BY <1>3, <1>4, <1>6, <1>7, <1>8, <1>9, <1>10 DEF UpdIInv

\* The copy begins: the temporary package is torn until the call has written it.
LEMMA HealthyStep ==
  ASSUME UpdIInv, NEW c \in UpdateCalls, Healthy(c)
  PROVE  UpdIInv'
  <1> USE UpdateAssumption DEF updHistory, manifests
  <1>0. /\ packages.staged \in Releases \cup {"torn"} /\ "copying" \in UpdPhases /\ "activeTmp" \in FileNames
        /\ packages.staged # "none" /\ UpdTypeOK
    BY DEF Healthy, UpdIInv, UpdTypeOK, UpdPhases, InActivation, Replacing, FileNames
  <1>00. Opens(c, "checking", "copying", "activeTmp", packages.staged)
    BY DEF Healthy
  <1>1. PICK q \in UpdCallRecord :
           /\ updCall' = [updCall EXCEPT ![c] = q] /\ updCall[c].phase = "checking"
           /\ q.phase = "copying" /\ q.package = packages.staged /\ q.version = updCall[c].version
           /\ q.at = "activeTmp"
    BY <1>0, <1>00, OpensTo
  <1>2. updCall'[c] = q /\ \A d \in UpdateCalls \ {c} : updCall'[d] = updCall[d]
    BY <1>1 DEF UpdIInv, UpdTypeOK
  <1>3. CallSound(q)
    BY <1>0, <1>1 DEF CallSound
  <1>4. /\ updCall' \in [UpdateCalls -> UpdCallRecord] /\ CallsSound'
        /\ SnapshotIsOwned' /\ SnapshotIsKept'
    BY <1>1, <1>3, CallMoves DEF Healthy, Replacing
  <1>5. /\ packages'.tmp = packages.tmp /\ packages'.staged = packages.staged
        /\ packages'.activeTmp = "torn" /\ packages'.active = packages.active
        /\ UNCHANGED <<overlapped, contended, rollbackSnapshot>> /\ UpdTypeOK'
    BY <1>4 DEF Healthy, UpdIInv, UpdTypeOK
  <1>6. StagedWhole'
    BY <1>1, <1>5, CallStagesNothing
  <1>7. \A d \in UpdateCalls : d \in Activating' <=> d \in Activating
    BY <1>1, <1>2 DEF Activating
  <1>8. SnapshotWhole'
    BY <1>1, <1>2, <1>5, <1>7 DEF UpdIInv, SnapshotWhole
  <1>9. ActiveWhole'
    <2> SUFFICES ASSUME contended = {}, overlapped = {} PROVE ActiveWhole'
      BY <1>5 DEF ActiveWhole
    <2>1. \A d \in UpdateCalls \ {c} : updCall[d].phase \notin {"copying", "installing"}
      BY <1>1 DEF UpdIInv, SnapshotWhole, Activating
    <2> QED
      BY <1>1, <1>2, <1>5, <2>1 DEF UpdIInv, ActiveWhole
  <1> QED
    BY <1>4, <1>5, <1>6, <1>8, <1>9 DEF UpdIInv

LEMMA CopyStep ==
  ASSUME UpdIInv, NEW c \in UpdateCalls, CopyPackage(c)
  PROVE  UpdIInv'
  <1> USE UpdateAssumption DEF updHistory, manifests
  <1>1. PICK q \in UpdCallRecord :
           /\ updCall' = [updCall EXCEPT ![c] = q] /\ updCall[c].phase = "copying"
           /\ q.phase = "installing" /\ q.package = updCall[c].package /\ q.version = updCall[c].version
           /\ q.at = "none"
    BY WritesTo DEF UpdIInv, UpdPhases, InActivation, Replacing, CopyPackage
  <1>2. updCall'[c] = q /\ \A d \in UpdateCalls \ {c} : updCall'[d] = updCall[d]
    BY <1>1 DEF UpdIInv, UpdTypeOK
  <1>3. CallSound(q)
    BY <1>1 DEF CallSound
  <1>4. /\ updCall' \in [UpdateCalls -> UpdCallRecord] /\ CallsSound'
        /\ SnapshotIsOwned' /\ SnapshotIsKept'
    BY <1>1, <1>3, CallMoves DEF CopyPackage, Replacing
  <1>5. PICK content \in {updCall[c].package} \cup (IF c \in contended THEN {"torn"} ELSE {}) :
          IF updCall[c].at = "gone"
          THEN packages' \in {packages} \cup {[packages EXCEPT !.activeTmp = packages.staged] :
                               d \in IF packages.staged = "absent" THEN {} ELSE {c} \cap orphaned}
          ELSE packages' = [packages EXCEPT ![updCall[c].at] = IF @ = "absent" THEN @ ELSE content]
    BY DEF CopyPackage
  <1>6. /\ updCall[c].package \in Releases \cup {"torn"} /\ content \in Releases \cup {"torn"}
        /\ updCall[c].at \in {"activeTmp", "active", "gone"}
    BY <1>1, <1>5 DEF UpdIInv, UpdTypeOK, UpdCallRecord, CallsSound, CallSound
  <1>7. \/ UNCHANGED packages /\ updCall[c].at = "gone"
        \/ packages' = [packages EXCEPT !.activeTmp = packages.staged]
        \/ \E x \in {"absent", content} : packages' = [packages EXCEPT !.activeTmp = x]
        \/ /\ updCall[c].at = "active"
           /\ \E x \in {"absent", content} : packages' = [packages EXCEPT !.active = x]
    BY <1>5, <1>6 DEF UpdIInv, UpdTypeOK
  <1>8. UNCHANGED <<overlapped, contended, rollbackSnapshot>> /\ UpdTypeOK'
    BY <1>4, <1>6, <1>7 DEF CopyPackage, UpdIInv, UpdTypeOK
  <1>9. StagedWhole'
    <2>1. packages'.tmp = packages.tmp /\ packages'.staged = packages.staged
      BY <1>7 DEF UpdIInv, UpdTypeOK
    <2> QED
      BY <1>1, <1>8, <2>1, CallStagesNothing
  <1>10. SnapshotWhole'
    <2>1. \A d \in UpdateCalls : d \in Activating' <=> d \in Activating
      BY <1>1, <1>2 DEF Activating
    <2> QED
      BY <1>1, <1>2, <1>8, <2>1 DEF UpdIInv, SnapshotWhole
  <1>11. ActiveWhole'
    <2> SUFFICES ASSUME contended = {}, overlapped = {} PROVE ActiveWhole'
      BY <1>8 DEF ActiveWhole
    <2>1. content # "torn" /\ packages.staged # "torn"
      BY <1>1, <1>5, <1>6 DEF UpdIInv, StagedWhole
    <2>2. /\ updCall[c].at \in {"activeTmp", "gone"} /\ packages.active # "torn"
          /\ updCall[c].at = "gone" => packages.activeTmp # "torn"
      BY <1>1 DEF UpdIInv, SnapshotWhole, ActiveWhole
    <2>3. packages'.activeTmp # "torn" /\ packages'.active = packages.active
      BY <1>7, <2>1, <2>2 DEF UpdIInv, UpdTypeOK
    <2> QED
      BY <2>2, <2>3 DEF ActiveWhole
  <1> QED
    BY <1>4, <1>8, <1>9, <1>10, <1>11 DEF UpdIInv

LEMMA InstallStep ==
  ASSUME UpdIInv, NEW c \in UpdateCalls, InstallPackage(c)
  PROVE  UpdIInv'
  <1> USE DEF updHistory, manifests
  <1>0. "removing" \in UpdPhases /\ "activeTmp" \in FileNames /\ "active" \in FileNames
    BY DEF UpdPhases, InActivation, Replacing, FileNames
  <1>1. /\ updCall[c].phase = "installing" /\ updCall' \in [UpdateCalls -> UpdCallRecord]
        /\ \A d \in UpdateCalls :
             /\ updCall'[d].package = updCall[d].package /\ updCall'[d].version = updCall[d].version
             /\ updCall'[d].phase = IF d = c THEN "removing" ELSE updCall[d].phase
             /\ \/ updCall'[d].at = updCall[d].at
                \/ updCall[d].at = "activeTmp" /\ updCall'[d].at = "active"
                \/ updCall[d].at = "active" /\ updCall'[d].at = "gone"
    BY <1>0, RenamesTo DEF InstallPackage, UpdIInv
  <1>2. /\ UNCHANGED <<rollbackSnapshot, overlapped, contended, orphaned, currentVersion, currentManifest>>
        /\ packages' = [packages EXCEPT !.active = packages.activeTmp, !.activeTmp = "absent"]
    BY DEF InstallPackage
  <1>3. UpdTypeOK'
    BY <1>1, <1>2 DEF UpdIInv, UpdTypeOK
  <1>4. CallsSound'
    BY <1>1 DEF UpdIInv, CallsSound, CallSound
  <1>5. \A d \in UpdateCalls : updCall[d].phase \in {"saving", "writing"} => updCall'[d].at = updCall[d].at
    BY <1>1 DEF UpdIInv, CallsSound, CallSound
  <1>6. SnapshotIsOwned'
    BY <1>1, <1>2, <1>5 DEF UpdIInv, SnapshotIsOwned
  <1>7. SnapshotIsKept'
    <2> SUFFICES ASSUME NEW e \in UpdateCalls \ orphaned, updCall'[e].phase \in Replacing
                 PROVE  /\ rollbackSnapshot'.kept # 0
                        /\ \E d \in UpdateCalls : updCall'[d].version = rollbackSnapshot'.kept
      BY <1>2 DEF SnapshotIsKept
    <2>1. updCall[e].phase \in Replacing
      BY <1>1 DEF Replacing
    <2> QED
      BY <1>1, <1>2, <2>1 DEF UpdIInv, SnapshotIsKept
  <1>8. /\ packages'.tmp = packages.tmp /\ packages'.staged = packages.staged
        /\ packages'.activeTmp = "absent" /\ packages'.active = packages.activeTmp
    BY <1>2 DEF UpdIInv, UpdTypeOK
  <1>9. StagedWhole'
    <2>1. \A d \in UpdateCalls : d \in Staging' => d \in Staging
      BY <1>1 DEF Staging
    <2> QED
      BY <1>1, <1>2, <1>5, <1>8, <2>1 DEF UpdIInv, StagedWhole
  <1>10. SnapshotWhole'
    <2> SUFFICES ASSUME contended = {} PROVE SnapshotWhole'
      BY <1>2 DEF SnapshotWhole
    <2>1. \A d \in UpdateCalls : d \in Activating' <=> d \in Activating
      BY <1>1 DEF Activating
    <2>2. \A d \in UpdateCalls : updCall'[d].phase # "copying"
      BY <1>1 DEF UpdIInv, SnapshotWhole, Activating
    <2> QED
      BY <1>1, <1>2, <1>5, <2>1, <2>2 DEF UpdIInv, SnapshotWhole
  <1>11. ActiveWhole'
    <2> SUFFICES ASSUME contended = {}, overlapped = {} PROVE ActiveWhole'
      BY <1>2 DEF ActiveWhole
    <2>1. packages.activeTmp # "torn"
      BY <1>1 DEF UpdIInv, ActiveWhole
    <2> QED
      BY <1>8, <2>1 DEF ActiveWhole
  <1> QED
    BY <1>3, <1>4, <1>6, <1>7, <1>9, <1>10, <1>11 DEF UpdIInv

\* A rollback reads the version that is kept.
LEMMA ReadStep ==
  ASSUME UpdIInv, NEW c \in UpdateCalls, RollbackToLastKnownGood(c)
  PROVE  UpdIInv'
  <1> USE DEF updHistory, manifests
  <1> DEFINE q == [updCall[c] EXCEPT !.phase = "cleaning", !.version = rollbackSnapshot.kept]
  <1>0. updCall[c] \in UpdCallRecord
    BY DEF UpdIInv, UpdTypeOK
  <1>1. updCall' = [updCall EXCEPT ![c] = q] /\ updCall[c].phase = "reading" /\ UNCHANGED <<rollbackSnapshot, updHistory, packages>>
    BY DEF RollbackToLastKnownGood, UpdIInv, UpdTypeOK
  <1>2. q \in UpdCallRecord /\ q.phase = "cleaning" /\ q.version = rollbackSnapshot.kept
    BY <1>0 DEF UpdIInv, UpdTypeOK, UpdCallRecord, UpdPhases
  <1> HIDE DEF q
  <1>3. CallSound(q)
    BY <1>2 DEF RollbackToLastKnownGood, CallSound
  <1>4. /\ updCall' \in [UpdateCalls -> UpdCallRecord] /\ CallsSound'
        /\ SnapshotIsOwned' /\ SnapshotIsKept'
    BY <1>1, <1>2, <1>3, CallMoves DEF Replacing
  <1>5. StagedWhole'
    BY <1>1, <1>2, CallStagesNothing
  <1>6. SnapshotWhole' /\ ActiveWhole'
    BY <1>1, <1>2, CallActivatesNothing DEF InActivation, Replacing
  <1> QED
    BY <1>4, <1>5, <1>6 DEF RollbackToLastKnownGood, UpdIInv, UpdTypeOK

\* The directory, or the process, goes away under the calls.
LEMMA ShutdownStep == ASSUME UpdIInv, UpdShutdown PROVE UpdIInv'
  <1>1. \A c \in UpdateCalls :
          /\ updCall'[c] \in UpdCallRecord /\ updCall'[c].phase = updCall[c].phase
          /\ updCall'[c].version = updCall[c].version /\ updCall'[c].package = updCall[c].package
          /\ updCall'[c].at = IF updCall[c].at = "none" THEN "none" ELSE "gone"
    <2> SUFFICES ASSUME NEW c \in UpdateCalls
                 PROVE  /\ updCall'[c] \in UpdCallRecord /\ updCall'[c].phase = updCall[c].phase
                        /\ updCall'[c].version = updCall[c].version /\ updCall'[c].package = updCall[c].package
                        /\ updCall'[c].at = IF updCall[c].at = "none" THEN "none" ELSE "gone"
      OBVIOUS
    <2>1. updCall[c] \in UpdCallRecord
      BY DEF UpdIInv, UpdTypeOK
    <2>2. updCall'[c] = [updCall[c] EXCEPT !.at = IF updCall[c].at = "none" THEN "none" ELSE "gone"]
      BY DEF UpdShutdown
    <2> QED
      BY <2>1, <2>2 DEF UpdCallRecord, FileNames
  <1>2. updCall' \in [UpdateCalls -> UpdCallRecord]
    BY <1>1 DEF UpdShutdown
  <1>3. /\ packages' \in [tmp : {"absent"}, staged : {"absent"}, activeTmp : {"absent"}, active : {"absent"}]
        /\ rollbackSnapshot' \in [tmp : {0}, kept : {0}, torn : {{}}]
        /\ currentManifest' = "none" /\ UNCHANGED <<currentVersion, overlapped, contended>>
    BY DEF UpdShutdown, NoPackages, NoSnapshot
  <1>4. UpdTypeOK'
    BY <1>2, <1>3 DEF UpdIInv, UpdTypeOK
  <1>5. CallsSound' /\ SnapshotIsOwned'
    BY <1>1, <1>3 DEF UpdIInv, CallsSound, CallSound, SnapshotIsOwned
  <1>6. SnapshotIsKept'
    <2>1. \A c \in UpdateCalls \ orphaned' : updCall'[c].phase \in {"idle", "over"}
      BY <1>1 DEF UpdShutdown
    <2> QED
      BY <2>1 DEF SnapshotIsKept, Replacing
  <1>7. StagedWhole'
    BY <1>1, <1>3 DEF UpdIInv, StagedWhole, Staging, CallsSound, CallSound
  <1>8. SnapshotWhole'
    <2>1. \A d \in UpdateCalls : d \in Activating' <=> d \in Activating
      BY <1>1 DEF Activating
    <2>2. \A d \in UpdateCalls : updCall[d].phase \in {"saving", "copying"} => updCall'[d].at = "gone"
      BY <1>1 DEF UpdIInv, CallsSound, CallSound
    <2> QED
      BY <1>1, <1>3, <2>1, <2>2 DEF UpdIInv, SnapshotWhole
  <1>9. ActiveWhole'
    BY <1>3 DEF ActiveWhole
  <1> QED
    BY <1>4, <1>5, <1>6, <1>7, <1>8, <1>9 DEF UpdIInv

LEMMA CrashStep == ASSUME UpdIInv, UpdCrash PROVE UpdIInv'
  <1> USE DEF updHistory
  <1> DEFINE dead == [NoUpdCall EXCEPT !.phase = "over"]
  <1>0. dead \in UpdCallRecord /\ dead.phase = "over"
    <2>1. NoUpdCall \in UpdCallRecord /\ "over" \in UpdPhases
      BY DEF NoUpdCall, UpdCallRecord, UpdPhases, FileNames
    <2> QED
      BY <2>1 DEF UpdCallRecord
  <1>1. updCall' = [c \in UpdateCalls |-> IF updCall[c].phase = "idle" THEN updCall[c] ELSE dead]
    BY DEF UpdCrash
  <1> HIDE DEF dead
  <1>2. updCall' \in [UpdateCalls -> UpdCallRecord] /\ \A c \in UpdateCalls : updCall'[c].phase \in {"idle", "over"}
    BY <1>0, <1>1 DEF UpdIInv, UpdTypeOK
  <1>3. UpdTypeOK'
    BY <1>2, UpdateAssumption DEF UpdCrash, UpdIInv, UpdTypeOK
  <1>4. CallsSound'
    BY <1>0, <1>1 DEF UpdIInv, CallsSound, CallSound
  <1>5. SnapshotIsOwned' /\ SnapshotIsKept'
    BY <1>2 DEF SnapshotIsOwned, SnapshotIsKept, Replacing
  <1>6. StagedWhole' /\ SnapshotWhole' /\ ActiveWhole'
    BY <1>2 DEF UpdCrash, UpdIInv, StagedWhole, Staging, SnapshotWhole, Activating, ActiveWhole
  <1> QED
    BY <1>3, <1>4, <1>5, <1>6 DEF UpdIInv

LEMMA UpdStep == UpdIInv /\ [UpdNext]_updVars => UpdIInv'
  <1> SUFFICES ASSUME UpdIInv, [UpdNext]_updVars
               PROVE  UpdIInv'
    OBVIOUS
  <1> USE DEF manifests
  <1>1. CASE CheckFails \/ UNCHANGED updVars
    BY <1>1 DEF CheckFails, updVars, updHistory, UpdIInv, UpdTypeOK, CallsSound, SnapshotIsOwned, SnapshotIsKept,
       StagedWhole, Staging, SnapshotWhole, Activating, ActiveWhole
  <1>2. ASSUME NEW r \in Releases, CheckForUpdates(r) PROVE UpdIInv'
    BY <1>2 DEF CheckForUpdates, updHistory, UpdIInv, UpdTypeOK, CallsSound, SnapshotIsOwned, SnapshotIsKept,
       StagedWhole, Staging, SnapshotWhole, Activating, ActiveWhole
  <1>3. ASSUME NEW c \in UpdateCalls, DownloadRefused(c) PROVE UpdIInv'
    BY <1>3, QuietStep DEF DownloadRefused
  <1>4. ASSUME NEW c \in UpdateCalls, StagingThrows(c) PROVE UpdIInv'
    BY <1>4, QuietStep DEF StagingThrows
  <1>5. ASSUME NEW c \in UpdateCalls, Rollback(c) PROVE UpdIInv'
    BY <1>5, RollsBackStep DEF Rollback
  <1>6. ASSUME NEW c \in UpdateCalls, SnapshotUnusable(c) PROVE UpdIInv'
    BY <1>6, QuietStep DEF SnapshotUnusable
  <1>7. ASSUME NEW c \in UpdateCalls, RemoveForRollback(c) PROVE UpdIInv'
    BY <1>7, QuietStep DEF RemoveForRollback
  <1>8. ASSUME NEW c \in UpdateCalls, RolledBack(c) PROVE UpdIInv'
    <2>1. updCall[c].phase = "dropping" /\ Goes(c, "dropping", "over")
      BY <1>8 DEF RolledBack, Goes
    <2>2. updCall[c].version \in Nat \ {0}
      BY <2>1 DEF UpdIInv, UpdTypeOK, UpdCallRecord, CallsSound, CallSound
    <2>3. updCall' \in [UpdateCalls -> UpdCallRecord]
      <3>1. "over" \in UpdPhases
        BY DEF UpdPhases
      <3>2. PICK q \in UpdCallRecord : updCall' = [updCall EXCEPT ![c] = q]
        BY <2>1, <3>1, GoesTo DEF UpdIInv
      <3> QED
        BY <3>2 DEF UpdIInv, UpdTypeOK
    <2>4. UpdTypeOK'
      BY <1>8, <2>2, <2>3 DEF RolledBack, UpdIInv, UpdTypeOK
    <2> QED
      BY <1>8, <2>1, <2>4, QuietStep DEF RolledBack
  <1>9. ASSUME NEW c \in UpdateCalls, ActivateRefused(c) PROVE UpdIInv'
    BY <1>9, QuietStep DEF ActivateRefused
  <1>10. ASSUME NEW c \in UpdateCalls, ActivationRejects(c) PROVE UpdIInv'
    BY <1>10, QuietStep DEF ActivationRejects, Stranded
  <1>11. ASSUME NEW c \in UpdateCalls, Unhealthy(c) PROVE UpdIInv'
    BY <1>11, RollsBackStep DEF Unhealthy, Replacing
  <1>12. ASSUME NEW c \in UpdateCalls, Activated(c) PROVE UpdIInv'
    <2>1. updCall' \in [UpdateCalls -> UpdCallRecord]
      <3>1. "over" \in UpdPhases /\ Goes(c, "removing", "over")
        BY <1>12 DEF UpdPhases, Activated
      <3>2. PICK q \in UpdCallRecord : updCall' = [updCall EXCEPT ![c] = q]
        BY <3>1, GoesTo DEF UpdIInv
      <3> QED
        BY <3>2 DEF UpdIInv, UpdTypeOK
    <2>2. UpdTypeOK'
      BY <1>12, <2>1, UpdateAssumption DEF Activated, UpdIInv, UpdTypeOK
    <2> QED
      BY <1>12, <2>2, QuietStep DEF Activated
  <1>13. ASSUME NEW c \in UpdateCalls, ActivationFails(c) PROVE UpdIInv'
    BY <1>13, RollsBackStep DEF ActivationFails, Replacing
  <1>14. ASSUME NEW c \in UpdateCalls, ManifestGone(c) PROVE UpdIInv'
    BY <1>14, RollsBackStep DEF ManifestGone, Replacing
  <1> QED
    BY <1>1, <1>2, <1>3, <1>4, <1>5, <1>6, <1>7, <1>8, <1>9, <1>10, <1>11, <1>12, <1>13, <1>14,
       DownloadStep, WriteStep, RenameStep, ActivateStep, SnapshotStep, NameStep, HealthyStep, CopyStep, InstallStep,
       ReadStep, ShutdownStep, CrashStep
       DEF UpdNext

(***************************************************************************)
(* Whatever the number of calls, releases, shutdowns and crashes: an       *)
(* activation that replaces the package has a snapshot of the version that *)
(* ran when one of the activations began (update-manager.ts,               *)
(* stageAndActivateUpdate), unless a shutdown came in between; and no      *)
(* half-written package is staged unless downloads overlapped, no          *)
(* half-written snapshot kept unless activations did, and no half-written  *)
(* package active unless one or the other did (staging-store.ts:34-35,     *)
(* 64-65, 75-76: the temporary files have one name for all calls).         *)
(***************************************************************************)
THEOREM UpdatesCanAlwaysBeUndone == UpdSpec => []UpdatesCanBeUndone
  <1>1. UpdInit => UpdIInv
    <2> SUFFICES ASSUME UpdInit PROVE UpdIInv
      OBVIOUS
    <2>1. NoUpdCall \in UpdCallRecord /\ NoUpdCall.phase = "idle" /\ NoUpdCall.version = 0 /\ NoUpdCall.at = "none"
      BY DEF NoUpdCall, UpdCallRecord, UpdPhases, FileNames
    <2>2. \A c \in UpdateCalls : updCall[c] = NoUpdCall
      BY DEF UpdInit
    <2>3. UpdTypeOK
      BY <2>1, UpdateAssumption DEF UpdInit, UpdTypeOK, NoPackages, NoSnapshot
    <2>4. CallsSound
      BY <2>1, <2>2 DEF CallsSound, CallSound
    <2>5. SnapshotIsOwned /\ SnapshotIsKept
      BY <2>1, <2>2 DEF SnapshotIsOwned, SnapshotIsKept, Replacing
    <2>6. StagedWhole
      BY <2>1, <2>2, UpdateAssumption DEF UpdInit, StagedWhole, Staging, NoPackages
    <2>7. SnapshotWhole /\ ActiveWhole
      BY <2>1, <2>2 DEF UpdInit, SnapshotWhole, Activating, ActiveWhole, NoPackages, NoSnapshot
    <2> QED
      BY <2>3, <2>4, <2>5, <2>6, <2>7 DEF UpdIInv
  <1>2. UpdIInv => UpdatesCanBeUndone
    BY DEF UpdIInv, SnapshotIsKept, StagedWhole, SnapshotWhole, ActiveWhole, UpdatesCanBeUndone, Replacing
  <1> QED
    BY <1>1, <1>2, UpdStep, PTL DEF UpdSpec
----------------------------------------------------------------------------
(* The state store.                                                        *)

CallPlaces == {"idle", "flushing", "waiting", "acknowledged", "failed", "lost"}
StoreCall == [key : Keys \cup {NoCall.key}, del : {"yes", "no"}, at : CallPlaces]
StoredFile == [is : {"ok", "missing", "bad"}, map : Maps]

(* Types; the calls that were made are the first ones; the flush that runs *)
(* is of a call that waits for it; a file that cannot be read gives        *)
(* nothing; and what flushInternal has done up to each of its steps.       *)
StoreTypes ==
    /\ records \in Maps /\ promised \in Maps /\ flushed \in Maps /\ previous \in Maps
    /\ isLoaded \in BOOLEAN /\ isStarted \in BOOLEAN /\ clearing \in BOOLEAN /\ blind \in BOOLEAN
    /\ calls \in 0..MaxWrites /\ flushes \in 0..2 /\ faults \in Nat
    /\ call \in [Ids -> StoreCall] /\ active \in {0} \cup Ids /\ waiting \subseteq Ids
    /\ body \in {"off", "begin", "backed up", "written"}
    /\ primary \in StoredFile /\ lkg \in StoredFile /\ tmp \in StoredFile
CallsFit ==
    /\ \A i \in Ids : IF i > calls THEN call[i].at = "idle" ELSE call[i].key \in Keys
    /\ \A k \in Keys : promised[k] <= calls
    /\ active # 0 => call[active].at = "flushing"
    /\ \A i \in waiting : call[i].at = "waiting"
FlushFits ==
    /\ body # "off" => active # 0
    /\ (primary.is # "ok" => primary.map = Nothing) /\ (lkg.is # "ok" => lkg.map = Nothing)
    /\ body \in {"backed up", "written"} /\ primary.is = "ok" => lkg = primary
    /\ body = "written" => tmp = File(records)

(* map holds the write n of k or a later one, or k was deleted since.      *)
Holds(map, k, n, cs) ==
    map[k] >= n \/ \E i \in Ids : cs[i].key = k /\ cs[i].del = "yes" /\ cs[i].at # "idle" /\ i > n

Underway(i) == call[i].at \in {"flushing", "waiting"}

(* While no file is damaged and no write was blind: the files hold what    *)
(* was acknowledged, so does the memory once it is loaded, and both hold   *)
(* the write of a call that is about to be acknowledged.                   *)
FilesHold ==
    /\ primary.is # "bad" /\ (primary.is = "missing" => lkg.is # "ok")
    /\ \A k \in Keys : Holds(Contents, k, promised[k], call)
    /\ active # 0 /\ body = "off" =>
          primary.is = "ok" /\ (call[active].del = "no" => Holds(Contents, call[active].key, active, call))
MemoryHolds ==
    /\ isStarted \/ clearing => isLoaded
    /\ ~isLoaded \/ clearing => records = Nothing
    /\ isLoaded => \A k \in Keys : Holds(records, k, promised[k], call)
    /\ \A i \in Ids : Underway(i) => isLoaded /\ ~clearing /\ (call[i].del = "no" => Holds(records, call[i].key, i, call))
    /\ ~isStarted /\ isLoaded /\ ~clearing => primary.is = "ok" /\ primary.map = records
Unharmed == faults = 0 /\ ~blind
NothingLost == Unharmed => FilesHold /\ MemoryHolds

(* Before any damage the primary file holds the last flush and, from the   *)
(* second on, the copy one of the last two.                                *)
CopiesFit ==
    /\ faults = 0 /\ flushes >= 1 => primary.is = "ok" /\ primary.map = flushed
    /\ faults = 0 /\ flushes = 2 => lkg.is = "ok" /\ lkg.map \in {flushed, previous}
    /\ faults = 1 /\ flushes = 2 => Readable /\ Contents \in {flushed, previous}

StoreIInv == StoreTypes /\ CallsFit /\ FlushFits /\ NothingLost /\ CopiesFit

LEMMA MaxOfTwo ==
    ASSUME NEW a \in Nat, NEW b \in Nat
    PROVE  Max({a, b}) = (IF a >= b THEN a ELSE b) /\ Min({a, b}) = (IF a <= b THEN a ELSE b)
  <1>1. CASE a >= b
    <2>1. \A x \in {a, b} : (\A y \in {a, b} : x >= y) => x = a
      BY <1>1
    <2>2. a \in {a, b} /\ \A y \in {a, b} : a >= y
      BY <1>1
    <2>3. Max({a, b}) = a
      BY <2>1, <2>2 DEF Max
    <2>4. \A x \in {a, b} : (\A y \in {a, b} : x =< y) => x = b
      BY <1>1
    <2>5. b \in {a, b} /\ \A y \in {a, b} : b =< y
      BY <1>1
    <2>6. Min({a, b}) = b
      BY <2>4, <2>5 DEF Min
    <2> QED
      BY <1>1, <2>3, <2>6
  <1>2. CASE ~(a >= b)
    <2>1. \A x \in {a, b} : (\A y \in {a, b} : x >= y) => x = b
      BY <1>2
    <2>2. b \in {a, b} /\ \A y \in {a, b} : b >= y
      BY <1>2
    <2>3. Max({a, b}) = b
      BY <2>1, <2>2 DEF Max
    <2>4. \A x \in {a, b} : (\A y \in {a, b} : x =< y) => x = a
      BY <1>2
    <2>5. a \in {a, b} /\ \A y \in {a, b} : a =< y
      BY <1>2
    <2>6. Min({a, b}) = a
      BY <2>4, <2>5 DEF Min
    <2> QED
      BY <1>2, <2>3, <2>6
  <1> QED
    BY <1>1, <1>2

(* Calls keep their key and kind, so what is held stays held.              *)
LaterCalls(cs, ds) ==
    \A i \in Ids : cs[i].at # "idle" => ds[i].key = cs[i].key /\ ds[i].del = cs[i].del /\ ds[i].at # "idle"

LEMMA HoldsLater ==
    ASSUME NEW cs, NEW ds, LaterCalls(cs, ds), NEW map, NEW k, NEW n, Holds(map, k, n, cs)
    PROVE  Holds(map, k, n, ds)
  BY DEF Holds, LaterCalls

LEMMA StoreFile ==
    ASSUME NEW map \in Maps
    PROVE  File(map) \in StoredFile /\ File(map).is = "ok" /\ File(map).map = map
  BY DEF File, StoredFile

LEMMA NothingIsMap == Nothing \in Maps /\ Missing \in StoredFile /\ Bad \in StoredFile
  <1>1. 0 \in 0..MaxWrites
    BY StoreAssumption
  <1> QED
    BY <1>1 DEF Nothing, Maps, Missing, Bad, StoredFile

LEMMA StoreInitFits == StoreInit => StoreIInv
  <1> SUFFICES ASSUME StoreInit PROVE StoreIInv
    OBVIOUS
  <1>1. StoreTypes
    <2>1. NoCall \in StoreCall
      BY DEF NoCall, StoreCall, CallPlaces
    <2>2. 0 \in 0..MaxWrites
      BY StoreAssumption
    <2>3. call \in [Ids -> StoreCall]
      BY <2>1 DEF StoreInit
    <2>4. isLoaded \in BOOLEAN /\ isStarted \in BOOLEAN /\ clearing \in BOOLEAN /\ blind \in BOOLEAN
      BY DEF StoreInit
    <2> QED
      BY <2>2, <2>3, <2>4, NothingIsMap DEF StoreInit, StoreTypes
  <1>2. CallsFit
    BY StoreAssumption DEF StoreInit, CallsFit, NoCall, Ids, Nothing
  <1>3. FlushFits /\ CopiesFit
    BY DEF StoreInit, FlushFits, CopiesFit, Missing
  <1>4. NothingLost
    <2>1. \A k \in Keys : Nothing[k] = 0
      BY DEF Nothing
    <2>2. FilesHold
      BY <2>1 DEF FilesHold, StoreInit, Contents, Holds, Missing
    <2>3. MemoryHolds
      BY <2>1 DEF MemoryHolds, StoreInit, Holds, Underway, NoCall
    <2> QED
      BY <2>2, <2>3 DEF NothingLost
  <1> QED
    BY <1>1, <1>2, <1>3, <1>4 DEF StoreIInv

LEMMA ContentsType == ASSUME StoreTypes PROVE Contents \in Maps
  BY DEF StoreTypes, Contents, StoredFile

(* A write: the record is in memory before the call takes its turn.        *)
LEMMA WriteKeeps ==
    ASSUME StoreIInv, NEW k \in Keys, NEW del \in {"yes", "no"}, NEW i, i = calls + 1, NEW n \in {0, i},
           del = "yes" \/ n = i,
           calls < MaxWrites, body = "off", calls' = i, records' = [records EXCEPT ![k] = n], isStarted' = TRUE,
           blind' = (blind \/ ~isLoaded \/ clearing), EnterFlush(k, del, i),
           UNCHANGED <<isLoaded, clearing, files, promised, flushed, previous, flushes, crashes, faults>>
    PROVE  StoreIInv'
  <1> USE DEF StoreIInv
  <1>1. /\ i \in Ids /\ calls \in Nat /\ MaxWrites \in Nat /\ i \in Nat /\ n \in 0..MaxWrites /\ i > calls /\ i # 0
        /\ call[i].at = "idle"
    BY StoreAssumption DEF StoreTypes, Ids, CallsFit
  <1>2. PICK new \in StoreCall : /\ call' = [call EXCEPT ![i] = new] /\ new.key = k /\ new.del = del
                                 /\ new.at = (IF active = 0 THEN "flushing" ELSE "waiting")
    <2>1. PICK place \in CallPlaces : place = IF active = 0 THEN "flushing" ELSE "waiting"
      BY DEF CallPlaces
    <2>2. PICK new \in StoreCall : new = [key |-> k, del |-> del, at |-> place]
      BY DEF StoreCall
    <2>3. call' = [call EXCEPT ![i] = new]
      BY <2>1, <2>2 DEF EnterFlush
    <2> QED
      BY <2>1, <2>2, <2>3
  <1>3. /\ call' \in [Ids -> StoreCall] /\ call'[i] = new /\ \A j \in Ids : j # i => call'[j] = call[j]
    BY <1>1, <1>2 DEF StoreTypes
  <1>4. LaterCalls(call, call')
    BY <1>1, <1>3 DEF LaterCalls
  <1>5. /\ \/ active = 0 /\ active' = i /\ body' = "begin" /\ waiting' = waiting
           \/ active # 0 /\ active' = active /\ body' = body /\ waiting' = waiting \cup {i}
    BY DEF EnterFlush
  <1>6. records' \in Maps /\ records'[k] = n /\ \A d \in Keys : d # k => records'[d] = records[d]
    BY <1>1 DEF StoreTypes, Maps
  <1>7. StoreTypes'
    <2>1. calls' \in 0..MaxWrites /\ blind' \in BOOLEAN /\ isStarted' \in BOOLEAN
      BY <1>1 DEF StoreTypes, Ids
    <2>2. active' \in {0} \cup Ids /\ waiting' \subseteq Ids /\ body' \in {"off", "begin", "backed up", "written"}
      BY <1>1, <1>5 DEF StoreTypes
    <2> QED
      BY <1>3, <1>6, <2>1, <2>2 DEF StoreTypes, files
  <1>8. CallsFit'
    <2>1. \A j \in Ids : IF j > i THEN call'[j].at = "idle" ELSE call'[j].key \in Keys
      <3>1. ASSUME NEW j \in Ids, j > i PROVE call'[j].at = "idle"
        <4>1. j > calls /\ j # i
          BY <1>1, <3>1 DEF Ids
        <4> QED
          BY <1>3, <4>1 DEF CallsFit
      <3>2. ASSUME NEW j \in Ids, ~(j > i) PROVE call'[j].key \in Keys
        <4>1. j = i \/ ~(j > calls)
          BY <1>1, <3>2 DEF Ids
        <4> QED
          BY <1>2, <1>3, <4>1 DEF CallsFit
      <3> QED
        BY <3>1, <3>2
    <2>2. \A d \in Keys : promised'[d] <= calls'
      <3>1. \A d \in Keys : promised[d] <= calls /\ promised[d] \in Nat
        BY DEF CallsFit, StoreTypes, Maps
      <3> QED
        BY <1>1, <3>1
    <2>3. active' # 0 => call'[active'].at = "flushing"
      BY <1>1, <1>2, <1>3, <1>5 DEF CallsFit, StoreTypes
    <2>4. \A j \in waiting' : call'[j].at = "waiting"
      BY <1>1, <1>2, <1>3, <1>5 DEF CallsFit, StoreTypes
    <2> QED
      BY <2>1, <2>2, <2>3, <2>4 DEF CallsFit
  <1>9. FlushFits'
    BY <1>1, <1>5 DEF FlushFits, files
  <1>10. CopiesFit'
    BY DEF CopiesFit, files, Readable, Contents
  <1>11. NothingLost'
    <2> SUFFICES ASSUME Unharmed' PROVE FilesHold' /\ MemoryHolds'
      BY DEF NothingLost
    <2>1. Unharmed /\ isLoaded /\ ~clearing
      BY DEF Unharmed, StoreTypes
    <2>2. FilesHold /\ MemoryHolds
      BY <2>1 DEF NothingLost
    <2>3. Contents' = Contents
      BY DEF Contents, files
    <2>4. FilesHold'
      <3>1. \A d \in Keys : Holds(Contents, d, promised[d], call')
        BY <1>4, <2>2, HoldsLater DEF FilesHold
      <3>2. ASSUME active' # 0, body' = "off"
            PROVE  primary.is = "ok" /\ (call'[active'].del = "no" => Holds(Contents, call'[active'].key, active', call'))
        <4>1. active' = active /\ active # 0 /\ active \in Ids /\ active # i
          BY <1>1, <1>5, <3>2 DEF StoreTypes, CallsFit
        <4>2. primary.is = "ok" /\ (call[active].del = "no" => Holds(Contents, call[active].key, active, call))
          BY <2>2, <4>1 DEF FilesHold
        <4> QED
          BY <1>3, <1>4, <4>1, <4>2, HoldsLater
      <3> QED
        BY <2>2, <2>3, <3>1, <3>2 DEF FilesHold, files
    <2>5. ASSUME NEW d \in Keys, NEW m \in Nat, m <= calls \/ (d = k /\ m = i /\ del = "no"),
                 Holds(records, d, m, call) \/ (d = k /\ m = i)
          PROVE  Holds(records', d, m, call')
      <3>1. CASE d # k
        <4>1. Holds(records, d, m, call')
          BY <1>4, <2>5, <3>1, HoldsLater
        <4> QED
          BY <1>6, <3>1, <4>1 DEF Holds
      <3>2. CASE d = k /\ n = i
        <4>1. records'[d] >= m
          BY <1>1, <1>6, <2>5, <3>2
        <4> QED
          BY <4>1 DEF Holds
      <3>3. CASE d = k /\ del = "yes"
        <4>1. i > m
          BY <1>1, <2>5, <3>3
        <4>2. call'[i].key = d /\ call'[i].del = "yes" /\ call'[i].at # "idle"
          BY <1>2, <1>3, <3>3
        <4> QED
          BY <1>1, <4>1, <4>2 DEF Holds
      <3> QED
        BY <3>1, <3>2, <3>3
    <2>6. MemoryHolds'
      <3>1. \A d \in Keys : Holds(records', d, promised[d], call')
        <4>1. \A d \in Keys : promised[d] \in Nat /\ promised[d] <= calls /\ Holds(records, d, promised[d], call)
          BY <2>1, <2>2 DEF StoreTypes, Maps, CallsFit, MemoryHolds
        <4> QED
          BY <2>5, <4>1
      <3>2. ASSUME NEW j \in Ids, call'[j].at \in {"flushing", "waiting"}, call'[j].del = "no"
            PROVE  Holds(records', call'[j].key, j, call')
        <4>1. CASE j = i
          <5>1. call'[j].key = k /\ del = "no" /\ j \in Nat
            BY <1>1, <1>2, <1>3, <3>2, <4>1
          <5> QED
            BY <2>5, <4>1, <5>1
        <4>2. CASE j # i
          <5>1. call'[j] = call[j] /\ Underway(j)
            BY <1>3, <3>2, <4>2 DEF Underway
          <5>2. ~(j > calls)
            BY <5>1 DEF CallsFit, Underway
          <5>3. call[j].key \in Keys /\ j \in Nat /\ j <= calls
            BY <1>1, <5>2 DEF CallsFit, Ids
          <5>4. Holds(records, call[j].key, j, call)
            BY <2>2, <3>2, <5>1 DEF MemoryHolds
          <5> QED
            BY <2>5, <5>1, <5>3, <5>4
        <4> QED
          BY <4>1, <4>2
      <3> QED
        BY <2>1, <3>1, <3>2 DEF MemoryHolds, Underway
    <2> QED
      BY <2>4, <2>6
  <1> QED
    BY <1>7, <1>8, <1>9, <1>10, <1>11

LEMMA WritesKeep ==
    ASSUME StoreIInv, NEW k \in Keys, SetRecord(k) \/ DeleteRecord(k)
    PROVE  StoreIInv'
  <1>1. CASE SetRecord(k)
    BY <1>1, WriteKeeps DEF SetRecord
  <1>2. CASE DeleteRecord(k)
    BY <1>2, WriteKeeps DEF DeleteRecord
  <1> QED
    BY <1>1, <1>2

(* What no step but a write and a load changes.                            *)
LEMMA ResumeKeeps ==
    ASSUME StoreIInv, NEW i \in Ids, Resume(i)
    PROVE  StoreIInv'
  <1> USE DEF StoreIInv
  <1>1. /\ UNCHANGED <<records, isLoaded, isStarted, clearing, primary, lkg, tmp, calls, promised, blind, flushed,
                       previous, flushes, faults>>
        /\ active = 0 /\ body = "off" /\ i \in waiting /\ waiting' = waiting \ {i} /\ active' = i /\ body' = "begin"
        /\ call' = [call EXCEPT ![i].at = "flushing"]
    BY DEF Resume, At, memory, files, storeHistory
  <1>2. /\ call' \in [Ids -> StoreCall] /\ call'[i].at = "flushing" /\ call'[i].key = call[i].key
        /\ call'[i].del = call[i].del /\ \A j \in Ids : j # i => call'[j] = call[j]
    BY <1>1 DEF StoreTypes, StoreCall, CallPlaces
  <1>3. i # 0 /\ i \in Nat /\ call[i].at = "waiting"
    BY <1>1 DEF Ids, CallsFit
  <1>4. LaterCalls(call, call')
    BY <1>2 DEF LaterCalls
  <1>5. StoreTypes'
    BY <1>1, <1>2 DEF StoreTypes
  <1>6. CallsFit'
    BY <1>1, <1>2, <1>3 DEF CallsFit, StoreTypes
  <1>7. FlushFits' /\ CopiesFit' /\ Contents' = Contents
    BY <1>1, <1>3 DEF FlushFits, CopiesFit, Readable, Contents
  <1>8. ASSUME Unharmed' PROVE FilesHold' /\ MemoryHolds'
    <2>1. FilesHold /\ MemoryHolds
      BY <1>1, <1>8 DEF NothingLost, Unharmed
    <2>2. FilesHold'
      BY <1>1, <1>4, <1>7, <2>1, HoldsLater DEF FilesHold
    <2>3. \A j \in Ids : Underway(j)' => Underway(j) /\ call'[j].del = call[j].del /\ call'[j].key = call[j].key
      BY <1>2, <1>3 DEF Underway
    <2>4. MemoryHolds'
      <3>1. isLoaded => \A k \in Keys : Holds(records, k, promised[k], call')
        BY <1>4, <2>1, HoldsLater DEF MemoryHolds
      <3>2. \A j \in Ids : Underway(j)' => /\ isLoaded /\ ~clearing
                                           /\ call'[j].del = "no" => Holds(records, call'[j].key, j, call')
        BY <1>4, <2>1, <2>3, HoldsLater DEF MemoryHolds
      <3> QED
        BY <1>1, <2>1, <3>1, <3>2 DEF MemoryHolds
    <2> QED
      BY <2>2, <2>4
  <1> QED
    BY <1>5, <1>6, <1>7, <1>8 DEF NothingLost

LEMMA FlushStepsKeep ==
    ASSUME StoreIInv, BackUp \/ WriteTmp
    PROVE  StoreIInv'
  <1> USE DEF StoreIInv
  <1>1. /\ UNCHANGED <<records, isLoaded, isStarted, clearing, primary, active, waiting, calls, call, promised, blind,
                       flushed, previous, flushes, faults>>
        /\ \/ body = "begin" /\ body' = "backed up" /\ tmp' = tmp /\ lkg' = (IF primary.is = "ok" THEN primary ELSE lkg)
           \/ body = "backed up" /\ body' = "written" /\ tmp' = File(records) /\ lkg' = lkg
    BY DEF BackUp, WriteTmp, memory, writes, storeHistory
  <1>2. active # 0 /\ body # "off"
    BY <1>1 DEF FlushFits
  <1>3. StoreTypes'
    BY <1>1, StoreFile DEF StoreTypes
  <1>4. CallsFit' /\ FlushFits'
    BY <1>1, <1>2 DEF CallsFit, FlushFits
  <1>5. Contents' = Contents /\ (Readable => Readable')
    BY <1>1 DEF Contents, Readable
  <1>6. CopiesFit'
    <2>1. flushes = 2 => flushes >= 1
      OBVIOUS
    <2> QED
      BY <1>1, <1>5, <2>1 DEF CopiesFit
  <1>7. NothingLost'
    BY <1>1, <1>5 DEF NothingLost, Unharmed, FilesHold, MemoryHolds, Underway
  <1> QED
    BY <1>3, <1>4, <1>6, <1>7

LEMMA FailureKeeps ==
    ASSUME StoreIInv, FlushFails
    PROVE  StoreIInv'
  <1> USE DEF StoreIInv
  <1>1. /\ UNCHANGED <<records, isLoaded, isStarted, clearing, primary, lkg, calls, promised, blind,
                       flushed, previous, flushes, faults>>
        /\ active' = 0 /\ waiting' = {} /\ body' = "off" /\ tmp' \in {tmp, Missing, Bad}
        /\ call' = [i \in Ids |-> IF i = active \/ i \in waiting THEN [call[i] EXCEPT !.at = "failed"] ELSE call[i]]
    BY DEF FlushFails, memory, storeHistory
  <1>2. \A i \in Ids : /\ call'[i] \in StoreCall /\ call'[i].key = call[i].key /\ call'[i].del = call[i].del
                       /\ call'[i].at \in {call[i].at, "failed"}
                       /\ (i = active \/ i \in waiting) => call'[i].at = "failed"
                       /\ ~(i = active \/ i \in waiting) => call'[i] = call[i]
    BY <1>1 DEF StoreTypes, StoreCall, CallPlaces
  <1>3. call' \in [Ids -> StoreCall] /\ LaterCalls(call, call')
    BY <1>1, <1>2 DEF LaterCalls
  <1>4. StoreTypes'
    BY <1>1, <1>3, NothingIsMap DEF StoreTypes
  <1>5. CallsFit'
    <2>1. \A i \in Ids : i > calls => call[i].at = "idle"
      BY DEF CallsFit
    <2>2. \A i \in Ids : i # 0
      BY DEF Ids
    <2>3. \A i \in Ids : i > calls => i # active /\ i \notin waiting
      BY <2>1, <2>2 DEF CallsFit
    <2> QED
      BY <1>1, <1>2, <2>3 DEF CallsFit
  <1>6. FlushFits' /\ CopiesFit' /\ Contents' = Contents
    BY <1>1 DEF FlushFits, CopiesFit, Contents, Readable
  <1>7. ASSUME Unharmed' PROVE FilesHold' /\ MemoryHolds'
    <2>1. FilesHold /\ MemoryHolds
      BY <1>1, <1>7 DEF NothingLost, Unharmed
    <2>2. FilesHold'
      BY <1>1, <1>3, <1>6, <2>1, HoldsLater DEF FilesHold
    <2>3. \A j \in Ids : Underway(j)' => Underway(j) /\ call'[j].del = call[j].del /\ call'[j].key = call[j].key
      BY <1>2 DEF Underway
    <2>4. MemoryHolds'
      <3>1. isLoaded => \A k \in Keys : Holds(records, k, promised[k], call')
        BY <1>3, <2>1, HoldsLater DEF MemoryHolds
      <3>2. \A j \in Ids : Underway(j)' => /\ isLoaded /\ ~clearing
                                           /\ call'[j].del = "no" => Holds(records, call'[j].key, j, call')
        BY <1>3, <2>1, <2>3, HoldsLater DEF MemoryHolds
      <3> QED
        BY <1>1, <2>1, <3>1, <3>2 DEF MemoryHolds
    <2> QED
      BY <2>2, <2>4
  <1> QED
    BY <1>4, <1>5, <1>6, <1>7 DEF NothingLost

(* The rename and stop: the primary file is what memory holds, the copy    *)
(* what the primary file was.                                              *)
LEMMA FlushLands ==
    ASSUME StoreIInv, primary' = File(records), lkg' = IF primary.is = "ok" THEN primary ELSE lkg,
           tmp' \in StoredFile, isLoaded' = TRUE, isStarted' \in BOOLEAN, isStarted' => isStarted,
           flushed' = records, previous' = flushed, flushes' = Min({2, flushes + 1}), body' = "off",
           \/ active = 0 /\ isStarted
           \/ active # 0,
           UNCHANGED <<records, clearing, active, waiting, calls, call, promised, blind, faults>>
    PROVE  StoreIInv'
  <1> USE DEF StoreIInv
  <1>1. primary' \in StoredFile /\ primary'.is = "ok" /\ primary'.map = records /\ lkg' \in StoredFile
    BY StoreFile DEF StoreTypes
  <1>2. flushes' \in 0..2 /\ (flushes' = 2 => flushes >= 1)
    <2>a. flushes \in 0..2
      BY DEF StoreTypes
    <2>1. flushes + 1 \in Nat /\ 2 \in Nat /\ flushes \in 0..2
      BY <2>a
    <2>2. flushes' = IF 2 <= flushes + 1 THEN 2 ELSE flushes + 1
      BY <2>1, MaxOfTwo
    <2> QED
      BY <2>1, <2>2
  <1>3. StoreTypes'
    BY <1>1, <1>2 DEF StoreTypes
  <1>4. CallsFit' /\ FlushFits'
    BY <1>1 DEF CallsFit, FlushFits
  <1>5. Contents' = records /\ Readable'
    BY <1>1 DEF Contents, Readable
  <1>6. CopiesFit'
    BY <1>1, <1>2, <1>5 DEF CopiesFit
  <1>7. ASSUME Unharmed' PROVE FilesHold' /\ MemoryHolds'
    <2>1. FilesHold /\ MemoryHolds /\ (active # 0 => active \in Ids /\ Underway(active))
      BY <1>7 DEF NothingLost, Unharmed, CallsFit, StoreTypes, Underway
    <2>2. isLoaded
      BY <2>1 DEF MemoryHolds
    <2>3. FilesHold'
      BY <1>1, <1>5, <2>1, <2>2 DEF FilesHold, MemoryHolds
    <2>4. MemoryHolds'
      BY <1>1, <2>1, <2>2 DEF MemoryHolds, Underway
    <2> QED
      BY <2>3, <2>4
  <1> QED
    BY <1>3, <1>4, <1>6, <1>7 DEF NothingLost

LEMMA LandingsKeep ==
    ASSUME StoreIInv, Rename \/ StoreStops
    PROVE  StoreIInv'
  <1>1. CASE Rename
    <2>1. tmp = File(records) /\ active # 0 /\ (primary.is = "ok" => lkg = primary) /\ body = "written"
      BY <1>1 DEF Rename, StoreIInv, FlushFits
    <2>2. tmp.map = records
      BY <2>1, StoreFile DEF StoreIInv, StoreTypes
    <2>3. /\ primary' = File(records) /\ lkg' = (IF primary.is = "ok" THEN primary ELSE lkg) /\ tmp' \in StoredFile
          /\ isLoaded' = TRUE /\ isStarted' = isStarted /\ isStarted \in BOOLEAN
          /\ flushed' = records /\ previous' = flushed /\ flushes' = Min({2, flushes + 1}) /\ body' = "off"
          /\ UNCHANGED <<records, clearing, active, waiting, calls, call, promised, blind, faults>>
      BY <1>1, <2>1, <2>2, NothingIsMap DEF Rename, writes, StoreIInv, StoreTypes
    <2> QED
      BY <2>1, <2>3, FlushLands
  <1>2. CASE StoreStops
    <2>1. /\ primary' = File(records) /\ lkg' = (IF primary.is = "ok" THEN primary ELSE lkg) /\ tmp' \in StoredFile
          /\ isLoaded' = TRUE /\ isStarted' = FALSE /\ active = 0 /\ isStarted
          /\ flushed' = records /\ previous' = flushed /\ flushes' = Min({2, flushes + 1}) /\ body' = "off"
          /\ UNCHANGED <<records, clearing, active, waiting, calls, call, promised, blind, faults>>
      BY <1>2 DEF StoreStops, writes, turns, StoreIInv, StoreTypes
    <2> QED
      BY <2>1, FlushLands
  <1> QED
    BY <1>1, <1>2

(* The call is acknowledged: what it wrote is in memory and in the files.  *)
LEMMA SettlingKeeps ==
    ASSUME StoreIInv, FlushSettles
    PROVE  StoreIInv'
  <1> USE DEF StoreIInv
  <1>1. /\ UNCHANGED <<records, isLoaded, isStarted, clearing, waiting, primary, lkg, tmp, calls, blind, flushed,
                       previous, flushes, faults, body>>
        /\ active # 0 /\ active \in Ids /\ body = "off" /\ active' = 0
        /\ call' = [call EXCEPT ![active].at = "acknowledged"]
    BY DEF FlushSettles, At, memory, files, StoreTypes
  <1>2. call[active].at = "flushing" /\ active \in Nat /\ ~(active > calls) /\ call[active].key \in Keys /\ calls \in Nat
    <2>1. call[active].at = "flushing" /\ calls \in 0..MaxWrites
      BY <1>1 DEF CallsFit, StoreTypes
    <2>2. ~(active > calls)
      BY <1>1, <2>1 DEF CallsFit
    <2> QED
      BY <1>1, <2>1, <2>2, StoreAssumption DEF CallsFit, Ids
  <1>3. /\ call' \in [Ids -> StoreCall] /\ call'[active].at = "acknowledged" /\ call'[active].key = call[active].key
        /\ call'[active].del = call[active].del /\ \A j \in Ids : j # active => call'[j] = call[j]
    BY <1>1 DEF StoreTypes, StoreCall, CallPlaces
  <1>4. LaterCalls(call, call')
    BY <1>3 DEF LaterCalls
  <1>5. PICK key \in Keys : key = call[active].key
    BY <1>2
  <1>6. promised \in Maps /\ promised[key] \in Nat /\ promised[key] \in 0..MaxWrites /\ active \in 0..MaxWrites
    BY <1>1 DEF StoreTypes, Maps, Ids
  <1>7. /\ promised' \in Maps /\ \A k \in Keys : k # key => promised'[k] = promised[k]
        /\ \/ promised'[key] = promised[key]
           \/ promised'[key] = active /\ call[active].del = "no"
    <2>1. promised' = [promised EXCEPT ![key] = IF call[active].del = "yes" THEN promised[key]
                                                ELSE Max({promised[key], active})]
      BY <1>5 DEF FlushSettles
    <2>2. Max({promised[key], active}) \in {promised[key], active}
      BY <1>2, <1>6, MaxOfTwo
    <2>3. call[active].del \in {"yes", "no"}
      BY <1>1 DEF StoreTypes, StoreCall
    <2>4. PICK v \in 0..MaxWrites : /\ v = IF call[active].del = "yes" THEN promised[key] ELSE Max({promised[key], active})
                                    /\ v = promised[key] \/ (v = active /\ call[active].del = "no")
      BY <1>6, <2>2, <2>3
    <2> QED
      BY <1>6, <2>1, <2>4 DEF Maps
  <1>8. StoreTypes'
    BY <1>1, <1>3, <1>7 DEF StoreTypes
  <1>9. CallsFit'
    <2>1. \A k \in Keys : promised'[k] <= calls
      <3>1. \A k \in Keys : promised[k] <= calls
        BY DEF CallsFit
      <3>2. active <= calls
        BY <1>2
      <3> QED
        BY <1>7, <3>1, <3>2
    <2>2. \A j \in Ids : j > calls => j # active
      BY <1>2
    <2>3. \A j \in Ids : IF j > calls THEN call'[j].at = "idle" ELSE call'[j].key \in Keys
      BY <1>2, <1>3, <2>2 DEF CallsFit
    <2>4. \A j \in waiting : j \in Ids /\ j # active
      BY <1>2 DEF CallsFit, StoreTypes
    <2> QED
      BY <1>1, <1>3, <2>1, <2>3, <2>4 DEF CallsFit
  <1>10. FlushFits' /\ CopiesFit' /\ Contents' = Contents
    BY <1>1 DEF FlushFits, CopiesFit, Contents, Readable
  <1>11. ASSUME Unharmed' PROVE FilesHold' /\ MemoryHolds'
    <2>1. FilesHold /\ MemoryHolds /\ Underway(active)
      BY <1>1, <1>2, <1>11 DEF NothingLost, Unharmed, Underway
    <2>2. FilesHold'
      <3>1. \A k \in Keys : Holds(Contents, k, promised'[k], call')
        <4>1. \A k \in Keys : Holds(Contents, k, promised'[k], call)
          BY <1>1, <1>5, <1>7, <2>1 DEF FilesHold
        <4> QED
          BY <1>4, <4>1, HoldsLater
      <3> QED
        BY <1>1, <1>10, <2>1, <3>1 DEF FilesHold
    <2>3. \A j \in Ids : Underway(j)' => Underway(j) /\ call'[j].del = call[j].del /\ call'[j].key = call[j].key
      BY <1>3 DEF Underway
    <2>4. MemoryHolds'
      <3>1. isLoaded => \A k \in Keys : Holds(records, k, promised'[k], call')
        <4>1. isLoaded => \A k \in Keys : Holds(records, k, promised'[k], call)
          BY <1>1, <1>5, <1>7, <2>1 DEF MemoryHolds
        <4> QED
          BY <1>4, <4>1, HoldsLater
      <3>2. \A j \in Ids : Underway(j)' => /\ isLoaded /\ ~clearing
                                           /\ call'[j].del = "no" => Holds(records, call'[j].key, j, call')
        BY <1>4, <2>1, <2>3, HoldsLater DEF MemoryHolds
      <3> QED
        BY <1>1, <2>1, <3>1, <3>2 DEF MemoryHolds
    <2> QED
      BY <2>2, <2>4
  <1> QED
    BY <1>8, <1>9, <1>10, <1>11 DEF NothingLost

(* A load gives memory what the files hold; a load of a store that already *)
(* is loaded finds there what memory holds.                                *)
LEMMA LoadsKeep ==
    ASSUME StoreIInv, StoreStarts \/ GetLoads
    PROVE  StoreIInv'
  <1> USE DEF StoreIInv
  <1>1. /\ body = "off" /\ LoadFiles /\ isLoaded' = TRUE /\ tmp' = Missing
        /\ UNCHANGED <<active, waiting, body, lkg, calls, call, promised, blind, flushed, previous, flushes, faults>>
        /\ \/ ~isStarted /\ ~clearing /\ isStarted' = Readable
           \/ ~isLoaded /\ isStarted' = TRUE
    BY DEF StoreStarts, GetLoads, LoadFiles, turns, writes, storeHistory
  <1>2. Contents \in Maps
    BY ContentsType
  <1>3. /\ Readable => records' = Contents /\ primary' = File(Contents) /\ clearing' = clearing
        /\ ~Readable => records' = records /\ primary' = primary /\ clearing' = TRUE
    BY <1>1 DEF LoadFiles
  <1>4. Contents' = Contents /\ Readable' = Readable /\ (primary.is = "ok" => primary'.is = "ok" /\ primary'.map = primary.map)
    BY <1>1, <1>2, <1>3, StoreFile DEF Contents, Readable
  <1>5. StoreTypes'
    <2>1. isStarted' \in BOOLEAN
      BY <1>1 DEF Readable
    <2>2. primary' \in StoredFile /\ records' \in Maps /\ clearing' \in BOOLEAN
      BY <1>2, <1>3, StoreFile DEF StoreTypes
    <2> QED
      BY <1>1, <2>1, <2>2, NothingIsMap DEF StoreTypes
  <1>6. CallsFit' /\ CopiesFit'
    BY <1>1, <1>4 DEF CallsFit, CopiesFit
  <1>7. FlushFits'
    BY <1>1, <1>2, <1>3, StoreFile DEF FlushFits
  <1>8. ASSUME Unharmed' PROVE FilesHold' /\ MemoryHolds'
    <2>1. FilesHold /\ MemoryHolds
      BY <1>1, <1>8 DEF NothingLost, Unharmed
    <2>2. primary'.is # "bad" /\ (primary'.is = "missing" => lkg'.is # "ok")
      BY <1>1, <1>2, <1>3, <2>1, StoreFile DEF FilesHold
    <2>3. FilesHold'
      BY <1>1, <1>4, <2>1, <2>2 DEF FilesHold
    <2>4. CASE ~isLoaded
      <3>1. records = Nothing /\ ~clearing /\ \A i \in Ids : ~Underway(i)
        BY <2>1, <2>4 DEF MemoryHolds
      <3>2. CASE Readable
        <4>a. isStarted'
          BY <1>1, <3>2, Zenon
        <4>b. clearing' = clearing /\ records' = Contents
          BY <1>3, <3>2
        <4>c. isLoaded'
          BY <1>1
        <4>1. isLoaded' /\ isStarted' /\ ~clearing' /\ records' = Contents
          BY <3>1, <4>a, <4>b, <4>c
        <4>2. \A k \in Keys : Holds(records', k, promised'[k], call')
          BY <1>1, <2>1, <4>1 DEF FilesHold
        <4>3. \A i \in Ids : ~Underway(i)'
          BY <1>1, <3>1 DEF Underway
        <4> QED
          BY <2>3, <4>1, <4>2, <4>3 DEF MemoryHolds
      <3>3. CASE ~Readable
        <4>1. Contents = Nothing
          BY <3>3 DEF Readable, Contents, FlushFits
        <4>2. isLoaded' /\ clearing' /\ records' = Nothing
          BY <1>1, <1>3, <3>1, <3>3
        <4>3. \A k \in Keys : Holds(records', k, promised'[k], call')
          BY <1>1, <2>1, <4>1, <4>2 DEF FilesHold
        <4>4. \A i \in Ids : ~Underway(i)'
          BY <1>1, <3>1 DEF Underway
        <4> QED
          BY <2>3, <4>2, <4>3, <4>4 DEF MemoryHolds
      <3> QED
        BY <3>2, <3>3
    <2>5. CASE isLoaded
      <3>1. ~isStarted /\ ~clearing /\ isStarted' = Readable
        BY <1>1, <2>5
      <3>2. primary.is = "ok" /\ primary.map = records
        BY <2>1, <2>5, <3>1 DEF MemoryHolds
      <3>3. Readable /\ Contents = records
        BY <3>2 DEF Readable, Contents
      <3>4. records' = records /\ clearing' = clearing /\ isStarted'
        BY <1>3, <3>1, <3>3
      <3> QED
        BY <1>1, <2>1, <2>3, <2>5, <3>1, <3>4 DEF MemoryHolds, Underway
    <2> QED
      BY <2>3, <2>4, <2>5
  <1> QED
    BY <1>5, <1>6, <1>7, <1>8 DEF NothingLost

LEMMA ClearingKeeps ==
    ASSUME StoreIInv, LoadEmpty
    PROVE  StoreIInv'
  <1> USE DEF StoreIInv
  <1>1. /\ body = "off" /\ clearing /\ clearing' = FALSE /\ records' = Nothing
        /\ isStarted' = (IF primary.is = "bad" THEN isStarted ELSE TRUE)
        /\ UNCHANGED <<isLoaded, active, waiting, body, primary, lkg, tmp, calls, call, promised, blind, flushed,
                       previous, flushes, faults>>
    BY DEF LoadEmpty, turns, files, writes, storeHistory
  <1>2. StoreTypes'
    BY <1>1, NothingIsMap DEF StoreTypes
  <1>3. CallsFit' /\ FlushFits' /\ CopiesFit' /\ Contents' = Contents
    BY <1>1 DEF CallsFit, FlushFits, CopiesFit, Contents, Readable
  <1>4. ASSUME Unharmed' PROVE FilesHold' /\ MemoryHolds'
    <2>1. FilesHold /\ MemoryHolds
      BY <1>1, <1>4 DEF NothingLost, Unharmed
    <2>2. isStarted' = TRUE /\ records = Nothing /\ isLoaded /\ \A i \in Ids : ~Underway(i)
      BY <1>1, <2>1 DEF FilesHold, MemoryHolds
    <2> QED
      BY <1>1, <1>3, <2>1, <2>2 DEF FilesHold, MemoryHolds, Underway
  <1> QED
    BY <1>2, <1>3, <1>4 DEF NothingLost

(* The process dies, or a file is damaged.                                 *)
LEMMA CrashKeeps ==
    ASSUME StoreIInv, StoreCrash
    PROVE  StoreIInv'
  <1> USE DEF StoreIInv
  <1>1. /\ records' = Nothing /\ isLoaded' = FALSE /\ isStarted' = FALSE /\ clearing' = FALSE
        /\ active' = 0 /\ waiting' = {} /\ body' = "off"
        /\ call' = [i \in Ids |-> IF call[i].at \in {"waiting", "flushing"} THEN [call[i] EXCEPT !.at = "lost"] ELSE call[i]]
        /\ tmp' \in {tmp, Bad}
        /\ \/ lkg' = lkg /\ faults' = faults
           \/ body = "begin" /\ primary.is = "ok" /\ lkg' = Bad /\ faults' = faults + 1
        /\ UNCHANGED <<primary, calls, promised, blind, flushed, previous, flushes>>
    BY DEF StoreCrash, storeHistory
  <1>2. \A i \in Ids : /\ call'[i] \in StoreCall /\ call'[i].key = call[i].key /\ call'[i].del = call[i].del
                       /\ call'[i].at \notin {"waiting", "flushing"} /\ (call'[i].at = "idle" <=> call[i].at = "idle")
    BY <1>1 DEF StoreTypes, StoreCall, CallPlaces
  <1>3. call' \in [Ids -> StoreCall] /\ LaterCalls(call, call')
    BY <1>1, <1>2 DEF LaterCalls
  <1>4. StoreTypes'
    <2>a. faults \in Nat
      BY DEF StoreTypes
    <2>1. faults' \in Nat
      BY <1>1, <2>a
    <2>2. lkg' \in StoredFile /\ tmp' \in StoredFile
      BY <1>1, NothingIsMap DEF StoreTypes
    <2> QED
      BY <1>1, <1>3, <2>1, <2>2, NothingIsMap DEF StoreTypes
  <1>5. CallsFit' /\ FlushFits'
    <2>1. CallsFit'
      BY <1>1, <1>2 DEF CallsFit
    <2>a. lkg'.is # "ok" => lkg'.map = Nothing
      <3>1. Bad.map = Nothing
        BY DEF Bad
      <3> QED
        BY <1>1, <3>1 DEF FlushFits
    <2>2. FlushFits'
      BY <1>1, <2>a DEF FlushFits
    <2> QED
      BY <2>1, <2>2
  <1>6. CASE lkg' = lkg /\ faults' = faults
    <2>1. Contents' = Contents /\ CopiesFit'
      BY <1>1, <1>6 DEF Contents, CopiesFit, Readable
    <2>2. ASSUME Unharmed' PROVE FilesHold' /\ MemoryHolds'
      <3>1. FilesHold
        BY <1>1, <1>6, <2>2 DEF NothingLost, Unharmed
      <3>2. FilesHold'
        BY <1>1, <1>3, <1>6, <2>1, <3>1, HoldsLater DEF FilesHold
      <3>3. MemoryHolds'
        BY <1>1, <1>2 DEF MemoryHolds, Underway
      <3> QED
        BY <3>2, <3>3
    <2> QED
      BY <1>4, <1>5, <2>1, <2>2 DEF NothingLost
  <1>7. CASE primary.is = "ok" /\ faults' = faults + 1
    <2>a. faults \in Nat
      BY DEF StoreTypes
    <2>1. faults \in Nat /\ faults' # 0 /\ (faults' = 1 => faults = 0) /\ (flushes = 2 => flushes >= 1)
      BY <1>7, <2>a
    <2>2. Contents' = primary.map /\ Readable'
      BY <1>1, <1>7 DEF Contents, Readable
    <2>3. CopiesFit'
      BY <1>1, <2>1, <2>2 DEF CopiesFit
    <2> QED
      BY <1>4, <1>5, <2>1, <2>3 DEF NothingLost, Unharmed
  <1> QED
    BY <1>1, <1>6, <1>7

LEMMA DamageKeeps ==
    ASSUME StoreIInv, Damage
    PROVE  StoreIInv'
  <1> USE DEF StoreIInv
  <1>1. /\ body = "off" /\ faults' = faults + 1 /\ primary' \in {Bad, Missing}
        /\ UNCHANGED <<records, isLoaded, isStarted, clearing, active, waiting, body, lkg, tmp, calls, call, promised,
                       blind, flushed, previous, flushes>>
    BY DEF Damage, memory, turns, writes, storeHistory
  <1>2. faults \in Nat /\ faults' \in Nat /\ faults' # 0 /\ (faults' = 1 => faults = 0)
    BY <1>1 DEF StoreTypes
  <1>3. StoreTypes'
    BY <1>1, <1>2, NothingIsMap DEF StoreTypes
  <1>4. CallsFit' /\ FlushFits'
    BY <1>1 DEF CallsFit, FlushFits, Bad, Missing
  <1>5. Contents' = lkg.map /\ (Readable' <=> lkg.is = "ok")
    BY <1>1 DEF Contents, Readable, Bad, Missing
  <1>6. CopiesFit'
    BY <1>1, <1>2, <1>5 DEF CopiesFit
  <1> QED
    BY <1>2, <1>3, <1>4, <1>6 DEF NothingLost, Unharmed

(* A crash between any two file operations loses nothing acknowledged, and *)
(* one damaged file costs at most the last flush: for any number of keys,  *)
(* writers that share flushes, crashes and loads (flush and loadFromDisk). *)
THEOREM StoreIsAlwaysDurable == StoreSpec => []StoreIsDurable
  <1>1. StoreIInv /\ [StoreNext]_storeVars => StoreIInv'
    <2> SUFFICES ASSUME StoreIInv, [StoreNext]_storeVars PROVE StoreIInv'
      OBVIOUS
    <2>1. CASE UNCHANGED storeVars
      <3>1. UNCHANGED <<records, isLoaded, isStarted, clearing, active, waiting, body, primary, lkg, tmp, calls, call,
                        promised, blind, flushed, previous, flushes, faults>>
        BY <2>1 DEF storeVars, memory, turns, files, writes, storeHistory
      <3>2. StoreTypes'
        BY <3>1 DEF StoreIInv, StoreTypes
      <3>3. CallsFit' /\ FlushFits'
        BY <3>1 DEF StoreIInv, CallsFit, FlushFits
      <3>4. NothingLost'
        BY <3>1 DEF StoreIInv, NothingLost, Unharmed, FilesHold, MemoryHolds, Underway, Contents
      <3>5. CopiesFit'
        BY <3>1 DEF StoreIInv, CopiesFit, Contents, Readable
      <3> QED
        BY <3>2, <3>3, <3>4, <3>5 DEF StoreIInv
    <2>2. CASE StoreNext
      BY <2>2, WritesKeep, ResumeKeeps, FlushStepsKeep, LandingsKeep, FailureKeeps, SettlingKeeps, ClearingKeeps,
         LoadsKeep, CrashKeeps, DamageKeeps DEF StoreNext
    <2> QED
      BY <2>1, <2>2
  <1>2. StoreIInv => StoreIsDurable
    <2> SUFFICES ASSUME StoreIInv PROVE AcknowledgedSurvives /\ OneFileIsEnough
      BY DEF StoreIsDurable
    <2>1. AcknowledgedSurvives
      BY DEF AcknowledgedSurvives, StoreIInv, NothingLost, Unharmed, FilesHold, Holds, Deletes
    <2>2. OneFileIsEnough
      <3> SUFFICES ASSUME faults <= 1, flushes = 2 PROVE Readable /\ Contents \in {flushed, previous}
        BY DEF OneFileIsEnough
      <3>a. faults \in Nat
        BY DEF StoreIInv, StoreTypes
      <3>1. faults = 0 \/ faults = 1
        BY <3>a
      <3>2. flushes >= 1
        OBVIOUS
      <3> QED
        BY <3>1, <3>2 DEF StoreIInv, CopiesFit, Readable, Contents
    <2> QED
      BY <2>1, <2>2
  <1> QED
    BY <1>1, <1>2, StoreInitFits, PTL DEF StoreSpec

-----------------------------------------------------------------------------
(* The telemetry spool.                                                    *)

SpoolTypeOK ==
  /\ spool \in Seq(Events) /\ savedSpool \in Seq(Events) /\ spoolFull \in BOOLEAN
  /\ spoolMetrics \in [critical : Nat, nonCritical : Nat, usedBytes : Nat]

\* A queue within its bounds; the file is one, too.
SpoolFits(items) ==
  /\ Len(items) <= HardMaxSpool
  /\ Len(items) > MaxSpool => Elements(items) \subseteq CriticalEvents

\* The file lags behind only when the spool reports itself full, and the bytes that
\* were counted are never fewer than the items.
SpoolIInv ==
  /\ SpoolTypeOK
  /\ SpoolFits(spool) /\ SpoolFits(savedSpool)
  /\ (spooled \cap CriticalEvents) \ unspooled \subseteq Elements(spool)
  /\ ~spoolFull => savedSpool = spool
  /\ Len(spool) <= spoolMetrics.usedBytes

\* What a call that persists the spool has to see to.
LEMMA SpoolPersistedStep ==
  ASSUME SpoolIInv, NEW items \in Seq(Events), NEW full \in BOOLEAN,
         SpoolPersisted(items, full), SpoolFits(items),
         (spooled' \cap CriticalEvents) \ unspooled' \subseteq Elements(items),
         spoolMetrics' \in [critical : Nat, nonCritical : Nat, usedBytes : Nat],
         Len(items) <= spoolMetrics'.usedBytes
  PROVE  SpoolIInv'
  BY DEF SpoolIInv, SpoolTypeOK, SpoolPersisted, SpoolFits, HardMaxSpool, Elements

\* The counters stay natural numbers, and an addition counts a byte.
LEMMA MetricsStep ==
  ASSUME NEW m \in [critical : Nat, nonCritical : Nat, usedBytes : Nat], NEW e
  PROVE  /\ Added(m, e) \in [critical : Nat, nonCritical : Nat, usedBytes : Nat]
         /\ Added(m, e).usedBytes = m.usedBytes + 1
         /\ Evicted(m) \in [critical : Nat, nonCritical : Nat, usedBytes : Nat]
         /\ Evicted(m).usedBytes = m.usedBytes
  <1>1. m.critical \in Nat /\ m.nonCritical \in Nat /\ m.usedBytes \in Nat
    OBVIOUS
  <1>3. Evicted(m) = [critical |-> m.critical,
                      nonCritical |-> IF m.nonCritical >= 1 THEN m.nonCritical - 1 ELSE m.nonCritical,
                      usedBytes |-> m.usedBytes]
    BY DEF Evicted
  <1>4. Added(m, e) \in [critical : Nat, nonCritical : Nat, usedBytes : Nat]
    BY <1>1 DEF Added
  <1>5. Evicted(m) \in [critical : Nat, nonCritical : Nat, usedBytes : Nat]
    BY <1>1, <1>3
  <1> QED
    BY <1>3, <1>4, <1>5 DEF Added

\* One more item at the end.
LEMMA SpoolAppended ==
  ASSUME NEW items \in Seq(Events), NEW e \in Events
  PROVE  /\ Append(items, e) \in Seq(Events) /\ Len(Append(items, e)) = Len(items) + 1
         /\ Elements(Append(items, e)) = Elements(items) \cup {e}
  <1>1. /\ Append(items, e) \in Seq(Events) /\ Len(Append(items, e)) = Len(items) + 1
        /\ \A i \in 1 .. Len(items) : Append(items, e)[i] = items[i]
        /\ Append(items, e)[Len(items) + 1] = e
    OBVIOUS
  <1>2. DOMAIN Append(items, e) = 1 .. Len(items) + 1 /\ DOMAIN items = 1 .. Len(items) /\ Len(items) \in Nat
    BY <1>1
  <1>3. ASSUME NEW i \in DOMAIN Append(items, e) PROVE Append(items, e)[i] \in Elements(items) \cup {e}
    <2>1. i = Len(items) + 1 \/ i \in 1 .. Len(items)
      BY <1>2
    <2> QED
      BY <1>1, <1>2, <2>1 DEF Elements
  <1>4. ASSUME NEW i \in DOMAIN items PROVE items[i] \in Elements(Append(items, e))
    <2>1. i \in DOMAIN Append(items, e) /\ items[i] = Append(items, e)[i]
      BY <1>1, <1>2
    <2> QED
      BY <2>1 DEF Elements
  <1>5. e \in Elements(Append(items, e))
    <2>1. Len(items) + 1 \in DOMAIN Append(items, e)
      BY <1>2
    <2> QED
      BY <1>1, <2>1 DEF Elements
  <1> QED
    BY <1>1, <1>3, <1>4, <1>5 DEF Elements

\* A spool with nothing to evict holds critical events only.
LEMMA NoSpoolVictim ==
  ASSUME spool \in Seq(Events), SpoolVictim = {}
  PROVE  Elements(spool) \subseteq CriticalEvents
  <1> DEFINE T == {i \in DOMAIN spool : spool[i] \notin CriticalEvents}
  <1>1. Len(spool) \in Nat /\ DOMAIN spool = 1 .. Len(spool) /\ T \subseteq 1 .. Len(spool)
    OBVIOUS
  <1>2. T = {}
    <2> SUFFICES ASSUME T # {} PROVE FALSE
      OBVIOUS
    <2>1. PICK i \in T : \A j \in 1 .. i - 1 : j \notin T
      BY <1>1, FirstPlace
    <2>2. \A j \in 1 .. i - 1 : j \in DOMAIN spool
      BY <1>1
    <2>3. i \in SpoolVictim
      BY <2>1, <2>2 DEF SpoolVictim
    <2> QED
      BY <2>3
  <1> QED
    BY <1>2 DEF Elements

\* trackEvent, with room, by eviction or beyond the limit.
LEMMA EnqueueItemStep ==
  ASSUME SpoolIInv, NEW e \in Events, EnqueueItem(e)
  PROVE  SpoolIInv'
  <1>1. /\ spool \in Seq(Events) /\ spoolFull \in BOOLEAN /\ Len(spool) \in Nat /\ MaxSpool \in Nat
        /\ spoolMetrics \in [critical : Nat, nonCritical : Nat, usedBytes : Nat]
        /\ Len(spool) <= spoolMetrics.usedBytes
    BY SpoolAssumption DEF SpoolIInv, SpoolTypeOK
  <1>2. /\ spoolMetrics.usedBytes \in Nat /\ Evicted(spoolMetrics) \in [critical : Nat, nonCritical : Nat, usedBytes : Nat]
        /\ Evicted(spoolMetrics).usedBytes = spoolMetrics.usedBytes
    BY <1>1, MetricsStep
  <1>3. spooled' = spooled \cup {e} /\ unspooled' = unspooled
    BY DEF EnqueueItem
  <1>4. ASSUME SpoolPersisted(Append(spool, e), spoolFull), spoolMetrics' = Added(spoolMetrics, e),
               SpoolFits(Append(spool, e))
        PROVE  SpoolIInv'
    <2>1. /\ Append(spool, e) \in Seq(Events) /\ Len(Append(spool, e)) = Len(spool) + 1
          /\ Elements(Append(spool, e)) = Elements(spool) \cup {e}
      BY <1>1, SpoolAppended
    <2>2. spoolMetrics' \in [critical : Nat, nonCritical : Nat, usedBytes : Nat]
          /\ Len(Append(spool, e)) <= spoolMetrics'.usedBytes
      BY <1>1, <1>2, <1>4, <2>1, MetricsStep
    <2>3. (spooled' \cap CriticalEvents) \ unspooled' \subseteq Elements(Append(spool, e))
      BY <1>3, <2>1 DEF SpoolIInv
    <2> QED
      BY <1>1, <1>4, <2>1, <2>2, <2>3, SpoolPersistedStep
  <1>5. CASE Len(spool) < MaxSpool /\ SpoolPersisted(Append(spool, e), spoolFull) /\ spoolMetrics' = Added(spoolMetrics, e)
    <2>1. SpoolFits(Append(spool, e))
      BY <1>1, <1>5, SpoolAppended DEF SpoolFits, HardMaxSpool
    <2> QED
      BY <1>4, <1>5, <2>1
  <1>6. CASE /\ Len(spool) >= MaxSpool /\ e \in CriticalEvents
             /\ \E i \in SpoolVictim : SpoolPersisted(Append(Without(spool, i), e), spoolFull)
             /\ spoolMetrics' = Added(Evicted(spoolMetrics), e)
    <2>1. PICK i \in SpoolVictim : SpoolPersisted(Append(Without(spool, i), e), spoolFull)
      BY <1>6
    <2> DEFINE r == Without(spool, i)
    <2>2. i \in DOMAIN spool /\ spool[i] \notin CriticalEvents
      BY DEF SpoolVictim
    <2>3. /\ r \in Seq(Events) /\ Len(r) = Len(spool) - 1
          /\ \A j \in DOMAIN spool \ {i} : \E k \in DOMAIN r : r[k] = spool[j]
      BY <1>1, <2>2, WithoutPlace
    <2> HIDE DEF r
    <2>4. Len(spool) <= MaxSpool
      BY <1>1, <2>2 DEF SpoolIInv, SpoolFits, Elements
    <2>5. /\ Append(r, e) \in Seq(Events) /\ Len(Append(r, e)) = Len(r) + 1
          /\ Elements(Append(r, e)) = Elements(r) \cup {e}
      BY <2>3, SpoolAppended
    <2>6. SpoolFits(Append(r, e))
      BY <1>1, <2>3, <2>4, <2>5 DEF SpoolFits, HardMaxSpool
    <2>7. Elements(spool) \cap CriticalEvents \subseteq Elements(r)
      BY <2>2, <2>3 DEF Elements
    <2>8. (spooled' \cap CriticalEvents) \ unspooled' \subseteq Elements(Append(r, e))
      BY <1>3, <2>5, <2>7 DEF SpoolIInv
    <2>9. /\ spoolMetrics' \in [critical : Nat, nonCritical : Nat, usedBytes : Nat]
          /\ spoolMetrics'.usedBytes = spoolMetrics.usedBytes + 1
      BY <1>2, <1>6, MetricsStep
    <2>10. Len(Append(r, e)) <= spoolMetrics'.usedBytes
      BY <1>1, <1>2, <2>3, <2>5, <2>9
    <2>11. SpoolPersisted(Append(r, e), spoolFull)
      BY <2>1 DEF r
    <2> QED
      BY <1>1, <2>5, <2>6, <2>8, <2>9, <2>10, <2>11, SpoolPersistedStep
  <1>7. CASE /\ Len(spool) >= MaxSpool /\ e \in CriticalEvents /\ SpoolVictim = {} /\ Len(spool) < HardMaxSpool
             /\ SpoolPersisted(Append(spool, e), spoolFull) /\ spoolMetrics' = Added(spoolMetrics, e)
    <2>1. Elements(spool) \subseteq CriticalEvents
      BY <1>1, <1>7, NoSpoolVictim
    <2>2. SpoolFits(Append(spool, e))
      BY <1>1, <1>7, <2>1, SpoolAppended DEF SpoolFits, HardMaxSpool
    <2> QED
      BY <1>4, <1>7, <2>2
  <1> QED
    BY <1>5, <1>6, <1>7 DEF EnqueueItem

\* flush takes the oldest items.
LEMMA PopBatchStep ==
  ASSUME SpoolIInv, PopBatch
  PROVE  SpoolIInv'
  <1> DEFINE count == IF MaxBatch < Len(spool) THEN MaxBatch ELSE Len(spool)
             rest == SubSeq(spool, count + 1, Len(spool))
             batch == SubSeq(spool, 1, count)
             full == spoolFull /\ Len(spool) - count >= HardMaxSpool
  <1>1. /\ spool \in Seq(Events) /\ Len(spool) \in Nat /\ DOMAIN spool = 1 .. Len(spool)
        /\ MaxSpool \in Nat /\ MaxBatch \in Nat
        /\ spoolMetrics \in [critical : Nat, nonCritical : Nat, usedBytes : Nat]
        /\ Len(spool) <= spoolMetrics.usedBytes
    BY SpoolAssumption DEF SpoolIInv, SpoolTypeOK
  <1>2. /\ SpoolPersisted(rest, full) /\ unspooled' = unspooled \cup Elements(batch)
        /\ spoolMetrics' = spoolMetrics /\ spooled' = spooled
    BY DEF PopBatch
  <1>3. count \in 0 .. Len(spool)
    BY <1>1
  <1>a. full \in BOOLEAN
    OBVIOUS
  <1> HIDE DEF count, full
  <1>b. /\ rest \in Seq(Events) /\ Len(rest) = Len(spool) - count
        /\ \A i \in 1 .. Len(spool) - count : rest[i] = spool[count + 1 + i - 1]
    <2>1. count + 1 \in Int /\ Len(spool) \in Int /\ \A i \in count + 1 .. Len(spool) : spool[i] \in Events
      BY <1>1, <1>3
    <2>2. /\ rest \in Seq(Events)
          /\ Len(rest) = IF count + 1 <= Len(spool) THEN Len(spool) - (count + 1) + 1 ELSE 0
          /\ \A i \in 1 .. Len(spool) - (count + 1) + 1 : rest[i] = spool[count + 1 + i - 1]
      BY <2>1, SubSeqProperties
    <2>a. count \in Int /\ Len(spool) \in Int /\ count <= Len(spool)
      BY <1>1, <1>3
    <2>3. /\ Len(spool) - (count + 1) + 1 = Len(spool) - count
          /\ ~(count + 1 <= Len(spool)) => Len(spool) - count = 0
      BY <2>a
    <2>4. Len(rest) = Len(spool) - count
      BY <2>2, <2>3
    <2> QED
      BY <2>2, <2>3, <2>4
  <1>4. /\ rest \in Seq(Events) /\ Len(rest) = Len(spool) - count
        /\ \A i \in 1 .. Len(spool) - count : rest[i] = spool[count + i]
    <2>1. \A i \in 1 .. Len(spool) - count : count + 1 + i - 1 = count + i
      BY <1>1, <1>3
    <2> QED
      BY <1>b, <2>1
  <1>5. batch \in Seq(Events) /\ Len(batch) = count /\ \A i \in 1 .. count : batch[i] = spool[i]
    BY <1>1, <1>3
  <1>6. DOMAIN rest = 1 .. Len(spool) - count /\ DOMAIN batch = 1 .. count
    BY <1>4, <1>5
  <1> HIDE DEF rest, batch
  <1>7. ASSUME NEW i \in DOMAIN spool PROVE spool[i] \in Elements(rest) \cup Elements(batch)
    <2>1. CASE i <= count
      BY <1>1, <1>3, <1>5, <1>6, <2>1 DEF Elements
    <2>2. CASE i > count
      <3>1. i - count \in DOMAIN rest /\ rest[i - count] = spool[i]
        BY <1>1, <1>3, <1>4, <1>6, <2>2
      <3> QED
        BY <3>1 DEF Elements
    <2> QED
      BY <1>1, <1>3, <2>1, <2>2
  <1>8. Elements(rest) \subseteq Elements(spool)
    <2>1. ASSUME NEW i \in DOMAIN rest PROVE \E j \in DOMAIN spool : rest[i] = spool[j]
      <3>1. count + i \in DOMAIN spool /\ rest[i] = spool[count + i]
        BY <1>1, <1>3, <1>4, <1>6
      <3> QED
        BY <3>1
    <2> QED
      BY <2>1 DEF Elements
  <1>9. SpoolFits(rest)
    BY <1>1, <1>3, <1>4, <1>8 DEF SpoolFits, SpoolIInv, HardMaxSpool
  <1>10. Elements(spool) \subseteq Elements(rest) \cup Elements(batch)
    BY <1>7 DEF Elements
  <1>11. (spooled' \cap CriticalEvents) \ unspooled' \subseteq Elements(rest)
    BY <1>2, <1>10 DEF SpoolIInv
  <1>12. Len(rest) <= spoolMetrics'.usedBytes
    BY <1>1, <1>2, <1>3, <1>4
  <1> QED
    BY <1>1, <1>2, <1>a, <1>4, <1>9, <1>11, <1>12, SpoolPersistedStep

\* Every call of the spool, and a crash.
LEMMA SpoolStep == SpoolIInv /\ [SpoolNext]_spoolVars => SpoolIInv'
  <1> SUFFICES ASSUME SpoolIInv, [SpoolNext]_spoolVars PROVE SpoolIInv'
    OBVIOUS
  <1>1. ASSUME NEW e \in Events, ItemRefused(e) PROVE SpoolIInv'
    <2>1. /\ spool' = spool /\ savedSpool' = savedSpool /\ spooled' = spooled /\ unspooled' = unspooled
          /\ spoolFull' \in {spoolFull, TRUE} /\ spoolMetrics' \in {spoolMetrics, Evicted(spoolMetrics)}
      BY <1>1 DEF ItemRefused
    <2>2. spoolFull \in BOOLEAN /\ spoolMetrics \in [critical : Nat, nonCritical : Nat, usedBytes : Nat]
      BY DEF SpoolIInv, SpoolTypeOK
    <2>3. /\ spoolMetrics' \in [critical : Nat, nonCritical : Nat, usedBytes : Nat]
          /\ spoolMetrics'.usedBytes = spoolMetrics.usedBytes
      BY <2>1, <2>2, MetricsStep
    <2>4. SpoolTypeOK'
      BY <2>1, <2>3 DEF SpoolIInv, SpoolTypeOK
    <2>5. SpoolFits(spool)' /\ SpoolFits(savedSpool)' /\ Elements(spool)' = Elements(spool)
      BY <2>1 DEF SpoolIInv, SpoolFits, Elements
    <2> QED
      BY <2>1, <2>2, <2>3, <2>4, <2>5 DEF SpoolIInv
  <1>2. CASE ClearSpool
    <2>1. SpoolPersisted(<<>>, FALSE) /\ spoolMetrics' = NoMetrics /\ spooled' = spooled /\ unspooled' = unspooled \cup spooled
      BY <1>2 DEF ClearSpool
    <2>2. <<>> \in Seq(Events) /\ SpoolFits(<<>>) /\ Len(<<>>) = 0
      BY SpoolAssumption DEF SpoolFits, HardMaxSpool
    <2>3. /\ spoolMetrics' \in [critical : Nat, nonCritical : Nat, usedBytes : Nat]
          /\ spoolMetrics'.usedBytes = 0
      BY <2>1 DEF NoMetrics
    <2>4. (spooled' \cap CriticalEvents) \ unspooled' \subseteq Elements(<<>>)
      BY <2>1
    <2>5. Len(<<>>) <= spoolMetrics'.usedBytes
      BY <2>2, <2>3
    <2>6. FALSE \in BOOLEAN
      OBVIOUS
    <2> QED
      BY <2>1, <2>2, <2>3, <2>4, <2>5, <2>6, SpoolPersistedStep, Zenon
  <1>3. CASE SpoolRestart
    <2> DEFINE C == {i \in DOMAIN savedSpool : savedSpool[i] \in CriticalEvents}
    <2>1. savedSpool \in Seq(Events) /\ Len(savedSpool) \in Nat /\ C \subseteq 1 .. Len(savedSpool)
      BY DEF SpoolIInv, SpoolTypeOK
    <2>2. Cardinality(C) \in Nat /\ Cardinality(C) <= Len(savedSpool)
      BY <2>1, FirstNumbers, FS_Subset, FS_CardinalityType
    <2>3. spoolMetrics' = [critical |-> Cardinality(C), nonCritical |-> Len(savedSpool) - Cardinality(C),
                           usedBytes |-> Len(savedSpool)]
      BY <1>3 DEF SpoolRestart
    <2>4. /\ spoolMetrics' \in [critical : Nat, nonCritical : Nat, usedBytes : Nat]
          /\ spoolMetrics'.usedBytes = Len(savedSpool)
      BY <2>1, <2>2, <2>3
    <2>5. /\ spool' = savedSpool /\ savedSpool' = savedSpool /\ spoolFull' = FALSE /\ spooled' = spooled
          /\ unspooled' = IF spoolFull THEN unspooled \cup spooled ELSE unspooled
      BY <1>3 DEF SpoolRestart
    <2>6. (spooled' \cap CriticalEvents) \ unspooled' \subseteq Elements(spool')
      BY <2>5 DEF SpoolIInv, SpoolTypeOK
    <2>7. SpoolTypeOK'
      BY <2>1, <2>4, <2>5 DEF SpoolTypeOK
    <2>8. SpoolFits(spool)' /\ SpoolFits(savedSpool)'
      BY <2>5 DEF SpoolIInv, SpoolFits, Elements
    <2>9. Len(spool') <= spoolMetrics'.usedBytes
      BY <2>1, <2>4, <2>5
    <2> QED
      BY <2>5, <2>6, <2>7, <2>8, <2>9 DEF SpoolIInv, Elements
  <1>4. CASE UNCHANGED spoolVars
    BY <1>4 DEF spoolVars, SpoolIInv, SpoolTypeOK, SpoolFits, Elements
  <1> QED
    BY <1>1, <1>2, <1>3, <1>4, EnqueueItemStep, PopBatchStep DEF SpoolNext

(* What was spooled and is critical stays until it is sent or cleared, and *)
(* the spool keeps its bounds and reports its pressure, for any number of  *)
(* events, sizes and crashes (telemetry-spool.ts).                         *)
THEOREM SpoolAlwaysKeepsCritical == SpoolSpec => []SpoolKeepsCritical
  <1>1. SpoolInit => SpoolIInv
    <2> SUFFICES ASSUME SpoolInit PROVE SpoolIInv
      OBVIOUS
    <2>1. spool = <<>> /\ savedSpool = <<>> /\ spoolFull = FALSE /\ spooled = {} /\ spoolMetrics = NoMetrics
      BY DEF SpoolInit
    <2>a. spool \in Seq(Events) /\ savedSpool \in Seq(Events) /\ Len(spool) = 0
      BY <2>1
    <2>b. spoolMetrics \in [critical : Nat, nonCritical : Nat, usedBytes : Nat] /\ spoolMetrics.usedBytes = 0
      BY <2>1 DEF NoMetrics
    <2>2. SpoolTypeOK /\ Len(spool) = 0 /\ spoolMetrics.usedBytes = 0
      BY <2>1, <2>a, <2>b DEF SpoolTypeOK
    <2>3. SpoolFits(spool)
      BY <2>2, SpoolAssumption DEF SpoolFits, HardMaxSpool
    <2> QED
      BY <2>1, <2>2, <2>3 DEF SpoolIInv
  <1>2. SpoolIInv => SpoolKeepsCritical
    <2> SUFFICES ASSUME SpoolIInv PROVE SpoolKeepsCritical
      OBVIOUS
    <2>1. Len(spool) >= SpoolWarning => IsBackpressureActive
      BY SpoolAssumption DEF SpoolIInv, SpoolTypeOK, IsBackpressureActive
    <2> QED
      BY <2>1 DEF SpoolIInv, SpoolFits, SpoolKeepsCritical
  <1> QED
    BY <1>1, <1>2, SpoolStep, PTL DEF SpoolSpec

-----------------------------------------------------------------------------
(* The notifications.                                                      *)

NoticeItem == [id : Notices, of : Notices, hidden : BOOLEAN, read : BOOLEAN]

NoticesTypeOK ==
  /\ notices \in Seq(NoticeItem) /\ savedNotices \in Seq(NoticeItem)
  /\ noticesFull \in BOOLEAN /\ locked \in BOOLEAN /\ taken \subseteq sent

NoticesFit(items) ==
  /\ Len(items) <= HardMaxNotices
  /\ Len(items) > MaxNotices => \A i \in DOMAIN items : Urgent(items[i].of)
Among(items, n) == \E i \in DOMAIN items : items[i].of = n
Replaced(n, accepted) ==
  \E m \in accepted \ {n} : /\ CoalesceKeyOf[n] # "none" /\ CoalesceKeyOf[m] = CoalesceKeyOf[n]
                            /\ Weight(m) >= Weight(n)
Concealed(item) == item.hidden \/ CategoryOf[item.of] = "SYSTEM_INFO"

\* The file is within the bounds as the queue is, and lags behind it only when the
\* queue reports itself full.
NoticesIInv ==
  /\ NoticesTypeOK
  /\ NoticesFit(notices) /\ NoticesFit(savedNotices)
  /\ \A n \in (taken \ dropped) \ dueNotices : Urgent(n) => Among(notices, n) \/ Replaced(n, taken)
  /\ locked => \A i \in DOMAIN notices : Concealed(notices[i])
  /\ ~noticesFull => savedNotices = notices

\* What a call that persists the queue has to see to.
LEMMA NoticesPersistedStep ==
  ASSUME NoticesIInv, NEW before, NEW items \in Seq(NoticeItem), NEW full \in BOOLEAN,
         Persisted(before, items, full), NoticesFit(items),
         \A w \in before : w \in Seq(NoticeItem) /\ NoticesFit(w),
         \A n \in (taken' \ dropped') \ dueNotices' : Urgent(n) => Among(items, n) \/ Replaced(n, taken'),
         locked' \in BOOLEAN, locked' => \A i \in DOMAIN items : Concealed(items[i]),
         taken' \subseteq sent'
  PROVE  NoticesIInv'
  <1>1. notices' = items /\ noticesFull' \in BOOLEAN
    BY DEF Persisted
  <1>2. ~noticesFull' => savedNotices' = notices'
    BY DEF Persisted
  <1>3. savedNotices' \in {items, savedNotices} \cup before
    BY DEF Persisted
  <1>4. savedNotices' \in Seq(NoticeItem) /\ NoticesFit(savedNotices')
    BY <1>3 DEF NoticesIInv, NoticesTypeOK
  <1>5. NoticesTypeOK'
    BY <1>1, <1>4 DEF NoticesTypeOK
  <1>6. NoticesFit(notices)' /\ NoticesFit(savedNotices)'
    BY <1>1, <1>4 DEF NoticesFit, HardMaxNotices, Urgent
  <1>7. (\A n \in (taken \ dropped) \ dueNotices : Urgent(n) => Among(notices, n) \/ Replaced(n, taken))'
    BY <1>1 DEF Among, Replaced, Urgent, Weight
  <1>8. (locked => \A i \in DOMAIN notices : Concealed(notices[i]))'
    BY <1>1 DEF Concealed
  <1> QED
    BY <1>2, <1>5, <1>6, <1>7, <1>8 DEF NoticesIInv

\* purgeExpired drops what is due and nothing else.
LEMMA PurgedFits ==
  ASSUME NoticesIInv
  PROVE  /\ Purged \in Seq(NoticeItem) /\ NoticesFit(Purged)
         /\ \A k \in DOMAIN Purged : \E i \in DOMAIN notices : Purged[k] = notices[i]
         /\ \A n \in (taken \ dropped) \ dueNotices : Urgent(n) => Among(Purged, n) \/ Replaced(n, taken)
         /\ locked => \A k \in DOMAIN Purged : Concealed(Purged[k])
  <1> DEFINE places == {i \in DOMAIN notices : notices[i].of \notin dueNotices}
  <1>1. /\ notices \in Seq(NoticeItem) /\ places \subseteq DOMAIN notices /\ Len(notices) \in Nat
        /\ DOMAIN notices = 1 .. Len(notices) /\ MaxNotices \in Nat
    BY NoticesAssumption DEF NoticesIInv, NoticesTypeOK
  <1>2. Purged = ItemsAt(notices, places)
    BY DEF Purged
  <1>3. /\ Purged \in Seq(NoticeItem) /\ Len(Purged) = Cardinality(places) /\ Cardinality(places) <= Len(notices)
        /\ \E at \in [1 .. Cardinality(places) -> places] :
             /\ \A k \in 1 .. Cardinality(places) : Purged[k] = notices[at[k]]
             /\ \A i \in places : \E k \in 1 .. Cardinality(places) : at[k] = i
    <2> HIDE DEF places
    <2>1. /\ ItemsAt(notices, places) \in Seq(NoticeItem)
          /\ Len(ItemsAt(notices, places)) = Cardinality(places)
          /\ Cardinality(places) <= Len(notices)
          /\ InOrderAt(ItemsAt(notices, places), notices, places)
      BY <1>1, ItemsAtPlaces
    <2> QED
      BY <1>2, <2>1 DEF InOrderAt
  <1>4. PICK at \in [1 .. Cardinality(places) -> places] :
             /\ \A k \in 1 .. Cardinality(places) : Purged[k] = notices[at[k]]
             /\ \A i \in places : \E k \in 1 .. Cardinality(places) : at[k] = i
    BY <1>3
  <1>5. DOMAIN Purged = 1 .. Cardinality(places) /\ Len(Purged) \in Nat
    BY <1>3
  <1> HIDE DEF places
  <1>6. \A k \in DOMAIN Purged : \E i \in DOMAIN notices : Purged[k] = notices[i]
    BY <1>1, <1>4, <1>5
  <1>7. NoticesFit(Purged)
    BY <1>1, <1>3, <1>5, <1>6 DEF NoticesFit, NoticesIInv, HardMaxNotices
  <1>8. ASSUME NEW n \in (taken \ dropped) \ dueNotices, Urgent(n) PROVE Among(Purged, n) \/ Replaced(n, taken)
    <2>1. CASE Among(notices, n)
      <3>1. PICK i \in DOMAIN notices : notices[i].of = n
        BY <2>1 DEF Among
      <3>2. i \in places
        BY <3>1 DEF places
      <3>3. PICK k \in 1 .. Cardinality(places) : at[k] = i
        BY <3>2, <1>4
      <3>4. k \in DOMAIN Purged /\ Purged[k].of = n
        BY <1>4, <1>5, <3>1, <3>3
      <3> QED
        BY <3>4 DEF Among
    <2> QED
      BY <1>8, <2>1 DEF NoticesIInv
  <1>9. locked => \A k \in DOMAIN Purged : Concealed(Purged[k])
    BY <1>6 DEF NoticesIInv
  <1> QED
    BY <1>3, <1>6, <1>7, <1>8, <1>9

\* A purge that makes no other change.
LEMMA PurgeExpiredStep == ASSUME NoticesIInv, PurgeExpired PROVE NoticesIInv'
  <1>1. /\ Persisted({}, Purged, PurgedFull) /\ locked' = locked /\ dueNotices' = dueNotices
        /\ sent' = sent /\ taken' = taken /\ dropped' = dropped
    BY DEF PurgeExpired
  <1>2. PurgedFull \in BOOLEAN /\ locked \in BOOLEAN /\ taken \subseteq sent
    BY DEF PurgedFull, NoticesIInv, NoticesTypeOK
  <1> QED
    BY <1>1, <1>2, PurgedFits, NoticesPersistedStep

\* A queue with nothing to evict holds urgent notices only.
LEMMA NothingEvictable ==
  ASSUME NEW items \in Seq(NoticeItem), Evictable(items) = {}
  PROVE  \A i \in DOMAIN items : Urgent(items[i].of)
  <1> DEFINE T == {i \in DOMAIN items : ~Urgent(items[i].of)}
  <1>1. Len(items) \in Nat /\ DOMAIN items = 1 .. Len(items) /\ T \subseteq 1 .. Len(items)
    OBVIOUS
  <1>2. T = {}
    <2> SUFFICES ASSUME T # {} PROVE FALSE
      OBVIOUS
    <2>1. PICK i \in T : \A j \in 1 .. i - 1 : j \notin T
      BY <1>1, FirstPlace
    <2>2. \A j \in 1 .. i - 1 : j \in DOMAIN items
      BY <1>1
    <2>3. i \in Evictable(items)
      BY <2>1, <2>2 DEF Evictable
    <2> QED
      BY <2>3
  <1> QED
    BY <1>2

\* The weight decides who is urgent.
LEMMA AsUrgent ==
  ASSUME NEW n \in Notices, NEW m \in Notices, Weight(n) >= Weight(m), Urgent(m)
  PROVE  Urgent(n)
  <1>1. PriorityOf[n] \in {"CRITICAL", "HIGH", "NORMAL", "LOW"} /\ PriorityOf[m] \in {"CRITICAL", "HIGH"}
    BY NoticesAssumption DEF PriorityWeight, Urgent
  <1>2. PriorityWeight["CRITICAL"] = 4 /\ PriorityWeight["HIGH"] = 3 /\ PriorityWeight["NORMAL"] = 2 /\ PriorityWeight["LOW"] = 1
    BY DEF PriorityWeight
  <1>3. Weight(m) >= 3
    BY <1>1, <1>2 DEF Weight
  <1>4. PriorityOf[n] # "NORMAL" /\ PriorityOf[n] # "LOW"
    <2>1. PriorityWeight[PriorityOf[n]] >= Weight(m) /\ Weight(m) \in Nat
      BY <1>1, <1>2 DEF Weight
    <2>2. PriorityOf[n] # "NORMAL"
      BY <1>2, <1>3, <2>1
    <2>3. PriorityOf[n] # "LOW"
      BY <1>2, <1>3, <2>1
    <2> QED
      BY <2>2, <2>3
  <1> QED
    BY <1>1, <1>4 DEF Urgent

\* The item that notify makes.
LEMMA RedactedFits ==
  ASSUME NEW item \in NoticeItem, NEW lock \in BOOLEAN
  PROVE  /\ Redacted(item, lock) \in NoticeItem /\ Redacted(item, lock).of = item.of
         /\ lock => Concealed(Redacted(item, lock))
  BY DEF Redacted, NoticeItem, Concealed

\* A notice that coalesces is as urgent as the one whose place it takes.
LEMMA CoalesceStep ==
  ASSUME NoticesIInv, NEW n \in Notices, NEW i \in CoalescesAt(n), NEW item \in NoticeItem, item.of = n,
         locked => Concealed(item), n \notin sent, sent' = sent \cup {n}, taken' = taken \cup {n},
         Persisted({Purged}, [Purged EXCEPT ![i] = item], PurgedFull),
         UNCHANGED <<locked, dueNotices, dropped>>
  PROVE  NoticesIInv'
  <1> DEFINE items == [Purged EXCEPT ![i] = item]
  <1>1. Purged \in Seq(NoticeItem) /\ NoticesFit(Purged) /\ (locked => \A k \in DOMAIN Purged : Concealed(Purged[k]))
    BY PurgedFits
  <1>2. /\ i \in DOMAIN Purged /\ Coalesces(n, Purged[i]) /\ Weight(n) >= Weight(Purged[i].of)
        /\ CoalesceKeyOf[n] # "none" /\ CoalesceKeyOf[Purged[i].of] = CoalesceKeyOf[n]
        /\ Purged[i].of \in Notices
    <2>1. i \in DOMAIN Purged /\ Coalesces(n, Purged[i]) /\ Weight(n) >= Weight(Purged[i].of)
      BY DEF CoalescesAt
    <2>2. Purged[i] \in NoticeItem
      BY <1>1, <2>1
    <2> QED
      BY <2>1, <2>2 DEF Coalesces, NoticeItem
  <1>3. /\ items \in Seq(NoticeItem) /\ Len(items) = Len(Purged) /\ DOMAIN items = DOMAIN Purged
        /\ items[i] = item /\ \A j \in DOMAIN Purged \ {i} : items[j] = Purged[j]
    BY <1>1, <1>2
  <1> HIDE DEF items
  <1>4. NoticesFit(items)
    <2>1. ASSUME \A j \in DOMAIN Purged : Urgent(Purged[j].of) PROVE \A j \in DOMAIN items : Urgent(items[j].of)
      <3>1. Urgent(n)
        BY <1>2, <2>1, AsUrgent
      <3> QED
        BY <1>3, <2>1, <3>1
    <2> QED
      BY <1>1, <1>3, <2>1 DEF NoticesFit
  <1>5. ASSUME NEW m \in (taken' \ dropped') \ dueNotices', Urgent(m) PROVE Among(items, m) \/ Replaced(m, taken')
    <2>1. CASE m = n
      BY <1>2, <1>3, <2>1 DEF Among
    <2>2. CASE m # n
      <3>1. m \in (taken \ dropped) \ dueNotices
        BY <1>5, <2>2
      <3>2. Among(Purged, m) \/ Replaced(m, taken)
        BY <1>5, <3>1, PurgedFits
      <3>3. CASE Replaced(m, taken)
        BY <3>3 DEF Replaced
      <3>4. ASSUME NEW j \in DOMAIN Purged, Purged[j].of = m PROVE Among(items, m) \/ Replaced(m, taken')
        <4>1. CASE j = i
          BY <1>2, <2>2, <3>4, <4>1 DEF Replaced
        <4>2. CASE j # i
          BY <1>3, <3>4, <4>2 DEF Among
        <4> QED
          BY <4>1, <4>2
      <3> QED
        BY <3>2, <3>3, <3>4 DEF Among
    <2> QED
      BY <2>1, <2>2
  <1>6. locked' => \A j \in DOMAIN items : Concealed(items[j])
    BY <1>1, <1>3
  <1>7. PurgedFull \in BOOLEAN /\ locked' \in BOOLEAN /\ taken' \subseteq sent'
    BY DEF PurgedFull, NoticesIInv, NoticesTypeOK
  <1> DEFINE before == {Purged}
  <1>8. \A w \in before : w \in Seq(NoticeItem) /\ NoticesFit(w)
    BY <1>1
  <1>9. Persisted(before, items, PurgedFull)
    BY DEF items
  <1>10. \A m \in (taken' \ dropped') \ dueNotices' : Urgent(m) => Among(items, m) \/ Replaced(m, taken')
    BY <1>5
  <1>11. items \in Seq(NoticeItem)
    BY <1>3
  <1> HIDE DEF before
  <1> QED
    BY <1>4, <1>6, <1>7, <1>8, <1>9, <1>10, <1>11, NoticesPersistedStep

\* A notice is appended to what was kept of the queue.
LEMMA AppendStep ==
  ASSUME NoticesIInv, NEW n \in Notices, NEW rest \in Seq(NoticeItem), NEW item \in NoticeItem, item.of = n,
         locked => Concealed(item), n \notin sent, sent' = sent \cup {n}, taken' = taken \cup {n},
         \A k \in DOMAIN rest : \E j \in DOMAIN Purged : rest[k] = Purged[j],
         \A j \in DOMAIN Purged : Urgent(Purged[j].of) => \E k \in DOMAIN rest : rest[k] = Purged[j],
         NoticesFit(Append(rest, item)),
         Persisted({Purged}, Append(rest, item), PurgedFull),
         UNCHANGED <<locked, dueNotices, dropped>>
  PROVE  NoticesIInv'
  <1> DEFINE items == Append(rest, item)
  <1>1. Purged \in Seq(NoticeItem) /\ NoticesFit(Purged) /\ (locked => \A k \in DOMAIN Purged : Concealed(Purged[k]))
    BY PurgedFits
  <1>2. /\ items \in Seq(NoticeItem) /\ Len(rest) \in Nat /\ DOMAIN rest = 1 .. Len(rest)
        /\ DOMAIN items = 1 .. Len(rest) + 1
        /\ items[Len(rest) + 1] = item /\ \A k \in DOMAIN rest : items[k] = rest[k]
    <2>1. /\ items \in Seq(NoticeItem) /\ Len(items) = Len(rest) + 1
          /\ items[Len(rest) + 1] = item /\ \A k \in 1 .. Len(rest) : items[k] = rest[k]
      BY AppendProperties
    <2> QED
      BY <2>1
  <1> HIDE DEF items
  <1>3. ASSUME NEW k \in DOMAIN rest PROVE k \in DOMAIN items /\ items[k] = rest[k]
    BY <1>2
  <1>4. ASSUME NEW k \in DOMAIN items PROVE items[k] = item \/ \E j \in DOMAIN rest : items[k] = rest[j]
    <2>1. k = Len(rest) + 1 \/ k \in DOMAIN rest
      BY <1>2
    <2> QED
      BY <1>2, <2>1
  <1>5. ASSUME NEW m \in (taken' \ dropped') \ dueNotices', Urgent(m) PROVE Among(items, m) \/ Replaced(m, taken')
    <2>1. CASE m = n
      <3>1. Len(rest) + 1 \in DOMAIN items /\ items[Len(rest) + 1].of = m
        BY <1>2, <2>1
      <3> QED
        BY <3>1 DEF Among
    <2>2. CASE m # n
      <3>1. m \in (taken \ dropped) \ dueNotices
        BY <1>5, <2>2
      <3>2. Among(Purged, m) \/ Replaced(m, taken)
        BY <1>5, <3>1, PurgedFits
      <3>3. CASE Replaced(m, taken)
        BY <3>3 DEF Replaced
      <3>4. CASE Among(Purged, m)
        <4>1. PICK j \in DOMAIN Purged : Purged[j].of = m
          BY <3>4 DEF Among
        <4>2. PICK k \in DOMAIN rest : rest[k] = Purged[j]
          BY <1>5, <4>1
        <4> QED
          BY <1>3, <4>1, <4>2 DEF Among
      <3> QED
        BY <3>2, <3>3, <3>4
    <2> QED
      BY <2>1, <2>2
  <1>6. locked' => \A j \in DOMAIN items : Concealed(items[j])
    BY <1>1, <1>4
  <1>7. PurgedFull \in BOOLEAN /\ locked' \in BOOLEAN /\ taken' \subseteq sent'
    BY DEF PurgedFull, NoticesIInv, NoticesTypeOK
  <1> DEFINE before == {Purged}
  <1>8. \A w \in before : w \in Seq(NoticeItem) /\ NoticesFit(w)
    BY <1>1
  <1>9. Persisted(before, items, PurgedFull) /\ NoticesFit(items)
    BY DEF items
  <1>10. \A m \in (taken' \ dropped') \ dueNotices' : Urgent(m) => Among(items, m) \/ Replaced(m, taken')
    BY <1>5
  <1>11. items \in Seq(NoticeItem)
    BY <1>2
  <1> HIDE DEF before
  <1> QED
    BY <1>6, <1>7, <1>8, <1>9, <1>10, <1>11, NoticesPersistedStep

\* notify: redact, purge, coalesce or make room, append.
LEMMA NotifyStep ==
  ASSUME NoticesIInv, NEW n \in Notices, Notify(n)
  PROVE  NoticesIInv'
  <1> DEFINE fresh == [id |-> n, of |-> n, hidden |-> FALSE, read |-> FALSE]
             item == Redacted(fresh, locked)
             crowd == Len(Purged) >= MaxNotices
             victims == IF crowd THEN Evictable(Purged) ELSE {}
             refused == crowd /\ (~Urgent(n) \/ (victims = {} /\ Len(Purged) >= HardMaxNotices))
  <1>1. /\ Purged \in Seq(NoticeItem) /\ NoticesFit(Purged) /\ Len(Purged) \in Nat /\ MaxNotices \in Nat
        /\ DOMAIN Purged = 1 .. Len(Purged)
        /\ locked \in BOOLEAN /\ PurgedFull \in BOOLEAN /\ taken \subseteq sent
    BY PurgedFits, NoticesAssumption DEF PurgedFull, NoticesIInv, NoticesTypeOK
  <1>2. item \in NoticeItem /\ item.of = n /\ (locked => Concealed(item))
    <2>1. fresh \in NoticeItem /\ fresh.of = n
      BY DEF NoticeItem
    <2> QED
      BY <1>1, <2>1, RedactedFits
  <1>3. n \notin sent /\ sent' = sent \cup {n} /\ UNCHANGED <<locked, dueNotices, dropped>>
    BY DEF Notify
  <1>4. \/ /\ \E i \in CoalescesAt(n) : Persisted({Purged}, [Purged EXCEPT ![i] = [item EXCEPT !.id = Purged[i].id]], PurgedFull)
           /\ taken' = taken \cup {n}
        \/ /\ Persisted({}, Purged, PurgedFull \/ Urgent(n)) /\ UNCHANGED taken
        \/ /\ ~refused
           /\ \/ victims = {} /\ Persisted({Purged}, Append(Purged, item), PurgedFull)
              \/ \E i \in victims : Persisted({Purged}, Append(Without(Purged, i), item), PurgedFull)
           /\ taken' = taken \cup {n}
    BY DEF Notify
  <1> HIDE DEF item
  <1>5. ASSUME NEW i \in CoalescesAt(n), taken' = taken \cup {n},
               Persisted({Purged}, [Purged EXCEPT ![i] = [item EXCEPT !.id = Purged[i].id]], PurgedFull)
        PROVE  NoticesIInv'
    <2> DEFINE new == [item EXCEPT !.id = Purged[i].id]
    <2>1. Purged[i] \in NoticeItem
      BY <1>1 DEF CoalescesAt
    <2>2. new \in NoticeItem /\ new.of = n /\ (locked => Concealed(new))
      BY <1>2, <2>1 DEF NoticeItem, Concealed
    <2>3. Persisted({Purged}, [Purged EXCEPT ![i] = new], PurgedFull)
      BY <1>5
    <2> HIDE DEF new
    <2> QED
      BY <1>3, <1>5, <2>2, <2>3, CoalesceStep
  <1>6. ASSUME Persisted({}, Purged, PurgedFull \/ Urgent(n)), UNCHANGED taken PROVE NoticesIInv'
    <2> DEFINE full == PurgedFull \/ Urgent(n)
    <2>1. full \in BOOLEAN /\ Persisted({}, Purged, full) /\ locked' \in BOOLEAN /\ taken' \subseteq sent'
      BY <1>1, <1>3, <1>6
    <2>2. \A m \in (taken' \ dropped') \ dueNotices' : Urgent(m) => Among(Purged, m) \/ Replaced(m, taken')
      BY <1>3, <1>6, PurgedFits
    <2>3. locked' => \A k \in DOMAIN Purged : Concealed(Purged[k])
      BY <1>3, PurgedFits
    <2> HIDE DEF full
    <2> QED
      BY <1>1, <2>1, <2>2, <2>3, NoticesPersistedStep
  <1>7. ASSUME ~refused, victims = {}, Persisted({Purged}, Append(Purged, item), PurgedFull), taken' = taken \cup {n}
        PROVE  NoticesIInv'
    <2>1. /\ Append(Purged, item) \in Seq(NoticeItem) /\ Len(Append(Purged, item)) = Len(Purged) + 1
          /\ Append(Purged, item)[Len(Purged) + 1] = item
          /\ \A k \in 1 .. Len(Purged) : Append(Purged, item)[k] = Purged[k]
      BY <1>1, <1>2, AppendProperties
    <2>2. DOMAIN Append(Purged, item) = 1 .. Len(Purged) + 1
      BY <1>1, <2>1
    <2>3. NoticesFit(Append(Purged, item))
      <3>1. CASE ~crowd
        BY <1>1, <2>1, <3>1 DEF NoticesFit, HardMaxNotices
      <3>2. CASE crowd
        <4>1. Urgent(n) /\ Len(Purged) < HardMaxNotices /\ Evictable(Purged) = {}
          BY <1>1, <1>7, <3>2 DEF HardMaxNotices
        <4>2. \A k \in DOMAIN Purged : Urgent(Purged[k].of)
          BY <1>1, <4>1, NothingEvictable
        <4>3. ASSUME NEW k \in DOMAIN Append(Purged, item) PROVE Urgent(Append(Purged, item)[k].of)
          <5>1. k = Len(Purged) + 1 \/ k \in 1 .. Len(Purged)
            BY <1>1, <2>2
          <5> QED
            BY <1>1, <1>2, <2>1, <4>1, <4>2, <5>1
        <4>4. Len(Append(Purged, item)) <= HardMaxNotices
          BY <1>1, <2>1, <4>1 DEF HardMaxNotices
        <4> QED
          BY <4>3, <4>4 DEF NoticesFit
      <3> QED
        BY <3>1, <3>2
    <2> QED
      BY <1>1, <1>2, <1>3, <1>7, <2>3, AppendStep
  <1>8. ASSUME NEW i \in victims, Persisted({Purged}, Append(Without(Purged, i), item), PurgedFull), taken' = taken \cup {n}
        PROVE  NoticesIInv'
    <2> DEFINE rest == Without(Purged, i)
    <2>1. Len(Purged) >= MaxNotices /\ i \in DOMAIN Purged /\ ~Urgent(Purged[i].of)
      BY DEF Evictable
    <2>b. Purged \in Seq(NoticeItem) /\ i \in DOMAIN Purged
      BY <1>1, <2>1
    <2> HIDE DEF victims, refused, crowd
    <2>2. /\ rest \in Seq(NoticeItem) /\ Len(rest) = Len(Purged) - 1
          /\ \A j \in DOMAIN Purged \ {i} : \E k \in DOMAIN rest : rest[k] = Purged[j]
          /\ \A k \in DOMAIN rest : \E j \in DOMAIN Purged \ {i} : rest[k] = Purged[j]
      BY <2>b, WithoutPlace
    <2> HIDE DEF rest
    <2>a. ~(Len(Purged) > MaxNotices)
      BY <1>1, <2>1 DEF NoticesFit
    <2>c. Len(Purged) \in Nat /\ MaxNotices \in Nat /\ Len(Purged) >= MaxNotices
      BY <1>1, <2>1
    <2>3. Len(Purged) = MaxNotices
      BY <2>a, <2>c
    <2>4. Len(Append(rest, item)) = Len(rest) + 1
      BY <1>2, <2>2, AppendProperties
    <2>5. NoticesFit(Append(rest, item))
      BY <1>1, <2>2, <2>3, <2>4 DEF NoticesFit, HardMaxNotices
    <2>6. /\ \A k \in DOMAIN rest : \E j \in DOMAIN Purged : rest[k] = Purged[j]
          /\ \A j \in DOMAIN Purged : Urgent(Purged[j].of) => \E k \in DOMAIN rest : rest[k] = Purged[j]
      BY <2>1, <2>2
    <2>7. Persisted({Purged}, Append(rest, item), PurgedFull)
      BY <1>8 DEF rest
    <2> QED
      BY <1>2, <1>3, <1>8, <2>2, <2>5, <2>6, <2>7, AppendStep
  <1> HIDE DEF victims, refused
  <1> QED
    BY <1>4, <1>5, <1>6, <1>7, <1>8

\* A change of single items that keeps what they are about.
LEMMA ItemsMarked ==
  ASSUME NoticesIInv, NEW old \in Seq(NoticeItem), NEW items \in Seq(NoticeItem), NoticesFit(old),
         Len(items) = Len(old), \A i \in DOMAIN old : items[i].of = old[i].of
  PROVE  /\ NoticesFit(items)
         /\ \A n : Among(old, n) => Among(items, n)
  <1>1. DOMAIN items = DOMAIN old
    OBVIOUS
  <1> QED
    BY <1>1 DEF NoticesFit, Among

\* markRead and executeNotificationAction.
LEMMA MarkedReadFits ==
  ASSUME NEW items \in Seq(NoticeItem), NEW id
  PROVE  /\ MarkedRead(items, id) \in Seq(NoticeItem) /\ Len(MarkedRead(items, id)) = Len(items)
         /\ DOMAIN MarkedRead(items, id) = DOMAIN items
         /\ \A i \in DOMAIN items : /\ MarkedRead(items, id)[i].of = items[i].of
                                    /\ MarkedRead(items, id)[i].hidden = items[i].hidden
  <1>1. \A i \in DOMAIN items : items[i] \in NoticeItem
    OBVIOUS
  <1>2. \A i \in DOMAIN items : [items[i] EXCEPT !.read = TRUE] \in NoticeItem
    BY <1>1 DEF NoticeItem
  <1>3. /\ DOMAIN MarkedRead(items, id) = 1 .. Len(items) /\ Len(items) \in Nat
        /\ \A i \in 1 .. Len(items) : MarkedRead(items, id)[i] \in NoticeItem
    BY <1>1, <1>2 DEF MarkedRead
  <1>4. MarkedRead(items, id) \in [1 .. Len(items) -> NoticeItem]
    BY <1>1, <1>2 DEF MarkedRead
  <1>5. MarkedRead(items, id) \in Seq(NoticeItem) /\ Len(MarkedRead(items, id)) = Len(items)
    BY <1>3, <1>4
  <1>6. ASSUME NEW i \in DOMAIN items
        PROVE  /\ MarkedRead(items, id)[i].of = items[i].of
               /\ MarkedRead(items, id)[i].hidden = items[i].hidden
    <2>1. MarkedRead(items, id)[i] = IF items[i].id = id THEN [items[i] EXCEPT !.read = TRUE] ELSE items[i]
      BY DEF MarkedRead
    <2> QED
      BY <1>1, <2>1 DEF NoticeItem
  <1> QED
    BY <1>3, <1>5, <1>6

LEMMA MarkReadStep == ASSUME NoticesIInv, NEW id \in Notices, MarkRead(id) PROVE NoticesIInv'
  <1> DEFINE items == MarkedRead(notices, id)
             before == {}
  <1>1. /\ notices \in Seq(NoticeItem) /\ NoticesFit(notices) /\ noticesFull \in BOOLEAN /\ locked \in BOOLEAN
        /\ taken \subseteq sent
    BY DEF NoticesIInv, NoticesTypeOK
  <1>2. /\ Persisted(before, items, noticesFull)
        /\ UNCHANGED <<locked, dueNotices, sent, taken, dropped>>
    BY DEF MarkRead
  <1>3. /\ items \in Seq(NoticeItem) /\ Len(items) = Len(notices) /\ DOMAIN items = DOMAIN notices
        /\ \A i \in DOMAIN notices : items[i].of = notices[i].of /\ items[i].hidden = notices[i].hidden
    BY <1>1, MarkedReadFits
  <1> HIDE DEF items, before
  <1>4. NoticesFit(items) /\ \A n : Among(notices, n) => Among(items, n)
    BY <1>1, <1>3, ItemsMarked
  <1>5. \A n \in (taken' \ dropped') \ dueNotices' : Urgent(n) => Among(items, n) \/ Replaced(n, taken')
    BY <1>2, <1>4 DEF NoticesIInv
  <1>6. locked' => \A i \in DOMAIN items : Concealed(items[i])
    BY <1>2, <1>3 DEF NoticesIInv, Concealed
  <1>7. (\A w \in before : w \in Seq(NoticeItem) /\ NoticesFit(w)) /\ locked' \in BOOLEAN /\ taken' \subseteq sent'
    BY <1>1, <1>2 DEF before
  <1> QED
    BY <1>1, <1>2, <1>3, <1>4, <1>5, <1>6, <1>7, NoticesPersistedStep

LEMMA ActionStep == ASSUME NoticesIInv, NEW id \in Notices, ExecuteNotificationAction(id) PROVE NoticesIInv'
  <1> DEFINE items == MarkedRead(Purged, id)
             before == {Purged}
  <1>1. /\ Purged \in Seq(NoticeItem) /\ NoticesFit(Purged) /\ PurgedFull \in BOOLEAN /\ locked \in BOOLEAN
        /\ taken \subseteq sent
    BY PurgedFits DEF NoticesIInv, NoticesTypeOK, PurgedFull
  <1>2. /\ Persisted(before, items, PurgedFull)
        /\ UNCHANGED <<locked, dueNotices, sent, taken, dropped>>
    BY DEF ExecuteNotificationAction
  <1>3. /\ items \in Seq(NoticeItem) /\ Len(items) = Len(Purged) /\ DOMAIN items = DOMAIN Purged
        /\ \A i \in DOMAIN Purged : items[i].of = Purged[i].of /\ items[i].hidden = Purged[i].hidden
    BY <1>1, MarkedReadFits
  <1>4. \A w \in before : w \in Seq(NoticeItem) /\ NoticesFit(w)
    BY <1>1
  <1> HIDE DEF items, before
  <1>5. NoticesFit(items) /\ \A n : Among(Purged, n) => Among(items, n)
    BY <1>1, <1>3, ItemsMarked
  <1>6. \A n \in (taken' \ dropped') \ dueNotices' : Urgent(n) => Among(items, n) \/ Replaced(n, taken')
    BY <1>2, <1>5, PurgedFits
  <1>7. locked' => \A i \in DOMAIN items : Concealed(items[i])
    BY <1>2, <1>3, PurgedFits DEF Concealed
  <1> QED
    BY <1>1, <1>2, <1>3, <1>4, <1>5, <1>6, <1>7, NoticesPersistedStep

\* setLockScreenActive(true) redacts item by item.
LEMMA LockScreenStep == ASSUME NoticesIInv, LockScreen PROVE NoticesIInv'
  <1> DEFINE hidden(k) == [i \in DOMAIN Purged |-> IF i <= k THEN Redacted(Purged[i], TRUE) ELSE Purged[i]]
             before == {hidden(i - 1) : i \in {j \in DOMAIN Purged : ~Purged[j].hidden}}
             items == hidden(Len(Purged))
  <1>1. /\ Purged \in Seq(NoticeItem) /\ NoticesFit(Purged) /\ PurgedFull \in BOOLEAN /\ taken \subseteq sent
        /\ Len(Purged) \in Nat /\ DOMAIN Purged = 1 .. Len(Purged)
        /\ \A i \in DOMAIN Purged : Purged[i] \in NoticeItem
    BY PurgedFits DEF NoticesIInv, NoticesTypeOK, PurgedFull
  <1>2. /\ Persisted(before, items, PurgedFull) /\ locked' = TRUE
        /\ UNCHANGED <<dueNotices, sent, taken, dropped>>
    BY DEF LockScreen
  <1>3. \A i \in DOMAIN Purged : /\ Redacted(Purged[i], TRUE) \in NoticeItem
                                 /\ Redacted(Purged[i], TRUE).of = Purged[i].of
                                 /\ Concealed(Redacted(Purged[i], TRUE))
    <2>1. TRUE \in BOOLEAN
      OBVIOUS
    <2> QED
      BY <1>1, <2>1, RedactedFits
  <1>4. ASSUME NEW k \in Int
        PROVE  /\ hidden(k) \in Seq(NoticeItem) /\ Len(hidden(k)) = Len(Purged)
               /\ \A i \in DOMAIN Purged : hidden(k)[i].of = Purged[i].of
               /\ NoticesFit(hidden(k)) /\ \A n : Among(Purged, n) => Among(hidden(k), n)
    <2>1. /\ \A i \in DOMAIN Purged : /\ hidden(k)[i] = IF i <= k THEN Redacted(Purged[i], TRUE) ELSE Purged[i]
                                      /\ hidden(k)[i] \in NoticeItem
          /\ hidden(k) \in [1 .. Len(Purged) -> NoticeItem]
      BY <1>1, <1>3
    <2>2. hidden(k) \in Seq(NoticeItem) /\ Len(hidden(k)) = Len(Purged)
      <3> DEFINE h == hidden(k)
      <3>1. h \in [1 .. Len(Purged) -> NoticeItem] /\ Len(Purged) \in Nat
        BY <1>1, <2>1
      <3> HIDE DEF h
      <3>2. h \in Seq(NoticeItem) /\ Len(h) = Len(Purged)
        BY <3>1
      <3> QED
        BY <3>2 DEF h
    <2>3. \A i \in DOMAIN Purged : hidden(k)[i].of = Purged[i].of
      BY <1>3, <2>1
    <2> HIDE DEF hidden
    <2> QED
      BY <1>1, <2>2, <2>3, ItemsMarked
  <1>5. \A w \in before : w \in Seq(NoticeItem) /\ NoticesFit(w)
    <2> SUFFICES ASSUME NEW i \in DOMAIN Purged PROVE hidden(i - 1) \in Seq(NoticeItem) /\ NoticesFit(hidden(i - 1))
      BY DEF before
    <2>1. i - 1 \in Int
      BY <1>1
    <2> HIDE DEF hidden
    <2> QED
      BY <1>4, <2>1
  <1>6. \A i \in DOMAIN items : Concealed(items[i])
    <2> SUFFICES ASSUME NEW i \in DOMAIN Purged PROVE Concealed(items[i])
      OBVIOUS
    <2>1. i <= Len(Purged)
      BY <1>1
    <2>2. items[i] = Redacted(Purged[i], TRUE)
      BY <2>1
    <2> QED
      BY <1>3, <2>2
  <1>7. Len(Purged) \in Int
    BY <1>1
  <1>8. items \in Seq(NoticeItem) /\ NoticesFit(items) /\ \A n : Among(Purged, n) => Among(items, n)
    <2> HIDE DEF hidden
    <2> QED
      BY <1>4, <1>7 DEF items
  <1> HIDE DEF items, before
  <1>9. \A n \in (taken' \ dropped') \ dueNotices' : Urgent(n) => Among(items, n) \/ Replaced(n, taken')
    BY <1>2, <1>8, PurgedFits
  <1>10. locked' \in BOOLEAN /\ taken' \subseteq sent'
    BY <1>1, <1>2
  <1> QED
    BY <1>1, <1>2, <1>5, <1>6, <1>8, <1>9, <1>10, NoticesPersistedStep

\* Every call of the notification manager, the passing of time, and a crash.
LEMMA NoticesStep == NoticesIInv /\ [NoticesNext]_noticeVars => NoticesIInv'
  <1> SUFFICES ASSUME NoticesIInv, [NoticesNext]_noticeVars PROVE NoticesIInv'
    OBVIOUS
  <1>1. CASE UnlockScreen
    BY <1>1 DEF UnlockScreen, NoticesIInv, NoticesTypeOK, NoticesFit, Among, Replaced
  <1>2. CASE ClearNotices
    <2> DEFINE items == <<>>
               before == {}
    <2>1. Persisted(before, items, FALSE) /\ dropped' = dropped \cup taken /\ UNCHANGED <<locked, dueNotices, sent, taken>>
      BY <1>2 DEF ClearNotices
    <2>2. items \in Seq(NoticeItem) /\ Len(items) = 0 /\ DOMAIN items = {} /\ FALSE \in BOOLEAN
      OBVIOUS
    <2>3. \A w \in before : w \in Seq(NoticeItem) /\ NoticesFit(w)
      OBVIOUS
    <2> HIDE DEF items, before
    <2>4. NoticesFit(items)
      BY <2>2, NoticesAssumption DEF NoticesFit, HardMaxNotices
    <2>5. \A n \in (taken' \ dropped') \ dueNotices' : Urgent(n) => Among(items, n) \/ Replaced(n, taken')
      BY <2>1
    <2>6. (locked' => \A i \in DOMAIN items : Concealed(items[i])) /\ locked' \in BOOLEAN /\ taken' \subseteq sent'
      BY <2>1, <2>2 DEF NoticesIInv, NoticesTypeOK
    <2> QED
      BY <2>1, <2>2, <2>3, <2>4, <2>5, <2>6, NoticesPersistedStep
  <1>3. ASSUME NEW n \in Notices, NoticeIsDue(n) PROVE NoticesIInv'
    BY <1>3 DEF NoticeIsDue, NoticesIInv, NoticesTypeOK, NoticesFit, Among, Replaced
  <1>4. CASE NoticesRestart
    <2>1. /\ notices' = savedNotices /\ noticesFull' = FALSE /\ locked' = FALSE
          /\ dropped' = IF noticesFull THEN dropped \cup taken ELSE dropped
          /\ UNCHANGED <<savedNotices, dueNotices, sent, taken>>
      BY <1>4 DEF NoticesRestart
    <2>2. NoticesTypeOK'
      BY <2>1 DEF NoticesIInv, NoticesTypeOK
    <2>3. NoticesFit(notices)' /\ NoticesFit(savedNotices)'
      BY <2>1 DEF NoticesIInv, NoticesFit, HardMaxNotices, Urgent
    <2>4. (\A n \in (taken \ dropped) \ dueNotices : Urgent(n) => Among(notices, n) \/ Replaced(n, taken))'
      <3>1. CASE noticesFull
        BY <2>1, <3>1
      <3>2. CASE ~noticesFull
        BY <2>1, <3>2 DEF NoticesIInv, Among, Replaced, Urgent, Weight
      <3> QED
        BY <3>1, <3>2
    <2> QED
      BY <2>1, <2>2, <2>3, <2>4 DEF NoticesIInv
  <1>5. CASE UNCHANGED noticeVars
    BY <1>5 DEF noticeVars, NoticesIInv, NoticesTypeOK, NoticesFit, Among, Replaced
  <1> QED
    BY <1>1, <1>2, <1>3, <1>4, <1>5, PurgeExpiredStep, LockScreenStep, NotifyStep, MarkReadStep, ActionStep DEF NoticesNext

(* What is urgent is kept by both bounded queues, notifications and        *)
(* telemetry, for any sizes, priorities and coalescing keys, through any   *)
(* number of failed writes and crashes (notification-queue.ts,             *)
(* telemetry-spool.ts).                                                    *)
THEOREM UrgentIsAlwaysKept == NoticesSpec /\ SpoolSpec => []UrgentIsKept
  <1>1. NoticesInit => NoticesIInv
    <2> SUFFICES ASSUME NoticesInit PROVE NoticesIInv
      OBVIOUS
    <2>1. notices = <<>> /\ savedNotices = <<>> /\ noticesFull = FALSE /\ locked = FALSE /\ taken = {}
      BY DEF NoticesInit
    <2>2. <<>> \in Seq(NoticeItem) /\ Len(<<>>) = 0
      OBVIOUS
    <2>3. NoticesFit(notices)
      BY <2>1, <2>2, NoticesAssumption DEF NoticesFit, HardMaxNotices
    <2>4. NoticesTypeOK
      BY <2>1, <2>2 DEF NoticesTypeOK
    <2> QED
      BY <2>1, <2>3, <2>4 DEF NoticesIInv
  <1>2. NoticesIInv => NoticesAreKept
    BY DEF NoticesIInv, NoticesFit, NoticesAreKept, Among, Replaced, Concealed
  <1>3. NoticesSpec => []NoticesAreKept
    BY <1>1, <1>2, NoticesStep, PTL DEF NoticesSpec
  <1> QED
    BY <1>3, SpoolAlwaysKeepsCritical, PTL DEF UrgentIsKept

-----------------------------------------------------------------------------
(* The memory cache.                                                       *)

CacheState == [entries : [CacheKeys -> CachePuts \cup {"none"}], total : Nat,
               index : [CacheTags -> SUBSET CacheKeys]]
Exact(c) == c.total = Bytes(c, UsedKeys(c))

\* What holds of a cache between any two operations on it.
CacheFits(c) ==
  /\ c \in CacheState
  /\ \A k \in UsedKeys(c) : CacheKeyOf[c.entries[k]] = k
  /\ IsFiniteSet(UsedKeys(c)) /\ IsFiniteSet(BytesOf(c, UsedKeys(c)))
  /\ Bytes(c, UsedKeys(c)) <= c.total /\ c.total <= MaxMemoryBytes
  /\ Cardinality(UsedKeys(c)) <= MaxEntries

\* d has some of the entries of c, filed as they were.
Shrinks(c, d) ==
  /\ CacheFits(d)
  /\ UsedKeys(d) \subseteq UsedKeys(c)
  /\ \A k \in UsedKeys(d) : /\ d.entries[k] = c.entries[k]
                            /\ \A t \in CacheTags : k \in c.index[t] => k \in d.index[t]
  /\ Exact(c) => Exact(d)

LEMMA ShrinksTransitive ==
  ASSUME NEW a, NEW b, NEW c, Shrinks(a, b), Shrinks(b, c)
  PROVE  Shrinks(a, c)
  BY DEF Shrinks

LEMMA UsedEntry ==
  ASSUME NEW c \in CacheState, NEW k \in UsedKeys(c)
  PROVE  /\ k \in CacheKeys /\ c.entries[k] \in CachePuts /\ SizeBytesOf[c.entries[k]] \in Nat
         /\ TagsOf[c.entries[k]] \subseteq CacheTags
  BY MemoryCacheAssumption DEF CacheState, UsedKeys

\* One byte belongs to one key.
LEMMA BytesOfKeys ==
  ASSUME NEW c, NEW keys, NEW b
  PROVE  b \in BytesOf(c, keys) <=> \E k \in keys : b \in {k} \X (1 .. SizeBytesOf[c.entries[k]])
  BY DEF BytesOf

\* remove: the total goes down by what the removed entries took.
LEMMA RemovedShrinks ==
  ASSUME NEW c, CacheFits(c), NEW keys
  PROVE  /\ Shrinks(c, Removed(c, keys))
         /\ UsedKeys(Removed(c, keys)) = UsedKeys(c) \ keys
  <1> DEFINE d == Removed(c, keys)
             gone == keys \cap UsedKeys(c)
             size == Bytes(c, gone)
  <1>1. c \in CacheState /\ c.total \in Nat
    BY DEF CacheFits, CacheState
  <1>2. /\ d.entries = [k \in CacheKeys |-> IF k \in gone THEN "none" ELSE c.entries[k]]
        /\ d.total = IF size > c.total THEN 0 ELSE c.total - size
        /\ d.index = [t \in CacheTags |-> c.index[t] \ {k \in gone : t \in TagsOf[c.entries[k]]}]
    BY DEF Removed
  <1>3. UsedKeys(d) = UsedKeys(c) \ keys /\ \A k \in UsedKeys(d) : d.entries[k] = c.entries[k]
    <2> HIDE DEF d
    <2> QED
      BY <1>2 DEF UsedKeys
  <1> DEFINE B == BytesOf(c, UsedKeys(c))
             G == BytesOf(c, gone)
             D == BytesOf(d, UsedKeys(d))
  <1>4. D = B \ G
    <2> HIDE DEF d
    <2>1. ASSUME NEW b \in D PROVE b \in B \ G
      <3>1. PICK k \in UsedKeys(d) : b \in {k} \X (1 .. SizeBytesOf[d.entries[k]])
        BY <2>1, BytesOfKeys
      <3>2. b \in {k} \X (1 .. SizeBytesOf[c.entries[k]]) /\ b[1] = k /\ k \in UsedKeys(c) /\ k \notin gone
        BY <1>3, <3>1
      <3>3. b \in B
        BY <3>2, BytesOfKeys
      <3>4. b \notin G
        <4> SUFFICES ASSUME b \in G PROVE FALSE
          OBVIOUS
        <4>1. PICK l \in gone : b \in {l} \X (1 .. SizeBytesOf[c.entries[l]])
          BY BytesOfKeys
        <4>2. b[1] = l
          BY <4>1
        <4> QED
          BY <3>2, <4>2
      <3> QED
        BY <3>3, <3>4
    <2>2. ASSUME NEW b \in B \ G PROVE b \in D
      <3>1. PICK k \in UsedKeys(c) : b \in {k} \X (1 .. SizeBytesOf[c.entries[k]])
        BY <2>2, BytesOfKeys
      <3>2. k \notin gone
        BY <2>2, <3>1, BytesOfKeys
      <3>3. k \in UsedKeys(d) /\ d.entries[k] = c.entries[k]
        BY <1>3, <3>2
      <3>4. b \in {k} \X (1 .. SizeBytesOf[d.entries[k]])
        BY <3>1, <3>3
      <3> QED
        BY <3>3, <3>4, BytesOfKeys
    <2> QED
      BY <2>1, <2>2
  <1>5. G \subseteq B
    BY DEF BytesOf
  <1>6. IsFiniteSet(B) /\ Cardinality(B) \in Nat /\ IsFiniteSet(UsedKeys(c)) /\ Cardinality(UsedKeys(c)) \in Nat
    BY FS_CardinalityType DEF CacheFits
  <1> HIDE DEF d, B, G, D
  <1>7. /\ IsFiniteSet(G) /\ Cardinality(G) \in Nat /\ Cardinality(G) <= Cardinality(B)
        /\ IsFiniteSet(D) /\ Cardinality(D) = Cardinality(B) - Cardinality(G)
    <2>1. IsFiniteSet(G) /\ Cardinality(G) \in Nat /\ Cardinality(G) <= Cardinality(B)
      BY <1>5, <1>6, FS_Subset, FS_CardinalityType
    <2>2. IsFiniteSet(B \ G) /\ Cardinality(B \ G) = Cardinality(B) - Cardinality(B \cap G)
      BY <1>6, FS_Difference
    <2>3. B \cap G = G
      BY <1>5
    <2> QED
      BY <1>4, <2>1, <2>2, <2>3
  <1>8. Cardinality(B) <= c.total /\ c.total <= MaxMemoryBytes /\ Cardinality(UsedKeys(c)) <= MaxEntries /\ MaxMemoryBytes \in Nat
    BY MemoryCacheAssumption DEF CacheFits, Bytes, B
  <1>9. d.total = c.total - Cardinality(G) /\ d.total \in Nat
    BY <1>1, <1>2, <1>6, <1>7, <1>8 DEF Bytes, G
  <1>10. d \in CacheState
    <2>1. d = [entries |-> d.entries, total |-> d.total, index |-> d.index]
      BY DEF d, Removed
    <2>2. d.entries \in [CacheKeys -> CachePuts \cup {"none"}]
      BY <1>1, <1>2 DEF CacheState
    <2>3. d.index \in [CacheTags -> SUBSET CacheKeys]
      BY <1>1, <1>2 DEF CacheState
    <2> QED
      BY <1>9, <2>1, <2>2, <2>3 DEF CacheState
  <1>11. IsFiniteSet(UsedKeys(d)) /\ Cardinality(UsedKeys(d)) <= MaxEntries
    <2>1. UsedKeys(d) \subseteq UsedKeys(c) /\ MaxEntries \in Nat
      BY <1>3, MemoryCacheAssumption
    <2>2. IsFiniteSet(UsedKeys(d)) /\ Cardinality(UsedKeys(d)) <= Cardinality(UsedKeys(c)) /\ Cardinality(UsedKeys(d)) \in Nat
      BY <1>6, <2>1, FS_Subset, FS_CardinalityType
    <2> QED
      BY <1>6, <1>8, <2>1, <2>2
  <1>12. Bytes(d, UsedKeys(d)) = Cardinality(D) /\ Bytes(c, UsedKeys(c)) = Cardinality(B)
    BY DEF Bytes, D, B
  <1>13. CacheFits(d)
    <2>1. \A k \in UsedKeys(d) : CacheKeyOf[d.entries[k]] = k
      BY <1>3 DEF CacheFits
    <2>2. Bytes(d, UsedKeys(d)) <= d.total /\ d.total <= MaxMemoryBytes
      BY <1>1, <1>6, <1>7, <1>8, <1>9, <1>12
    <2>3. IsFiniteSet(BytesOf(d, UsedKeys(d)))
      BY <1>7 DEF D
    <2> QED
      BY <1>10, <1>11, <2>1, <2>2, <2>3 DEF CacheFits
  <1>14. Exact(c) => Exact(d)
    BY <1>6, <1>7, <1>9, <1>12 DEF Exact
  <1>15. \A k \in UsedKeys(d) : \A t \in CacheTags : k \in c.index[t] => k \in d.index[t]
    BY <1>2, <1>3
  <1> QED
    BY <1>3, <1>13, <1>14, <1>15 DEF Shrinks, d

LEMMA ShrinksReflexive == ASSUME NEW c, CacheFits(c) PROVE Shrinks(c, c)
  BY DEF Shrinks

\* ensureCapacity, under pressure or not: there is room for one more entry.
LEMMA MadeRoomFits ==
  ASSUME NEW c, CacheFits(c), NEW p \in CachePuts, NEW r \in MadeRoom(c, p)
  PROVE  Shrinks(c, r) /\ Cardinality(UsedKeys(r)) < MaxEntries
  <1>1. CASE FitsInCache(c, p)
    <2>1. r = c
      BY <1>1 DEF MadeRoom
    <2> QED
      BY <1>1, <2>1, ShrinksReflexive DEF FitsInCache
  <1>2. CASE ~FitsInCache(c, p)
    <2>1. PICK ks \in SUBSET UsedKeys(c) : r = Removed(c, ks) /\ (FitsInCache(Removed(c, ks), p) \/ ks = UsedKeys(c))
      BY <1>2 DEF MadeRoom
    <2>2. Shrinks(c, r) /\ UsedKeys(r) = UsedKeys(c) \ ks
      BY <2>1, RemovedShrinks
    <2>3. CASE FitsInCache(Removed(c, ks), p)
      BY <2>1, <2>2, <2>3 DEF FitsInCache
    <2>4. CASE ks = UsedKeys(c)
      <3>1. UsedKeys(r) = {}
        BY <2>2, <2>4
      <3>2. Cardinality({}) = 0
        BY FS_EmptySet
      <3>3. MaxEntries \in Nat /\ MaxEntries > 0
        BY MemoryCacheAssumption
      <3> QED
        BY <2>2, <3>1, <3>2, <3>3
    <2> QED
      BY <2>1, <2>3, <2>4
  <1> QED
    BY <1>1, <1>2

\* The store of an entry: what is evicted, and whether it fits then.
LEMMA StoreEntryFits ==
  ASSUME NEW p \in CachePuts, NEW c, CacheFits(c), StoreEntry(p, c)
  PROVE  \E r : /\ Shrinks(c, r) /\ Cardinality(UsedKeys(r)) < MaxEntries
                /\ \/ cache' = r /\ cachePut' = [cachePut EXCEPT ![p] = "refused"]
                   \/ /\ ~(r.total + SizeBytesOf[p] > MaxMemoryBytes)
                      /\ cache' = Stored(r, p) /\ cachePut' = [cachePut EXCEPT ![p] = "stored"]
  <1>1. PICK pressed \in {c} \cup Halved(c) :
          \E first \in IF ExpiredKeys(pressed) = {} THEN {{}} ELSE {{k} : k \in ExpiredKeys(pressed)} :
            \E roomy \in MadeRoom(Removed(pressed, first), p) :
              IF roomy.total + SizeBytesOf[p] > MaxMemoryBytes
              THEN cache' = roomy /\ cachePut' = [cachePut EXCEPT ![p] = "refused"]
              ELSE cache' = Stored(roomy, p) /\ cachePut' = [cachePut EXCEPT ![p] = "stored"]
    BY DEF StoreEntry
  <1>2. PICK first : \E roomy \in MadeRoom(Removed(pressed, first), p) :
              IF roomy.total + SizeBytesOf[p] > MaxMemoryBytes
              THEN cache' = roomy /\ cachePut' = [cachePut EXCEPT ![p] = "refused"]
              ELSE cache' = Stored(roomy, p) /\ cachePut' = [cachePut EXCEPT ![p] = "stored"]
    BY <1>1
  <1>3. PICK r \in MadeRoom(Removed(pressed, first), p) :
              IF r.total + SizeBytesOf[p] > MaxMemoryBytes
              THEN cache' = r /\ cachePut' = [cachePut EXCEPT ![p] = "refused"]
              ELSE cache' = Stored(r, p) /\ cachePut' = [cachePut EXCEPT ![p] = "stored"]
    BY <1>2
  <1>4. Shrinks(c, pressed) /\ CacheFits(pressed)
    <2>1. CASE pressed = c
      BY <2>1, ShrinksReflexive
    <2>2. CASE pressed \in Halved(c)
      <3>1. PICK keys : pressed = Removed(c, keys)
        BY <2>2 DEF Halved
      <3> QED
        BY <3>1, RemovedShrinks DEF Shrinks
    <2> QED
      BY <1>1, <2>1, <2>2
  <1>5. Shrinks(pressed, Removed(pressed, first)) /\ CacheFits(Removed(pressed, first))
    BY <1>4, RemovedShrinks DEF Shrinks
  <1>6. Shrinks(Removed(pressed, first), r) /\ Cardinality(UsedKeys(r)) < MaxEntries
    BY <1>3, <1>5, MadeRoomFits
  <1>7. Shrinks(c, r)
    BY <1>4, <1>5, <1>6, ShrinksTransitive
  <1> QED
    BY <1>3, <1>6, <1>7

\* The entry is filed under its key and its tags.
LEMMA StoredFits ==
  ASSUME NEW r, CacheFits(r), NEW p \in CachePuts, Cardinality(UsedKeys(r)) < MaxEntries,
         ~(r.total + SizeBytesOf[p] > MaxMemoryBytes)
  PROVE  /\ CacheFits(Stored(r, p))
         /\ UsedKeys(Stored(r, p)) = UsedKeys(r) \cup {CacheKeyOf[p]}
         /\ Stored(r, p).entries[CacheKeyOf[p]] = p
         /\ \A k \in UsedKeys(r) \ {CacheKeyOf[p]} : Stored(r, p).entries[k] = r.entries[k]
         /\ \A t \in CacheTags : r.index[t] \subseteq Stored(r, p).index[t]
         /\ \A t \in TagsOf[p] : CacheKeyOf[p] \in Stored(r, p).index[t]
         /\ Exact(r) /\ CacheKeyOf[p] \notin UsedKeys(r) => Exact(Stored(r, p))
  <1> DEFINE key == CacheKeyOf[p]
             d == Stored(r, p)
             U == UsedKeys(r)
             n == SizeBytesOf[p]
             new == {key} \X (1 .. n)
             B == BytesOf(r, U)
             R == BytesOf(r, U \ {key})
             D == BytesOf(d, UsedKeys(d))
  <1>1. /\ r \in CacheState /\ r.total \in Nat /\ key \in CacheKeys /\ p # "none" /\ n \in Nat /\ TagsOf[p] \subseteq CacheTags
        /\ r.entries \in [CacheKeys -> CachePuts \cup {"none"}] /\ r.index \in [CacheTags -> SUBSET CacheKeys]
        /\ MaxMemoryBytes \in Nat /\ MaxEntries \in Nat
    BY MemoryCacheAssumption DEF CacheFits, CacheState
  <1>2. /\ d.entries = [r.entries EXCEPT ![key] = p] /\ d.total = r.total + n
        /\ d.index = [t \in CacheTags |-> IF t \in TagsOf[p] THEN r.index[t] \cup {key} ELSE r.index[t]]
        /\ d = [entries |-> d.entries, total |-> d.total, index |-> d.index]
    BY DEF Stored
  <1> HIDE DEF d, key, n
  <1>3. /\ UsedKeys(d) = U \cup {key} /\ d.entries[key] = p
        /\ \A k \in U \ {key} : d.entries[k] = r.entries[k]
    BY <1>1, <1>2 DEF UsedKeys
  <1>4. /\ \A t \in CacheTags : r.index[t] \subseteq d.index[t]
        /\ \A t \in TagsOf[p] : key \in d.index[t]
    BY <1>1, <1>2
  <1>5. d \in CacheState
    <2>1. d.entries \in [CacheKeys -> CachePuts \cup {"none"}] /\ d.total \in Nat
      BY <1>1, <1>2
    <2>2. d.index \in [CacheTags -> SUBSET CacheKeys]
      BY <1>1, <1>2
    <2> QED
      BY <1>2, <2>1, <2>2 DEF CacheState
  <1>6. D = R \cup new
    <2>1. ASSUME NEW b \in D PROVE b \in R \cup new
      <3>1. PICK k \in UsedKeys(d) : b \in {k} \X (1 .. SizeBytesOf[d.entries[k]])
        BY <2>1, BytesOfKeys
      <3>2. CASE k = key
        BY <1>3, <3>1, <3>2 DEF n
      <3>3. CASE k # key
        <4>1. k \in U \ {key} /\ b \in {k} \X (1 .. SizeBytesOf[r.entries[k]])
          BY <1>3, <3>1, <3>3
        <4> QED
          BY <4>1, BytesOfKeys
      <3> QED
        BY <3>2, <3>3
    <2>2. ASSUME NEW b \in R PROVE b \in D
      <3>1. PICK k \in U \ {key} : b \in {k} \X (1 .. SizeBytesOf[r.entries[k]])
        BY <2>2, BytesOfKeys
      <3>2. k \in UsedKeys(d) /\ b \in {k} \X (1 .. SizeBytesOf[d.entries[k]])
        BY <1>3, <3>1
      <3> QED
        BY <3>2, BytesOfKeys
    <2>3. ASSUME NEW b \in new PROVE b \in D
      <3>1. key \in UsedKeys(d) /\ b \in {key} \X (1 .. SizeBytesOf[d.entries[key]])
        BY <1>3, <2>3 DEF n
      <3> QED
        BY <3>1, BytesOfKeys
    <2> QED
      BY <2>1, <2>2, <2>3
  <1>7. R \cap new = {}
    <2> SUFFICES ASSUME NEW b \in R, b \in new PROVE FALSE
      OBVIOUS
    <2>1. PICK k \in U \ {key} : b \in {k} \X (1 .. SizeBytesOf[r.entries[k]])
      BY BytesOfKeys
    <2>2. b[1] = k /\ b[1] = key
      BY <2>1
    <2> QED
      BY <2>2
  <1>8. R \subseteq B /\ (key \notin U => R = B)
    <2>1. key \notin U => U \ {key} = U
      OBVIOUS
    <2>2. R \subseteq B
      BY DEF BytesOf
    <2> QED
      BY <2>1, <2>2
  <1>9. IsFiniteSet(new) /\ Cardinality(new) = n
    <2>1. IsFiniteSet({key}) /\ Cardinality({key}) = 1
      BY FS_Singleton
    <2>2. IsFiniteSet(1 .. n) /\ Cardinality(1 .. n) = n
      BY <1>1, FirstNumbers
    <2>3. IsFiniteSet(new) /\ Cardinality(new) = Cardinality({key}) * Cardinality(1 .. n)
      BY <2>1, <2>2, FS_Product
    <2> QED
      BY <1>1, <2>1, <2>2, <2>3
  <1>10. IsFiniteSet(B) /\ Cardinality(B) \in Nat /\ Cardinality(B) <= r.total
    BY FS_CardinalityType DEF CacheFits, Bytes
  <1> HIDE DEF new, B, R, D
  <1>11. IsFiniteSet(R) /\ Cardinality(R) \in Nat /\ Cardinality(R) <= Cardinality(B)
    BY <1>8, <1>10, FS_Subset, FS_CardinalityType
  <1>12. IsFiniteSet(D) /\ Cardinality(D) = Cardinality(R) + n
    <2>1. /\ IsFiniteSet(R \cup new)
          /\ Cardinality(R \cup new) = Cardinality(R) + Cardinality(new) - Cardinality(R \cap new)
      BY <1>9, <1>11, FS_Union
    <2>2. Cardinality(R \cap new) = 0
      BY <1>7, FS_EmptySet
    <2> QED
      BY <1>1, <1>6, <1>9, <1>11, <2>1, <2>2
  <1>13. IsFiniteSet(UsedKeys(d)) /\ Cardinality(UsedKeys(d)) <= MaxEntries
    <2>1. IsFiniteSet(U) /\ Cardinality(U) \in Nat
      BY FS_CardinalityType DEF CacheFits
    <2>2. /\ IsFiniteSet(U \cup {key})
          /\ Cardinality(U \cup {key}) = IF key \in U THEN Cardinality(U) ELSE Cardinality(U) + 1
      BY <2>1, FS_AddElement
    <2> QED
      BY <1>1, <1>3, <2>1, <2>2
  <1>14. Bytes(d, UsedKeys(d)) = Cardinality(D) /\ Bytes(r, U) = Cardinality(B)
    BY DEF Bytes, D, B
  <1>15. CacheFits(d)
    <2>1. \A k \in UsedKeys(d) : CacheKeyOf[d.entries[k]] = k
      BY <1>3 DEF CacheFits, key
    <2>2. Bytes(d, UsedKeys(d)) <= d.total /\ d.total <= MaxMemoryBytes
      BY <1>1, <1>2, <1>10, <1>11, <1>12, <1>14 DEF n
    <2>3. IsFiniteSet(BytesOf(d, UsedKeys(d)))
      BY <1>12 DEF D
    <2> QED
      BY <1>5, <1>13, <2>1, <2>2, <2>3 DEF CacheFits
  <1>16. Exact(r) /\ key \notin U => Exact(d)
    BY <1>1, <1>2, <1>8, <1>10, <1>12, <1>14 DEF Exact
  <1> QED
    BY <1>3, <1>4, <1>15, <1>16 DEF d, key

\* The state beside the entries.
CacheTypes(puts, clears) ==
  /\ puts \in [CachePuts -> {"idle", "removing", "stored", "refused"}]
  /\ clears \in [CacheClears -> [phase : {"idle", "clearing", "over"}, tag : CacheTags \cup {"none"},
                                 left : SUBSET CacheKeys, began : SUBSET CachePuts]]
  /\ \A d \in CacheClears : clears[d].phase = "clearing" => clears[d].tag \in CacheTags
\* An entry was put, and is filed under its tags unless a clear dropped the index.
EntriesStored(c, puts) == \A k \in UsedKeys(c) : puts[c.entries[k]] = "stored"
EntriesFiled(c, lost) ==
  \A k \in UsedKeys(c) : c.entries[k] \notin lost => \A t \in TagsOf[c.entries[k]] : k \in c.index[t]
\* A clear has still to remove what it found and is still there.
ClearsGoOn(c, puts, clears) ==
  \A d \in CacheClears :
    /\ \A p \in clears[d].began : puts[p] = "stored"
    /\ clears[d].phase = "clearing" => \A k \in UsedKeys(c) : c.entries[k] \in clears[d].began => k \in clears[d].left
    /\ clears[d].phase = "over" => \A k \in UsedKeys(c) : c.entries[k] \notin clears[d].began
\* Without overlapping puts of a key the total is exact, and a put that has removed the old
\* entry finds the key free.
Undisturbed(c, puts) ==
  /\ Exact(c)
  /\ \A p \in CachePuts : puts[p] = "removing" =>
       /\ CacheKeyOf[p] \notin UsedKeys(c)
       /\ \A q \in CachePuts : puts[q] = "removing" /\ CacheKeyOf[q] = CacheKeyOf[p] => q = p

CacheIInv ==
  /\ CacheFits(cache) /\ CacheTypes(cachePut, cacheClear)
  /\ EntriesStored(cache, cachePut) /\ EntriesFiled(cache, unfiled)
  /\ ClearsGoOn(cache, cachePut, cacheClear)
  /\ ~collided => Undisturbed(cache, cachePut)

\* Whatever only takes entries away keeps the invariant.
LEMMA ShrunkKeeps ==
  ASSUME NEW c, NEW d, CacheFits(c), Shrinks(c, d), NEW puts, NEW clears, NEW lost
  PROVE  /\ CacheFits(d)
         /\ EntriesStored(c, puts) => EntriesStored(d, puts)
         /\ EntriesFiled(c, lost) => EntriesFiled(d, lost)
         /\ ClearsGoOn(c, puts, clears) => ClearsGoOn(d, puts, clears)
         /\ Undisturbed(c, puts) => Undisturbed(d, puts)
  <1>1. CacheFits(d) /\ UsedKeys(d) \subseteq UsedKeys(c) /\ (Exact(c) => Exact(d))
    BY DEF Shrinks
  <1>2. \A k \in UsedKeys(d) : d.entries[k] = c.entries[k]
    BY DEF Shrinks
  <1>3. \A k \in UsedKeys(d) : \A t \in CacheTags : k \in c.index[t] => k \in d.index[t]
    BY DEF Shrinks
  <1>4. EntriesStored(c, puts) => EntriesStored(d, puts)
    BY <1>1, <1>2 DEF EntriesStored
  <1>5. EntriesFiled(c, lost) => EntriesFiled(d, lost)
    <2> SUFFICES ASSUME EntriesFiled(c, lost), NEW k \in UsedKeys(d), d.entries[k] \notin lost,
                        NEW t \in TagsOf[d.entries[k]]
                 PROVE  k \in d.index[t]
      BY DEF EntriesFiled
    <2>1. t \in CacheTags
      BY <1>1, UsedEntry DEF CacheFits
    <2>2. k \in c.index[t]
      BY <1>1, <1>2 DEF EntriesFiled
    <2> QED
      BY <1>3, <2>1, <2>2
  <1>6. ClearsGoOn(c, puts, clears) => ClearsGoOn(d, puts, clears)
    BY <1>1, <1>2 DEF ClearsGoOn
  <1>7. Undisturbed(c, puts) => Undisturbed(d, puts)
    BY <1>1 DEF Undisturbed
  <1> QED
    BY <1>1, <1>4, <1>5, <1>6, <1>7

LEMMA ShrinkStep ==
  ASSUME CacheIInv, Shrinks(cache, cache'),
         UNCHANGED <<cachePut, cacheClear, collided, unfiled>>
  PROVE  CacheIInv'
  BY ShrunkKeeps DEF CacheIInv

\* Nothing is left: stop and clearAll.
LEMMA NothingShrinks ==
  ASSUME NEW c PROVE Shrinks(c, NoEntries)
  <1> DEFINE d == NoEntries
  <1>1. /\ d.entries = [k \in CacheKeys |-> "none"] /\ d.total = 0 /\ d.index = [t \in CacheTags |-> {}]
        /\ d \in CacheState
    BY DEF NoEntries, CacheState
  <1>2. UsedKeys(d) = {}
    BY <1>1 DEF UsedKeys
  <1>3. BytesOf(d, {}) = {}
    BY DEF BytesOf
  <1>4. IsFiniteSet({}) /\ Cardinality({}) = 0
    BY FS_EmptySet
  <1>5. MaxMemoryBytes \in Nat /\ MaxEntries \in Nat
    BY MemoryCacheAssumption
  <1> HIDE DEF d
  <1>6. CacheFits(d) /\ Exact(d)
    BY <1>1, <1>2, <1>3, <1>4, <1>5 DEF CacheFits, Exact, Bytes
  <1> QED
    BY <1>2, <1>6 DEF Shrinks, d

\* A put stores its entry, or is refused once it has evicted others.
LEMMA StoreStep ==
  ASSUME CacheIInv, NEW p \in CachePuts, StoreEntry(p, cache), cachePut[p] \in {"idle", "removing"},
         UNCHANGED <<cacheClear, unfiled>>, collided => collided',
         ~collided' => /\ CacheKeyOf[p] \notin UsedKeys(cache)
                       /\ \A q \in CachePuts \ {p} : cachePut[q] = "removing" => CacheKeyOf[q] # CacheKeyOf[p]
  PROVE  CacheIInv'
  <1>1. PICK r : /\ Shrinks(cache, r) /\ Cardinality(UsedKeys(r)) < MaxEntries
                 /\ \/ cache' = r /\ cachePut' = [cachePut EXCEPT ![p] = "refused"]
                    \/ /\ ~(r.total + SizeBytesOf[p] > MaxMemoryBytes)
                       /\ cache' = Stored(r, p) /\ cachePut' = [cachePut EXCEPT ![p] = "stored"]
    BY StoreEntryFits DEF CacheIInv
  <1>2. /\ CacheFits(r) /\ EntriesStored(r, cachePut) /\ EntriesFiled(r, unfiled)
        /\ ClearsGoOn(r, cachePut, cacheClear)
        /\ ~collided => Undisturbed(r, cachePut)
    BY <1>1, ShrunkKeeps DEF CacheIInv
  <1>3. /\ CacheTypes(cachePut, cacheClear) /\ CacheTypes(cachePut', cacheClear')
        /\ \A q \in CachePuts \ {p} : cachePut'[q] = cachePut[q]
        /\ cachePut'[p] \in {"stored", "refused"} /\ cachePut[p] # "stored"
    BY <1>1 DEF CacheIInv, CacheTypes
  <1>4. \A k \in UsedKeys(r) : r.entries[k] \in CachePuts \ {p} /\ cachePut[r.entries[k]] = "stored"
    BY <1>2, <1>3, UsedEntry DEF EntriesStored, CacheFits
  <1>5. \A d \in CacheClears : p \notin cacheClear[d].began /\ cacheClear[d].began \subseteq CachePuts
    BY <1>2, <1>3 DEF ClearsGoOn, CacheTypes
  <1>6. UsedKeys(r) \subseteq UsedKeys(cache)
    BY <1>1 DEF Shrinks
  <1>7. CASE cache' = r
    <2>1. EntriesStored(r, cachePut')
      BY <1>3, <1>4 DEF EntriesStored
    <2>2. ClearsGoOn(r, cachePut', cacheClear')
      BY <1>2, <1>3, <1>5 DEF ClearsGoOn
    <2>3. ~collided' => Undisturbed(r, cachePut')
      BY <1>2, <1>3 DEF Undisturbed
    <2> QED
      BY <1>2, <1>3, <1>7, <2>1, <2>2, <2>3 DEF CacheIInv
  <1>8. CASE cache' = Stored(r, p) /\ ~(r.total + SizeBytesOf[p] > MaxMemoryBytes) /\ cachePut'[p] = "stored"
    <2> DEFINE d == Stored(r, p)
               key == CacheKeyOf[p]
    <2>1. /\ CacheFits(d) /\ UsedKeys(d) = UsedKeys(r) \cup {key} /\ d.entries[key] = p
          /\ \A k \in UsedKeys(r) \ {key} : d.entries[k] = r.entries[k]
      BY <1>1, <1>2, <1>8, StoredFits
    <2>2. /\ \A t \in CacheTags : r.index[t] \subseteq d.index[t]
          /\ \A t \in TagsOf[p] : key \in d.index[t]
          /\ Exact(r) /\ key \notin UsedKeys(r) => Exact(d)
      BY <1>1, <1>2, <1>8, StoredFits
    <2>3. ~collided' => key \notin UsedKeys(r) /\ \A q \in CachePuts \ {p} : cachePut[q] = "removing" => CacheKeyOf[q] # key
      BY <1>6
    <2> HIDE DEF d, key
    <2>4. EntriesStored(d, cachePut')
      BY <1>3, <1>4, <1>8, <2>1 DEF EntriesStored
    <2>5. EntriesFiled(d, unfiled')
      <3> SUFFICES ASSUME NEW k \in UsedKeys(d), d.entries[k] \notin unfiled, NEW t \in TagsOf[d.entries[k]]
                   PROVE  k \in d.index[t]
        BY DEF EntriesFiled
      <3>1. CASE k = key
        BY <2>1, <2>2, <3>1
      <3>2. CASE k # key
        <4>1. k \in UsedKeys(r) /\ d.entries[k] = r.entries[k]
          BY <2>1, <3>2
        <4>2. t \in CacheTags
          BY <1>2, <4>1, UsedEntry DEF CacheFits
        <4>3. k \in r.index[t]
          BY <1>2, <4>1 DEF EntriesFiled
        <4> QED
          BY <2>2, <4>2, <4>3
      <3> QED
        BY <3>1, <3>2
    <2>6. ClearsGoOn(d, cachePut', cacheClear')
      <3> SUFFICES ASSUME NEW x \in CacheClears
                   PROVE  /\ \A q \in cacheClear[x].began : cachePut'[q] = "stored"
                          /\ cacheClear[x].phase = "clearing" =>
                               \A k \in UsedKeys(d) : d.entries[k] \in cacheClear[x].began => k \in cacheClear[x].left
                          /\ cacheClear[x].phase = "over" => \A k \in UsedKeys(d) : d.entries[k] \notin cacheClear[x].began
        BY DEF ClearsGoOn
      <3>1. \A q \in cacheClear[x].began : cachePut'[q] = "stored"
        BY <1>2, <1>3, <1>5 DEF ClearsGoOn
      <3>2. \A k \in UsedKeys(d) : d.entries[k] \in cacheClear[x].began => k \in UsedKeys(r) /\ d.entries[k] = r.entries[k]
        BY <1>5, <2>1
      <3>3. cacheClear[x].phase = "clearing" => \A k \in UsedKeys(r) : r.entries[k] \in cacheClear[x].began => k \in cacheClear[x].left
        BY <1>2 DEF ClearsGoOn
      <3>4. cacheClear[x].phase = "over" => \A k \in UsedKeys(r) : r.entries[k] \notin cacheClear[x].began
        BY <1>2 DEF ClearsGoOn
      <3> QED
        BY <3>1, <3>2, <3>3, <3>4
    <2>7. ~collided' => Undisturbed(d, cachePut')
      <3> SUFFICES ASSUME ~collided' PROVE Undisturbed(d, cachePut')
        OBVIOUS
      <3>1. Undisturbed(r, cachePut)
        BY <1>2
      <3>2. Exact(d)
        BY <2>2, <2>3, <3>1 DEF Undisturbed
      <3>3. \A q \in CachePuts : cachePut'[q] = "removing" => q # p /\ cachePut[q] = "removing"
        BY <1>3
      <3> QED
        BY <2>1, <2>3, <3>1, <3>2, <3>3 DEF Undisturbed, key
    <2>8. cache' = d
      BY <1>8 DEF d
    <2> QED
      BY <1>3, <2>1, <2>4, <2>5, <2>6, <2>7, <2>8 DEF CacheIInv
  <1>9. cachePut' = [cachePut EXCEPT ![p] = "stored"] => cachePut'[p] = "stored"
    BY <1>3 DEF CacheTypes
  <1> QED
    BY <1>1, <1>7, <1>8, <1>9

LEMMA CacheInit == MemoryCacheInit => CacheIInv
  <1> SUFFICES ASSUME MemoryCacheInit PROVE CacheIInv
    OBVIOUS
  <1>1. cache = NoEntries /\ CacheFits(cache)
    BY NothingShrinks DEF MemoryCacheInit, Shrinks
  <1>2. UsedKeys(cache) = {}
    BY <1>1 DEF NoEntries, UsedKeys
  <1>3. cachePut = [p \in CachePuts |-> "idle"] /\ cacheClear = [c \in CacheClears |-> NoClear]
    BY DEF MemoryCacheInit
  <1>4. CacheTypes(cachePut, cacheClear)
    BY <1>3 DEF CacheTypes, NoClear
  <1>5. ClearsGoOn(cache, cachePut, cacheClear)
    BY <1>2, <1>3 DEF ClearsGoOn, NoClear
  <1>6. Exact(cache)
    <2>1. BytesOf(cache, {}) = {} /\ cache.total = 0
      BY <1>1 DEF BytesOf, NoEntries
    <2> QED
      BY <1>2, <2>1, FS_EmptySet DEF Exact, Bytes
  <1>7. Undisturbed(cache, cachePut)
    BY <1>3, <1>6 DEF Undisturbed
  <1> QED
    BY <1>1, <1>2, <1>4, <1>5, <1>7 DEF CacheIInv, EntriesStored, EntriesFiled

\* put: the old entry goes first, and the call is suspended.
LEMMA PutStep ==
  ASSUME CacheIInv, NEW p \in CachePuts, Put(p)
  PROVE  CacheIInv'
  <1> DEFINE key == CacheKeyOf[p]
  <1>1. CASE key \in UsedKeys(cache)
    <2>1. /\ cache' = Removed(cache, {key}) /\ cachePut' = [cachePut EXCEPT ![p] = "removing"]
          /\ cachePut[p] = "idle" /\ UNCHANGED <<cacheClear, unfiled>>
          /\ collided' = (collided \/ \E q \in CachePuts : cachePut[q] = "removing" /\ CacheKeyOf[q] = key)
      BY <1>1 DEF Put
    <2>2. Shrinks(cache, cache') /\ UsedKeys(cache') = UsedKeys(cache) \ {key}
      BY <2>1, RemovedShrinks DEF CacheIInv
    <2>3. /\ CacheFits(cache') /\ EntriesStored(cache', cachePut) /\ EntriesFiled(cache', unfiled)
          /\ ClearsGoOn(cache', cachePut, cacheClear)
          /\ ~collided => Undisturbed(cache', cachePut)
      BY <2>2, ShrunkKeeps DEF CacheIInv
    <2>4. /\ CacheTypes(cachePut, cacheClear) /\ CacheTypes(cachePut', cacheClear')
          /\ cachePut'[p] = "removing" /\ \A q \in CachePuts \ {p} : cachePut'[q] = cachePut[q]
      BY <2>1 DEF CacheIInv, CacheTypes
    <2>5. EntriesStored(cache', cachePut')
      <3>1. \A k \in UsedKeys(cache') : cache'.entries[k] \in CachePuts
        BY <2>3, UsedEntry DEF CacheFits
      <3> QED
        BY <2>1, <2>3, <2>4, <3>1 DEF EntriesStored
    <2>6. ClearsGoOn(cache', cachePut', cacheClear')
      <3>1. \A d \in CacheClears : cacheClear[d].began \subseteq CachePuts
        BY <2>4 DEF CacheTypes
      <3> QED
        BY <2>1, <2>3, <2>4, <3>1 DEF ClearsGoOn
    <2>7. ~collided' => Undisturbed(cache', cachePut')
      <3> SUFFICES ASSUME ~collided' PROVE Undisturbed(cache', cachePut')
        OBVIOUS
      <3>1. Undisturbed(cache', cachePut) /\ \A q \in CachePuts : cachePut[q] = "removing" => CacheKeyOf[q] # key
        BY <2>1, <2>3
      <3>2. \A q \in CachePuts : cachePut'[q] = "removing" => q = p \/ cachePut[q] = "removing"
        BY <2>4
      <3>3. key \notin UsedKeys(cache')
        BY <2>2
      <3> QED
        BY <3>1, <3>2, <3>3 DEF Undisturbed
    <2> QED
      BY <2>1, <2>3, <2>4, <2>5, <2>6, <2>7 DEF CacheIInv
  <1>2. CASE key \notin UsedKeys(cache)
    <2>1. /\ StoreEntry(p, cache) /\ cachePut[p] = "idle" /\ UNCHANGED <<cacheClear, unfiled>>
          /\ collided' = (collided \/ \E q \in CachePuts : cachePut[q] = "removing" /\ CacheKeyOf[q] = key)
      BY <1>2 DEF Put
    <2> QED
      BY <1>2, <2>1, StoreStep
  <1> QED
    BY <1>1, <1>2

LEMMA PutGoesOnStep ==
  ASSUME CacheIInv, NEW p \in CachePuts, PutGoesOn(p)
  PROVE  CacheIInv'
  <1>1. StoreEntry(p, cache) /\ cachePut[p] = "removing" /\ UNCHANGED <<cacheClear, unfiled, collided>>
    BY DEF PutGoesOn, cacheHistory
  <1>2. ~collided => /\ CacheKeyOf[p] \notin UsedKeys(cache)
                     /\ \A q \in CachePuts \ {p} : cachePut[q] = "removing" => CacheKeyOf[q] # CacheKeyOf[p]
    BY <1>1 DEF CacheIInv, Undisturbed
  <1> QED
    BY <1>1, <1>2, StoreStep

\* A clear lists the keys of its tag: whatever has the tag and was not dropped is among them.
LEMMA ClearTagStep ==
  ASSUME CacheIInv, NEW c \in CacheClears, NEW t \in CacheTags, ClearTag(c, t)
  PROVE  CacheIInv'
  <1>1. PICK k \in cache.index[t] :
          /\ cache' = Removed(cache, {k})
          /\ cacheClear' = [cacheClear EXCEPT ![c] =
               [phase |-> "clearing", tag |-> t, left |-> cache.index[t] \ {k},
                began |-> {p \in Present \ unfiled : t \in TagsOf[p]}]]
    BY DEF ClearTag
  <1>2. UNCHANGED <<cachePut, collided, unfiled>>
    BY DEF ClearTag, cacheHistory
  <1>3. Shrinks(cache, cache') /\ UsedKeys(cache') = UsedKeys(cache) \ {k}
    BY <1>1, RemovedShrinks DEF CacheIInv
  <1>4. /\ CacheFits(cache') /\ EntriesStored(cache', cachePut) /\ EntriesFiled(cache', unfiled)
        /\ ClearsGoOn(cache', cachePut, cacheClear)
        /\ ~collided => Undisturbed(cache', cachePut)
    BY <1>3, ShrunkKeeps DEF CacheIInv
  <1> DEFINE began == {p \in Present \ unfiled : t \in TagsOf[p]}
             left == cache.index[t] \ {k}
  <1>5. began \subseteq CachePuts /\ \A p \in began : cachePut[p] = "stored"
    BY UsedEntry DEF CacheIInv, CacheFits, Present, EntriesStored
  <1>6. left \subseteq CacheKeys
    BY DEF CacheIInv, CacheFits, CacheState
  <1>7. \A l \in UsedKeys(cache') : cache'.entries[l] \in began => l \in left
    <2> SUFFICES ASSUME NEW l \in UsedKeys(cache'), cache'.entries[l] \in began PROVE l \in left
      OBVIOUS
    <2>1. l \in UsedKeys(cache) /\ cache.entries[l] = cache'.entries[l] /\ l # k
      BY <1>3 DEF Shrinks
    <2> QED
      BY <2>1 DEF CacheIInv, EntriesFiled
  <1>8. CacheTypes(cachePut, cacheClear)
    BY DEF CacheIInv
  <1>9. cacheClear'[c] = [phase |-> "clearing", tag |-> t, left |-> left, began |-> began]
    BY <1>1, <1>8 DEF CacheTypes
  <1>10. \A d \in CacheClears \ {c} : cacheClear'[d] = cacheClear[d]
    BY <1>1, <1>8 DEF CacheTypes
  <1> HIDE DEF left, began
  <1>11. cacheClear'[c] \in [phase : {"idle", "clearing", "over"}, tag : CacheTags \cup {"none"},
                             left : SUBSET CacheKeys, began : SUBSET CachePuts]
    BY <1>5, <1>6, <1>9
  <1>12. CacheTypes(cachePut', cacheClear')
    <2>1. DOMAIN cacheClear' = CacheClears /\ cacheClear' = [d \in CacheClears |-> cacheClear'[d]]
      BY <1>1, <1>8 DEF CacheTypes
    <2> QED
      BY <1>2, <1>8, <1>9, <1>10, <1>11, <2>1 DEF CacheTypes
  <1>13. ClearsGoOn(cache', cachePut', cacheClear')
    <2> SUFFICES ASSUME NEW d \in CacheClears
                 PROVE  /\ \A p \in cacheClear'[d].began : cachePut[p] = "stored"
                        /\ cacheClear'[d].phase = "clearing" =>
                             \A l \in UsedKeys(cache') : cache'.entries[l] \in cacheClear'[d].began => l \in cacheClear'[d].left
                        /\ cacheClear'[d].phase = "over" =>
                             \A l \in UsedKeys(cache') : cache'.entries[l] \notin cacheClear'[d].began
      BY <1>2 DEF ClearsGoOn
    <2>1. CASE d = c
      BY <1>5, <1>7, <1>9, <2>1
    <2>2. CASE d # c
      BY <1>4, <1>10, <2>2 DEF ClearsGoOn
    <2> QED
      BY <2>1, <2>2
  <1> QED
    BY <1>2, <1>4, <1>12, <1>13 DEF CacheIInv

LEMMA ClearGoesOnStep ==
  ASSUME CacheIInv, NEW c \in CacheClears, ClearGoesOn(c)
  PROVE  CacheIInv'
  <1>1. PICK k \in cacheClear[c].left :
          cache' = Removed(cache, {k}) /\ cacheClear' = [cacheClear EXCEPT ![c].left = @ \ {k}]
    BY DEF ClearGoesOn
  <1>2. UNCHANGED <<cachePut, collided, unfiled>>
    BY DEF ClearGoesOn, cacheHistory
  <1>3. Shrinks(cache, cache') /\ UsedKeys(cache') = UsedKeys(cache) \ {k}
    BY <1>1, RemovedShrinks DEF CacheIInv
  <1>4. /\ CacheFits(cache') /\ EntriesStored(cache', cachePut) /\ EntriesFiled(cache', unfiled)
        /\ ClearsGoOn(cache', cachePut, cacheClear)
        /\ ~collided => Undisturbed(cache', cachePut)
    BY <1>3, ShrunkKeeps DEF CacheIInv
  <1>5. CacheTypes(cachePut, cacheClear)
    BY DEF CacheIInv
  <1>6. CacheTypes(cachePut', cacheClear')
    BY <1>1, <1>2, <1>5 DEF CacheTypes
  <1>7. \A d \in CacheClears : /\ cacheClear'[d].phase = cacheClear[d].phase /\ cacheClear'[d].began = cacheClear[d].began
                               /\ cacheClear[d].left \ {k} \subseteq cacheClear'[d].left
    BY <1>1, <1>5 DEF CacheTypes
  <1>8. k \notin UsedKeys(cache')
    BY <1>3
  <1>9. ClearsGoOn(cache', cachePut', cacheClear')
    BY <1>2, <1>4, <1>7, <1>8 DEF ClearsGoOn
  <1> QED
    BY <1>2, <1>4, <1>6, <1>9 DEF CacheIInv

\* The index of the tag is dropped, and what is still filed in it with it.
LEMMA ClearedStep ==
  ASSUME CacheIInv, NEW c \in CacheClears, Cleared(c)
  PROVE  CacheIInv'
  <1> DEFINE t == cacheClear[c].tag
  <1>1. /\ cacheClear[c].phase = "clearing" /\ cacheClear[c].left = {}
        /\ cache' = [cache EXCEPT !.index[t] = {}]
        /\ cacheClear' = [cacheClear EXCEPT ![c].phase = "over"]
        /\ unfiled' = unfiled \cup {p \in Present : t \in TagsOf[p] /\ CacheKeyOf[p] \in cache.index[t]}
        /\ UNCHANGED <<cachePut, collided>>
    BY DEF Cleared
  <1>2. CacheTypes(cachePut, cacheClear) /\ t \in CacheTags /\ CacheFits(cache) /\ cache \in CacheState
    BY <1>1 DEF CacheIInv, CacheTypes, CacheFits
  <1> HIDE DEF t
  <1>3. /\ cache'.entries = cache.entries /\ cache'.total = cache.total /\ cache' \in CacheState
        /\ \A u \in CacheTags : cache'.index[u] = IF u = t THEN {} ELSE cache.index[u]
    BY <1>1, <1>2 DEF CacheState
  <1>4. UsedKeys(cache') = UsedKeys(cache)
    BY <1>3 DEF UsedKeys
  <1>5. BytesOf(cache', UsedKeys(cache')) = BytesOf(cache, UsedKeys(cache))
    BY <1>3, <1>4 DEF BytesOf
  <1>6. CacheFits(cache') /\ (Exact(cache) => Exact(cache'))
    BY <1>2, <1>3, <1>4, <1>5 DEF CacheFits, Exact, Bytes
  <1>7. CacheTypes(cachePut', cacheClear')
    BY <1>1, <1>2 DEF CacheTypes
  <1>8. \A d \in CacheClears : /\ cacheClear'[d].began = cacheClear[d].began /\ cacheClear'[d].left = cacheClear[d].left
                               /\ cacheClear'[d].phase = IF d = c THEN "over" ELSE cacheClear[d].phase
    BY <1>1, <1>2 DEF CacheTypes
  <1>9. ClearsGoOn(cache, cachePut, cacheClear) /\ EntriesStored(cache, cachePut) /\ EntriesFiled(cache, unfiled)
        /\ (~collided => Undisturbed(cache, cachePut))
    BY DEF CacheIInv
  <1>10. ClearsGoOn(cache', cachePut', cacheClear')
    <2> SUFFICES ASSUME NEW d \in CacheClears
                 PROVE  /\ \A p \in cacheClear'[d].began : cachePut[p] = "stored"
                        /\ cacheClear'[d].phase = "clearing" =>
                             \A l \in UsedKeys(cache) : cache.entries[l] \in cacheClear'[d].began => l \in cacheClear'[d].left
                        /\ cacheClear'[d].phase = "over" =>
                             \A l \in UsedKeys(cache) : cache.entries[l] \notin cacheClear'[d].began
      BY <1>1, <1>3, <1>4 DEF ClearsGoOn
    <2>1. CASE d = c
      BY <1>1, <1>8, <1>9, <2>1 DEF ClearsGoOn
    <2>2. CASE d # c
      BY <1>8, <1>9, <2>2 DEF ClearsGoOn
    <2> QED
      BY <2>1, <2>2
  <1>11. EntriesFiled(cache', unfiled')
    <2> SUFFICES ASSUME NEW k \in UsedKeys(cache), cache.entries[k] \notin unfiled', NEW u \in TagsOf[cache.entries[k]]
                 PROVE  k \in cache'.index[u]
      BY <1>3, <1>4 DEF EntriesFiled
    <2>1. u \in CacheTags /\ CacheKeyOf[cache.entries[k]] = k /\ cache.entries[k] \in Present
      BY <1>2, UsedEntry DEF CacheFits, Present
    <2>2. k \in cache.index[u]
      BY <1>1, <1>9 DEF EntriesFiled
    <2>3. u # t
      BY <1>1, <2>1, <2>2
    <2> QED
      BY <1>3, <2>1, <2>2, <2>3
  <1>12. EntriesStored(cache', cachePut')
    BY <1>1, <1>3, <1>4, <1>9 DEF EntriesStored
  <1>13. ~collided' => Undisturbed(cache', cachePut')
    BY <1>1, <1>4, <1>6, <1>9 DEF Undisturbed
  <1> QED
    BY <1>6, <1>7, <1>10, <1>11, <1>12, <1>13 DEF CacheIInv

LEMMA CacheStep == CacheIInv /\ [MemoryCacheNext]_memoryCacheVars => CacheIInv'
  <1> SUFFICES ASSUME CacheIInv, [MemoryCacheNext]_memoryCacheVars PROVE CacheIInv'
    OBVIOUS
  <1>1. CacheFits(cache)
    BY DEF CacheIInv
  <1>2. CASE UNCHANGED memoryCacheVars
    BY <1>1, <1>2, ShrinksReflexive, ShrinkStep DEF memoryCacheVars
  <1>3. ASSUME NEW keys, cache' = Removed(cache, keys), UNCHANGED <<cachePut, cacheClear, collided, unfiled>>
        PROVE  CacheIInv'
    BY <1>1, <1>3, RemovedShrinks, ShrinkStep
  <1>4. ASSUME cache' = cache, UNCHANGED <<cachePut, cacheClear, collided, unfiled>>
        PROVE  CacheIInv'
    BY <1>1, <1>4, ShrinksReflexive, ShrinkStep
  <1>5. ASSUME cache' = NoEntries, UNCHANGED <<cachePut, cacheClear, collided, unfiled>>
        PROVE  CacheIInv'
    BY <1>5, NothingShrinks, ShrinkStep
  <1>6. CASE Cleanup
    BY <1>3, <1>6 DEF Cleanup, cacheHistory
  <1>7. CASE PressureSeen
    BY <1>3, <1>7 DEF PressureSeen, Halved, cacheHistory
  <1>8. CASE StartCache \/ AssertLifecycleAllowed
    BY <1>4, <1>8 DEF StartCache, AssertLifecycleAllowed, cacheHistory
  <1>9. CASE StopCache \/ ClearAll
    BY <1>5, <1>9 DEF StopCache, ClearAll, cacheHistory
  <1>10. ASSUME NEW p \in CachePuts, Put(p) \/ PutGoesOn(p) \/ EntryExpires(p) PROVE CacheIInv'
    <2>1. CASE EntryExpires(p)
      BY <1>4, <2>1 DEF EntryExpires, cacheHistory
    <2> QED
      BY <1>10, <2>1, PutStep, PutGoesOnStep
  <1>11. ASSUME NEW k \in CacheKeys, RemoveKey(k) PROVE CacheIInv'
    BY <1>3, <1>11 DEF RemoveKey, cacheHistory
  <1>12. ASSUME NEW s \in Sweepers, SweepGoesOn(s) PROVE CacheIInv'
    BY <1>3, <1>12 DEF SweepGoesOn, cacheHistory
  <1>13. ASSUME NEW c \in CacheClears, ClearGoesOn(c) \/ Cleared(c) \/ \E t \in CacheTags : ClearTag(c, t)
         PROVE  CacheIInv'
    BY <1>13, ClearGoesOnStep, ClearedStep, ClearTagStep
  <1> QED
    BY <1>2, <1>6, <1>7, <1>8, <1>9, <1>10, <1>11, <1>12, <1>13 DEF MemoryCacheNext

\* The working memory never exceeds its bytes or its entries, its total is exact unless two
\* puts of a key overlapped, and a clear removes what had the tag when it began, however
\* puts, clears, sweeps and evictions take turns (memory-cache-manager.ts, memory-cache-store.ts).
THEOREM CacheAlwaysBounded == MemoryCacheSpec => []CacheIsBounded
  <1>1. CacheIInv => CacheIsBounded
    <2> SUFFICES ASSUME CacheIInv PROVE CacheIsBounded
      OBVIOUS
    <2>1. /\ Bytes(cache, UsedKeys(cache)) <= cache.total /\ cache.total <= MaxMemoryBytes
          /\ Cardinality(UsedKeys(cache)) <= MaxEntries
          /\ ~collided => cache.total = Bytes(cache, UsedKeys(cache))
      BY DEF CacheIInv, CacheFits, Undisturbed, Exact
    <2>2. \A p \in Present \ unfiled : \A t \in TagsOf[p] : CacheKeyOf[p] \in cache.index[t]
      BY DEF CacheIInv, CacheFits, EntriesFiled, Present
    <2>3. \A c \in CacheClears : cacheClear[c].phase = "over" => cacheClear[c].began \cap Present = {}
      BY DEF CacheIInv, ClearsGoOn, Present
    <2> QED
      BY <2>1, <2>2, <2>3 DEF CacheIsBounded
  <1> QED
    BY <1>1, CacheInit, CacheStep, PTL DEF MemoryCacheSpec

-----------------------------------------------------------------------------
(* The execution queue.                                                    *)

\* The place of the oldest item of each tenant, 0 for none.  The fairness of the
\* rotation only depends on it.
Fronts(items) == [t \in Tenants |-> IF Of(items, t) = {} THEN 0 ELSE Min(Of(items, t))]

\* The tenants whose oldest item is before that of w, and the others.
Ahead(f, w) == {t \in Tenants : 0 < f[t] /\ f[t] < f[w]}
Behind(f, w) == Tenants \ ({w} \cup Ahead(f, w))

\* The rotation has passed w and comes to o before it starts again.
Due(f, last, w, o) ==
  /\ last \in Tenants \ Ahead(f, w) /\ o # last
  /\ f[o] > 0 => f[last] > 0 /\ f[o] > f[last]

\* What keeps the turns bounded: a tenant is served as often as there are tenants
\* behind w, once more if it is still ahead and this round has come to it, and
\* once less if it is behind and this round has not.
TurnsOf(f, last, s, w, o) ==
  /\ f[w] = 0 \/ o = w => s[w][o] = 0
  /\ f[w] > 0 /\ o \in Ahead(f, w) =>
       /\ s[w][o] <= Cardinality(Behind(f, w)) + 1
       /\ s[w][o] > Cardinality(Behind(f, w)) => last \in Ahead(f, w) /\ f[o] <= f[last]
  /\ f[w] > 0 /\ o \in Behind(f, w) =>
       /\ s[w][o] <= Cardinality(Behind(f, w))
       /\ Due(f, last, w, o) => s[w][o] < Cardinality(Behind(f, w))
Turns(f, last, s) == \A w, o \in Tenants : TurnsOf(f, last, s, w, o)

\* The number of the tenants behind another.
LEMMA BehindCount ==
  ASSUME NEW f \in [Tenants -> Nat], NEW w \in Tenants
  PROVE  /\ IsFiniteSet(Behind(f, w)) /\ Cardinality(Behind(f, w)) \in Nat
         /\ \A o \in Behind(f, w) : Cardinality(Behind(f, w)) > 0
         /\ Cardinality(Tenants) \in Nat
         /\ Cardinality(Behind(f, w)) < Cardinality(Tenants)
         /\ \A o \in Ahead(f, w) : Cardinality(Behind(f, w)) + 1 < Cardinality(Tenants)
  <1>1. IsFiniteSet(Tenants) /\ Cardinality(Tenants) \in Nat
    BY QueueAssumption, FS_CardinalityType
  <1>2. /\ IsFiniteSet(Tenants \ {w}) /\ Cardinality(Tenants \ {w}) = Cardinality(Tenants) - 1
    BY <1>1, FS_RemoveElement
  <1>3. Behind(f, w) \in SUBSET (Tenants \ {w})
    BY DEF Behind
  <1>4. /\ IsFiniteSet(Behind(f, w)) /\ Cardinality(Behind(f, w)) \in Nat
        /\ Cardinality(Behind(f, w)) <= Cardinality(Tenants) - 1
    BY <1>2, <1>3, FS_Subset, FS_CardinalityType
  <1>5. ASSUME NEW o \in Behind(f, w) PROVE Cardinality(Behind(f, w)) > 0
    <2>1. Behind(f, w) # {}
      BY <1>5
    <2>2. Cardinality(Behind(f, w)) # 0
      BY <1>4, <2>1, FS_EmptySet, Zenon
    <2> QED
      BY <1>4, <2>2
  <1>6. ASSUME NEW o \in Ahead(f, w) PROVE Cardinality(Behind(f, w)) + 1 < Cardinality(Tenants)
    <2>1. o \in Tenants \ {w} /\ o \notin Behind(f, w)
      BY <1>6 DEF Ahead, Behind
    <2>2. /\ IsFiniteSet((Tenants \ {w}) \ {o})
          /\ Cardinality((Tenants \ {w}) \ {o}) = Cardinality(Tenants) - 1 - 1
      BY <1>1, <1>2, <2>1, FS_RemoveElement
    <2>3. Behind(f, w) \in SUBSET ((Tenants \ {w}) \ {o})
      BY <1>3, <2>1
    <2>4. Cardinality(Behind(f, w)) <= Cardinality(Tenants) - 1 - 1
      BY <2>2, <2>3, FS_Subset
    <2> QED
      BY <1>1, <1>4, <2>4
  <1> QED
    BY <1>1, <1>4, <1>5, <1>6

\* A tenant that has begun to wait.
LEMMA TurnsFromZero ==
  ASSUME NEW f \in [Tenants -> Nat], NEW last, NEW s, NEW w \in Tenants, NEW o \in Tenants, s[w][o] = 0
  PROVE  TurnsOf(f, last, s, w, o)
  <1>1. /\ Cardinality(Behind(f, w)) \in Nat
        /\ o \in Behind(f, w) => Cardinality(Behind(f, w)) > 0
    BY BehindCount
  <1>2. f[w] \in Nat /\ f[o] \in Nat
    OBVIOUS
  <1> DEFINE b == Cardinality(Behind(f, w))
  <1> HIDE DEF b
  <1>3. b \in Nat /\ (o \in Behind(f, w) => b > 0)
    BY <1>1 DEF b
  <1>4. 0 <= b + 1 /\ ~(0 > b) /\ 0 <= b /\ (o \in Behind(f, w) => 0 < b)
    BY <1>3
  <1> QED
    BY <1>4 DEF TurnsOf, b

\* The bound on overtaking.
LEMMA TurnsBound ==
  ASSUME NEW f \in [Tenants -> Nat], NEW last, NEW s \in [Tenants -> [Tenants -> Nat]], Turns(f, last, s)
  PROVE  \A w, o \in Tenants : s[w][o] < Cardinality(Tenants)
  <1> SUFFICES ASSUME NEW w \in Tenants, NEW o \in Tenants PROVE s[w][o] < Cardinality(Tenants)
    OBVIOUS
  <1>1. TurnsOf(f, last, s, w, o) /\ s[w][o] \in Nat /\ f[w] \in Nat
    BY DEF Turns
  <1> DEFINE b == Cardinality(Behind(f, w))
             n == Cardinality(Tenants)
  <1> HIDE DEF b, n
  <1>2. b \in Nat /\ n \in Nat /\ b < n /\ (o \in Ahead(f, w) => b + 1 < n)
    BY BehindCount DEF b, n
  <1>3. o = w \/ o \in Ahead(f, w) \/ o \in Behind(f, w)
    BY DEF Behind
  <1>4. CASE f[w] = 0 \/ o = w
    BY <1>1, <1>2, <1>4 DEF TurnsOf, n
  <1>5. CASE f[w] > 0 /\ o \in Ahead(f, w)
    <2>1. s[w][o] <= b + 1
      BY <1>1, <1>5 DEF TurnsOf, b
    <2> QED
      BY <1>1, <1>2, <1>5, <2>1 DEF n
  <1>6. CASE f[w] > 0 /\ o \in Behind(f, w)
    <2>1. s[w][o] <= b
      BY <1>1, <1>6 DEF TurnsOf, b
    <2> QED
      BY <1>1, <1>2, <2>1 DEF n
  <1>7. f[w] = 0 \/ f[w] > 0
    BY <1>1
  <1> QED
    BY <1>3, <1>4, <1>5, <1>6, <1>7

\* Items that enter a lane: nobody who waits is overtaken by it.
Grown(f, g) ==
  /\ \A t \in Tenants : f[t] > 0 => g[t] = f[t]
  /\ \A t, u \in Tenants : f[t] = 0 /\ g[t] > 0 /\ f[u] > 0 => g[t] > f[u]
LEMMA TurnsGrow ==
  ASSUME NEW f \in [Tenants -> Nat], NEW g \in [Tenants -> Nat], NEW last,
         NEW s \in [Tenants -> [Tenants -> Nat]], Grown(f, g), Turns(f, last, s)
  PROVE  Turns(g, last, s)
  <1> SUFFICES ASSUME NEW w \in Tenants, NEW o \in Tenants PROVE TurnsOf(g, last, s, w, o)
    BY DEF Turns
  <1>1. TurnsOf(f, last, s, w, o)
    BY DEF Turns
  <1>2. f[w] \in Nat /\ g[w] \in Nat /\ f[o] \in Nat /\ g[o] \in Nat
    OBVIOUS
  <1>3. CASE f[w] = 0
    <2>1. s[w][o] = 0
      BY <1>1, <1>3 DEF TurnsOf
    <2> QED
      BY <2>1, TurnsFromZero
  <1>4. CASE f[w] > 0
    <2>1. g[w] = f[w] /\ g[w] > 0
      BY <1>4 DEF Grown
    <2>2. ASSUME NEW t \in Tenants PROVE t \in Ahead(g, w) <=> t \in Ahead(f, w)
      <3>1. f[t] \in Nat /\ g[t] \in Nat
        OBVIOUS
      <3>2. CASE f[t] > 0
        BY <2>1, <3>2 DEF Grown, Ahead
      <3>3. CASE f[t] = 0
        <4>1. g[t] > 0 => g[t] > f[w]
          BY <1>4, <3>3 DEF Grown
        <4> QED
          BY <1>2, <2>1, <3>1, <3>3, <4>1 DEF Ahead
      <3> QED
        BY <3>1, <3>2, <3>3
    <2>3. Ahead(g, w) = Ahead(f, w)
      BY <2>2 DEF Ahead
    <2>4. Behind(g, w) = Behind(f, w)
      BY <2>3 DEF Behind
    <2>5. last \in Ahead(f, w) /\ o \in Ahead(f, w) => g[last] = f[last] /\ g[o] = f[o]
      BY DEF Ahead, Grown
    <2>6. ASSUME Due(g, last, w, o) PROVE Due(f, last, w, o)
      <3>1. last \in Tenants \ Ahead(f, w) /\ o # last
        BY <2>3, <2>6 DEF Due
      <3>2. f[last] \in Nat /\ g[last] \in Nat
        BY <3>1
      <3>3. ASSUME f[o] > 0 PROVE f[last] > 0 /\ f[o] > f[last]
        <4>1. g[o] = f[o] /\ g[o] > 0
          BY <3>3 DEF Grown
        <4>2. g[last] > 0 /\ f[o] > g[last]
          BY <2>6, <4>1 DEF Due
        <4>3. f[last] # 0
          <5>1. f[last] = 0 => g[last] > f[o]
            BY <3>1, <3>3, <4>2 DEF Grown
          <5> QED
            BY <1>2, <3>2, <4>2, <5>1
        <4>4. f[last] > 0
          BY <3>2, <4>3
        <4>5. g[last] = f[last]
          BY <3>1, <4>4 DEF Grown
        <4> QED
          BY <4>2, <4>4, <4>5
      <3> QED
        BY <3>1, <3>3 DEF Due
    <2> QED
      BY <1>1, <1>4, <2>1, <2>3, <2>4, <2>5, <2>6 DEF TurnsOf
  <1> QED
    BY <1>2, <1>3, <1>4

\* The oldest item of x is taken from a lane.
Taken(f, g, x) ==
  /\ f[x] > 0 /\ (g[x] = 0 \/ g[x] >= f[x])
  /\ \A t \in Tenants \ {x} : f[t] = 0 => g[t] = 0
  /\ \A t \in Tenants \ {x} : f[t] > 0 => /\ f[t] # f[x]
                                          /\ g[t] = IF f[t] < f[x] THEN f[t] ELSE f[t] - 1

\* x is whose turn it is: the first one after last, or the first one of all.
Chosen(f, last, x) ==
  \/ /\ last \in Tenants /\ f[last] > 0 /\ f[last] < f[x]
     /\ \A t \in Tenants : f[t] > f[last] => f[x] <= f[t]
  \/ /\ last \in Tenants /\ f[last] > 0 => \A t \in Tenants : f[t] <= f[last]
     /\ \A t \in Tenants : f[t] > 0 => f[x] <= f[t]

\* The turns of a tenant that still waits after x was served.
LEMMA TurnsServeOf ==
  ASSUME NEW f \in [Tenants -> Nat], NEW g \in [Tenants -> Nat], NEW last, NEW x \in Tenants,
         NEW s \in [Tenants -> [Tenants -> Nat]], NEW n,
         Taken(f, g, x), Chosen(f, last, x), Turns(f, last, s),
         NEW w \in Tenants, NEW o \in Tenants, w # x, f[w] > 0,
         n[w][o] = IF o = x THEN s[w][o] + 1 ELSE s[w][o]
  PROVE  TurnsOf(g, x, n, w, o)
  <1> DEFINE b == Cardinality(Behind(f, w))
             c == Cardinality(Behind(g, w))
  <1>1. b \in Nat /\ c \in Nat /\ IsFiniteSet(Behind(f, w))
    BY BehindCount
  <1>2. \A t \in Tenants : f[t] \in Nat /\ g[t] \in Nat
    OBVIOUS
  <1>3. g[w] = (IF f[w] < f[x] THEN f[w] ELSE f[w] - 1) /\ f[w] # f[x] /\ g[w] > 0
    <2>1. g[w] = (IF f[w] < f[x] THEN f[w] ELSE f[w] - 1) /\ f[w] # f[x] /\ f[x] > 0
      BY DEF Taken
    <2> QED
      BY <1>2, <2>1
  <1>4. ASSUME NEW t \in Tenants \ {x} PROVE t \in Ahead(g, w) <=> t \in Ahead(f, w)
    <2>1. CASE f[t] = 0
      BY <2>1, <1>2 DEF Taken, Ahead
    <2>2. CASE f[t] > 0
      <3>1. f[t] # f[x] /\ g[t] = (IF f[t] < f[x] THEN f[t] ELSE f[t] - 1) /\ f[x] > 0
        BY <2>2 DEF Taken
      <3>2. f[t] \in Nat /\ g[t] \in Nat /\ f[x] \in Nat /\ f[w] \in Nat /\ g[w] \in Nat
        BY <1>2
      <3> DEFINE ft == f[t]  fx == f[x]  fw == f[w]  gt == g[t]  gw == g[w]
      <3>3. /\ ft \in Nat /\ gt \in Nat /\ fx \in Nat /\ fw \in Nat /\ gw \in Nat
            /\ ft > 0 /\ ft # fx /\ fw # fx /\ fx > 0
            /\ gt = IF ft < fx THEN ft ELSE ft - 1
            /\ gw = IF fw < fx THEN fw ELSE fw - 1
        BY <1>3, <2>2, <3>1, <3>2
      <3>4. (t \in Ahead(g, w) <=> 0 < gt /\ gt < gw) /\ (t \in Ahead(f, w) <=> 0 < ft /\ ft < fw)
        BY DEF Ahead
      <3> HIDE DEF ft, fx, fw, gt, gw
      <3>5. (0 < gt /\ gt < gw) <=> (0 < ft /\ ft < fw)
        BY <3>3
      <3> QED
        BY <3>4, <3>5
    <2> QED
      BY <1>2, <2>1, <2>2
  <1>5. x \notin Ahead(f, w) => x \notin Ahead(g, w)
    <2>1. f[x] > 0 /\ (g[x] = 0 \/ g[x] >= f[x])
      BY DEF Taken
    <2>2. f[x] \in Nat /\ g[x] \in Nat /\ f[w] \in Nat /\ g[w] \in Nat
      BY <1>2
    <2> QED
      BY <1>3, <2>1, <2>2 DEF Ahead
  <1>6. TurnsOf(f, last, s, w, o) /\ TurnsOf(f, last, s, w, x)
    BY DEF Turns
  <1>7. s[w][o] \in Nat /\ s[w][x] \in Nat
    OBVIOUS
  <1>8. o = w => n[w][o] = 0
    BY <1>6 DEF TurnsOf
  <1>9. last \in Ahead(f, w) => f[last] > 0 /\ f[last] < f[x]
    BY <1>2 DEF Chosen, Ahead
  <1>10. o = w \/ o \in Ahead(f, w) \/ o \in Behind(f, w)
    BY DEF Behind
  <1>11. ASSUME x \in Ahead(f, w) PROVE s[w][x] <= b
    <2>1. s[w][x] > b => last \in Ahead(f, w) /\ f[x] <= f[last]
      BY <1>6, <1>11 DEF TurnsOf
    <2> QED
      BY <1>1, <1>2, <1>7, <1>9, <2>1 DEF Ahead
  <1>12. CASE x \in Ahead(g, w)
    <2>1. x \in Ahead(f, w)
      BY <1>5, <1>12
    <2>2. Ahead(g, w) = Ahead(f, w)
      BY <1>4, <1>12, <2>1 DEF Ahead
    <2>3. Behind(g, w) = Behind(f, w) /\ b = c
      BY <2>2 DEF Behind
    <2>4. ~Due(g, x, w, o)
      BY <1>12 DEF Due
    <2>5. CASE o \in Ahead(f, w)
      <3>1. CASE o = x
        <4>1. n[w][o] <= c + 1
          BY <1>1, <1>7, <1>11, <2>1, <2>3, <3>1
        <4> QED
          BY <1>8, <1>3, <1>12, <2>3, <3>1, <4>1, <1>2 DEF TurnsOf, Behind
      <3>2. CASE o # x
        <4>1. n[w][o] = s[w][o] /\ s[w][o] <= b + 1
          BY <1>6, <2>5, <3>2 DEF TurnsOf
        <4>2. ASSUME s[w][o] > b PROVE g[o] <= g[x]
          <5>1. last \in Ahead(f, w) /\ f[o] <= f[last]
            BY <1>6, <2>5, <4>2 DEF TurnsOf
          <5>2. f[o] < f[x] /\ f[o] > 0
            BY <1>2, <1>9, <2>5, <5>1 DEF Ahead
          <5>3. g[o] = f[o]
            BY <3>2, <5>2 DEF Taken
          <5>4. g[x] >= f[x]
            BY <1>12, <1>2 DEF Taken, Ahead
          <5> QED
            BY <1>2, <5>2, <5>3, <5>4
        <4> QED
          BY <1>8, <1>3, <1>12, <2>2, <2>3, <2>5, <4>1, <4>2 DEF TurnsOf, Behind
      <3> QED
        BY <3>1, <3>2
    <2>6. CASE o \in Behind(f, w)
      <3>1. o # x
        BY <2>1, <2>6 DEF Behind
      <3>2. n[w][o] <= c
        BY <1>6, <2>3, <2>6, <3>1 DEF TurnsOf
      <3> QED
        BY <1>8, <1>3, <2>2, <2>4, <2>6, <3>2 DEF TurnsOf, Behind
    <2>7. CASE o = w
      BY <1>1, <1>8, <2>2, <2>7, TurnsFromZero
    <2> QED
      BY <1>10, <2>5, <2>6, <2>7
  <1>13. CASE x \in Ahead(f, w) /\ x \notin Ahead(g, w)
    <2>1. Behind(g, w) = Behind(f, w) \cup {x} /\ x \notin Behind(f, w)
      BY <1>4, <1>13 DEF Behind, Ahead
    <2>2. c = b + 1
      BY <1>1, <2>1, FS_AddElement
    <2>3. CASE o \in Ahead(g, w)
      <3>1. o # x /\ o \in Ahead(f, w)
        BY <1>4, <1>13, <2>3 DEF Ahead
      <3>2. n[w][o] <= c
        BY <1>6, <2>2, <3>1 DEF TurnsOf
      <3>3. n[w][o] \in Nat /\ n[w][o] <= c + 1 /\ ~(n[w][o] > c)
        BY <1>1, <1>7, <3>1, <3>2
      <3> QED
        BY <1>3, <1>8, <2>3, <3>3 DEF TurnsOf, Behind
    <2>4. CASE o \in Behind(g, w)
      <3>1. CASE o = x
        <4>1. n[w][o] <= c
          BY <1>1, <1>7, <1>11, <1>13, <2>2, <3>1
        <4>2. ~Due(g, x, w, o)
          BY <3>1 DEF Due
        <4> QED
          BY <1>3, <1>8, <2>4, <4>1, <4>2 DEF TurnsOf, Behind
      <3>2. CASE o # x
        <4>1. o \in Behind(f, w)
          BY <2>1, <2>4, <3>2
        <4>2. n[w][o] = s[w][o] /\ s[w][o] <= b
          BY <1>6, <3>2, <4>1 DEF TurnsOf
        <4>3. n[w][o] < c /\ n[w][o] <= c
          BY <1>1, <1>7, <2>2, <4>2
        <4> QED
          BY <1>3, <1>8, <2>4, <4>3 DEF TurnsOf, Behind
      <3> QED
        BY <3>1, <3>2
    <2>5. CASE o = w
      BY <1>8, <2>5, TurnsFromZero
    <2>6. o = w \/ o \in Ahead(g, w) \/ o \in Behind(g, w)
      BY DEF Behind
    <2> QED
      BY <2>3, <2>4, <2>5, <2>6
  <1>14. CASE x \notin Ahead(f, w)
    <2>1. Ahead(g, w) = Ahead(f, w) /\ x \notin Ahead(g, w)
      BY <1>4, <1>5, <1>14 DEF Ahead
    <2>2. Behind(g, w) = Behind(f, w) /\ b = c /\ x \in Behind(f, w)
      BY <1>14, <2>1 DEF Behind
    <2>3. f[w] < f[x]
      <3> DEFINE fx == f[x]  fw == f[w]
      <3>1. fx > 0 /\ ~(0 < fx /\ fx < fw)
        BY <1>14 DEF Ahead, Taken
      <3>2. fx \in Nat /\ fw \in Nat /\ fw # fx
        BY <1>2, <1>3
      <3> HIDE DEF fx, fw
      <3>3. fw < fx
        BY <3>1, <3>2
      <3> QED
        BY <3>3 DEF fx, fw
    <2>4. /\ last \in Tenants /\ f[last] > 0 /\ f[last] < f[x]
          /\ \A t \in Tenants : f[t] > f[last] => f[x] <= f[t]
      BY <1>2, <2>3 DEF Chosen
    <2>5. last \notin Ahead(f, w)
      BY <1>2, <2>3, <2>4 DEF Ahead
    <2>6. x # last
      BY <1>2, <2>4
    <2>7. CASE o = w
      BY <1>8, <2>7, TurnsFromZero
    <2>8. CASE o \in Ahead(f, w)
      <3>1. o # x
        BY <1>14, <2>8
      <3>2. n[w][o] = s[w][o] /\ ~(s[w][o] > b)
        BY <1>6, <2>5, <2>8, <3>1 DEF TurnsOf
      <3>3. n[w][o] <= c + 1 /\ ~(n[w][o] > c)
        BY <1>1, <1>7, <2>2, <3>2
      <3> QED
        BY <1>3, <1>8, <2>1, <2>8, <3>3 DEF TurnsOf, Behind
    <2>9. CASE o \in Behind(f, w) /\ o = x
      <3>1. Due(f, last, w, x)
        BY <2>4, <2>5, <2>6 DEF Due
      <3>2. s[w][x] < b
        BY <1>6, <2>2, <3>1 DEF TurnsOf
      <3>3. n[w][o] <= c
        BY <1>1, <1>7, <2>2, <2>9, <3>2
      <3>4. ~Due(g, x, w, o)
        BY <2>9 DEF Due
      <3> QED
        BY <1>3, <1>8, <2>2, <2>9, <3>3, <3>4 DEF TurnsOf, Behind
    <2>10. CASE o \in Behind(f, w) /\ o # x
      <3>1. n[w][o] = s[w][o] /\ s[w][o] <= b
        BY <1>6, <2>10 DEF TurnsOf
      <3>2. ASSUME Due(g, x, w, o) PROVE s[w][o] < b
        <4>1. f[o] = 0 \/ f[o] > f[last]
          <5>1. ASSUME f[o] # 0 PROVE f[o] > f[last]
            <6>1. f[o] > 0 /\ f[o] # f[x] /\ g[o] = (IF f[o] < f[x] THEN f[o] ELSE f[o] - 1) /\ f[x] > 0
              BY <1>2, <2>10, <5>1 DEF Taken
            <6>2. g[o] > 0
              BY <1>2, <6>1
            <6>3. g[x] > 0 /\ g[o] > g[x] /\ g[x] >= f[x]
              BY <1>2, <3>2, <6>2 DEF Due, Taken
            <6> QED
              BY <1>2, <2>4, <6>1, <6>3
          <5> QED
            BY <5>1
        <4>2. o # last
          BY <1>2, <2>4, <4>1
        <4>3. Due(f, last, w, o)
          BY <1>2, <2>4, <2>5, <4>1, <4>2 DEF Due
        <4> QED
          BY <1>6, <2>10, <4>3 DEF TurnsOf
      <3> QED
        BY <1>3, <1>8, <2>2, <2>10, <3>1, <3>2 DEF TurnsOf, Behind
    <2> QED
      BY <1>10, <2>7, <2>8, <2>9, <2>10
  <1> QED
    BY <1>12, <1>13, <1>14

\* A turn of the rotation, and how the history s becomes n.
TurnCounted(f, x, s, n) ==
  \A w, o \in Tenants : n[w][o] = IF w = x \/ f[w] = 0 THEN 0
                                  ELSE IF o = x THEN s[w][o] + 1 ELSE s[w][o]
LEMMA TurnsServe ==
  ASSUME NEW f \in [Tenants -> Nat], NEW g \in [Tenants -> Nat], NEW last, NEW x \in Tenants,
         NEW s \in [Tenants -> [Tenants -> Nat]], NEW n,
         Taken(f, g, x), Chosen(f, last, x), Turns(f, last, s), TurnCounted(f, x, s, n)
  PROVE  Turns(g, x, n)
  <1> SUFFICES ASSUME NEW w \in Tenants, NEW o \in Tenants PROVE TurnsOf(g, x, n, w, o)
    BY DEF Turns
  <1>1. CASE w = x \/ f[w] = 0
    <2>1. n[w][o] = 0
      BY <1>1 DEF TurnCounted
    <2> QED
      BY <2>1, TurnsFromZero
  <1>2. CASE ~(w = x \/ f[w] = 0)
    <2>1. w # x /\ f[w] > 0 /\ n[w][o] = IF o = x THEN s[w][o] + 1 ELSE s[w][o]
      BY <1>2 DEF TurnCounted
    <2> QED
      BY <2>1, TurnsServeOf
  <1> QED
    BY <1>1, <1>2

\* The oldest item of a tenant.
LEMMA FrontIsOldest ==
  ASSUME NEW items \in Seq(Tasks)
  PROVE  /\ Fronts(items) \in [Tenants -> Nat]
         /\ \A t \in Tenants : Fronts(items)[t] = 0 <=> Of(items, t) = {}
         /\ \A t \in Tenants : Fronts(items)[t] > 0 =>
              /\ Fronts(items)[t] \in DOMAIN items /\ TenantOf[items[Fronts(items)[t]]] = t
         /\ \A i \in DOMAIN items : /\ TenantOf[items[i]] \in Tenants
                                    /\ Fronts(items)[TenantOf[items[i]]] > 0
                                    /\ Fronts(items)[TenantOf[items[i]]] <= i
  <1>1. DOMAIN items = 1 .. Len(items) /\ Len(items) \in Nat
    OBVIOUS
  <1>2. ASSUME NEW t \in Tenants, Of(items, t) # {}
        PROVE  /\ Fronts(items)[t] \in Of(items, t) /\ Fronts(items)[t] > 0
               /\ Fronts(items)[t] = Min(Of(items, t))
               /\ \A i \in Of(items, t) : Fronts(items)[t] <= i
    <2>1. Of(items, t) \subseteq 1 .. Len(items)
      BY <1>1 DEF Of
    <2>2. PICK x \in Of(items, t) : \A y \in Of(items, t) : x <= y
      BY <1>1, <1>2, <2>1, LeastNat
    <2>3. Min(Of(items, t)) \in Of(items, t) /\ \A y \in Of(items, t) : Min(Of(items, t)) <= y
      BY <2>2, Zenon DEF Min
    <2>4. Fronts(items)[t] = Min(Of(items, t))
      BY <1>2 DEF Fronts
    <2> QED
      BY <1>1, <2>1, <2>3, <2>4
  <1>3. ASSUME NEW t \in Tenants, Of(items, t) = {} PROVE Fronts(items)[t] = 0
    BY <1>3 DEF Fronts
  <1>4. \A t \in Tenants : Fronts(items)[t] \in Nat
    <2> TAKE t \in Tenants
    <2>1. CASE Of(items, t) # {}
      <3>1. Fronts(items)[t] \in Of(items, t)
        BY <1>2, <2>1
      <3>2. Of(items, t) \subseteq Nat
        BY <1>1 DEF Of
      <3> QED
        BY <3>1, <3>2
    <2> QED
      BY <1>3, <2>1
  <1>5. Fronts(items) \in [Tenants -> Nat]
    <2>1. DOMAIN Fronts(items) = Tenants /\ Fronts(items) = [t \in Tenants |-> Fronts(items)[t]]
      BY DEF Fronts
    <2> QED
      BY <1>4, <2>1
  <1>6. \A t \in Tenants : Fronts(items)[t] = 0 <=> Of(items, t) = {}
    BY <1>2, <1>3
  <1>7. ASSUME NEW t \in Tenants, Fronts(items)[t] > 0
        PROVE  Fronts(items)[t] \in DOMAIN items /\ TenantOf[items[Fronts(items)[t]]] = t
    <2>1. Of(items, t) # {}
      BY <1>3, <1>7
    <2> QED
      BY <1>2, <2>1 DEF Of
  <1>8. ASSUME NEW i \in DOMAIN items
        PROVE  /\ TenantOf[items[i]] \in Tenants /\ Fronts(items)[TenantOf[items[i]]] > 0
               /\ Fronts(items)[TenantOf[items[i]]] <= i
    <2>1. items[i] \in Tasks
      OBVIOUS
    <2>2. TenantOf[items[i]] \in Tenants
      BY <2>1, QueueAssumption
    <2>3. i \in Of(items, TenantOf[items[i]])
      BY DEF Of
    <2> QED
      BY <1>2, <2>2, <2>3
  <1> QED
    BY <1>5, <1>6, <1>7, <1>8

\* The front is the place that is a tenant's and before which there is none.
LEMMA FrontIs ==
  ASSUME NEW items \in Seq(Tasks), NEW t \in Tenants, NEW k \in DOMAIN items, TenantOf[items[k]] = t,
         \A i \in DOMAIN items : TenantOf[items[i]] = t => k <= i
  PROVE  Fronts(items)[t] = k
  <1>1. Fronts(items)[t] > 0 /\ Fronts(items)[t] <= k
    BY FrontIsOldest
  <1>2. Fronts(items)[t] \in DOMAIN items /\ TenantOf[items[Fronts(items)[t]]] = t
    BY <1>1, FrontIsOldest
  <1> QED
    BY <1>1, <1>2

\* Items are added at the end of a lane.
LEMMA FrontsGrow ==
  ASSUME NEW items \in Seq(Tasks), NEW r \in Seq(Tasks), Len(r) >= Len(items),
         \A i \in DOMAIN items : r[i] = items[i]
  PROVE  Grown(Fronts(items), Fronts(r))
  <1> DEFINE f == Fronts(items)
             g == Fronts(r)
  <1>1. f \in [Tenants -> Nat] /\ g \in [Tenants -> Nat]
    BY FrontIsOldest
  <1>2. DOMAIN items \subseteq DOMAIN r /\ DOMAIN items = 1 .. Len(items) /\ DOMAIN r = 1 .. Len(r)
    OBVIOUS
  <1>3. ASSUME NEW t \in Tenants, f[t] > 0 PROVE g[t] = f[t] /\ f[t] \in DOMAIN items
    <2>1. f[t] \in DOMAIN items /\ TenantOf[items[f[t]]] = t
      BY <1>3, FrontIsOldest
    <2>2. f[t] \in DOMAIN r /\ TenantOf[r[f[t]]] = t
      BY <1>2, <2>1
    <2>3. ASSUME NEW i \in DOMAIN r, TenantOf[r[i]] = t PROVE f[t] <= i
      <3>1. CASE i \in DOMAIN items
        BY <2>3, <3>1, FrontIsOldest
      <3>2. CASE i \notin DOMAIN items
        BY <1>2, <2>1, <3>2
      <3> QED
        BY <3>1, <3>2
    <2> HIDE DEF f
    <2>4. Fronts(r)[t] = f[t]
      BY <2>2, <2>3, FrontIs
    <2> QED
      BY <2>1, <2>4
  <1>4. ASSUME NEW t \in Tenants, f[t] = 0, g[t] > 0 PROVE g[t] > Len(items)
    <2>1. g[t] \in DOMAIN r /\ TenantOf[r[g[t]]] = t
      BY <1>4, FrontIsOldest
    <2>2. g[t] \notin DOMAIN items
      <3>1. ASSUME g[t] \in DOMAIN items PROVE FALSE
        <4>1. TenantOf[items[g[t]]] = t
          BY <2>1, <3>1
        <4>2. f[t] > 0
          BY <3>1, <4>1, FrontIsOldest
        <4> QED
          BY <1>4, <4>2
      <3> QED
        BY <3>1
    <2> QED
      BY <1>2, <2>1, <2>2
  <1>5. ASSUME NEW t \in Tenants, NEW u \in Tenants, f[t] = 0, g[t] > 0, f[u] > 0 PROVE g[t] > f[u]
    <2>1. g[t] > Len(items) /\ f[u] \in 1 .. Len(items) /\ g[t] \in Nat
      BY <1>1, <1>2, <1>3, <1>4, <1>5
    <2> HIDE DEF f, g
    <2> QED
      BY <2>1
  <1> QED
    BY <1>3, <1>5 DEF Grown

\* The oldest item of a tenant is taken out.
LEMMA FrontsTaken ==
  ASSUME NEW items \in Seq(Tasks), NEW x \in Tenants, Fronts(items)[x] > 0
  PROVE  Taken(Fronts(items), Fronts(Without(items, Fronts(items)[x])), x)
  <1> DEFINE f == Fronts(items)
             i == f[x]
             r == Without(items, i)
             g == Fronts(r)
  <1>1. i \in DOMAIN items /\ TenantOf[items[i]] = x /\ f \in [Tenants -> Nat]
    BY FrontIsOldest
  <1>2. DOMAIN items = 1 .. Len(items) /\ Len(items) \in Nat /\ i \in Nat /\ i > 0
    BY <1>1
  <1>3. /\ r \in Seq(Tasks) /\ Len(r) = Len(items) - 1
        /\ \A j \in 1 .. Len(items) - 1 : r[j] = IF j < i THEN items[j] ELSE items[j + 1]
    BY <1>1, WithoutPlace
  <1>4. DOMAIN r = 1 .. Len(items) - 1 /\ g \in [Tenants -> Nat]
    BY <1>3, FrontIsOldest
  <1>5. \A j \in DOMAIN items : /\ TenantOf[items[j]] \in Tenants
                                /\ f[TenantOf[items[j]]] > 0 /\ f[TenantOf[items[j]]] <= j
    BY FrontIsOldest
  <1>6. \A j \in DOMAIN r : /\ TenantOf[r[j]] \in Tenants
                            /\ g[TenantOf[r[j]]] > 0 /\ g[TenantOf[r[j]]] <= j
    BY <1>3, FrontIsOldest
  <1>7. \A t \in Tenants : f[t] > 0 => f[t] \in DOMAIN items /\ TenantOf[items[f[t]]] = t
    BY FrontIsOldest
  <1>8. \A t \in Tenants : g[t] > 0 => g[t] \in DOMAIN r /\ TenantOf[r[g[t]]] = t
    BY <1>3, FrontIsOldest
  <1>9. ASSUME NEW t \in Tenants, NEW k \in DOMAIN r, TenantOf[r[k]] = t,
               \A j \in DOMAIN r : TenantOf[r[j]] = t => k <= j
        PROVE  g[t] = k
    BY <1>3, <1>9, FrontIs
  <1> HIDE DEF f, g, r
  <1>10. g[x] = 0 \/ g[x] >= i
    <2>1. ASSUME g[x] > 0, g[x] < i PROVE FALSE
      <3>1. g[x] \in DOMAIN r /\ TenantOf[r[g[x]]] = x
        BY <1>8, <2>1
      <3>2. r[g[x]] = items[g[x]] /\ g[x] \in DOMAIN items
        BY <1>2, <1>3, <1>4, <2>1, <3>1
      <3>3. f[x] <= g[x]
        BY <1>5, <3>1, <3>2
      <3> QED
        BY <1>2, <1>4, <2>1, <3>3
    <2> QED
      BY <1>2, <1>4, <2>1
  <1>11. ASSUME NEW t \in Tenants \ {x}, f[t] = 0 PROVE g[t] = 0
    <2>1. ASSUME g[t] > 0 PROVE FALSE
      <3>1. g[t] \in DOMAIN r /\ TenantOf[r[g[t]]] = t
        BY <1>8, <2>1
      <3>2. PICK j \in DOMAIN items : r[g[t]] = items[j]
        <4>1. /\ g[t] \in Nat /\ g[t] \in DOMAIN items /\ g[t] + 1 \in DOMAIN items
              /\ r[g[t]] = IF g[t] < i THEN items[g[t]] ELSE items[g[t] + 1]
          BY <1>2, <1>3, <1>4, <3>1
        <4> QED
          BY <4>1
      <3>3. f[t] > 0
        BY <1>5, <3>1, <3>2
      <3> QED
        BY <1>11, <3>3
    <2> QED
      BY <1>4, <2>1
  <1>12. ASSUME NEW t \in Tenants \ {x}, f[t] > 0
         PROVE  f[t] # i /\ g[t] = IF f[t] < i THEN f[t] ELSE f[t] - 1
    <2>1. f[t] \in DOMAIN items /\ TenantOf[items[f[t]]] = t
      BY <1>7, <1>12
    <2>2. f[t] # i
      BY <1>1, <2>1
    <2> DEFINE k == IF f[t] < i THEN f[t] ELSE f[t] - 1
    <2>3. k \in DOMAIN r /\ r[k] = items[f[t]]
      <3>1. CASE f[t] < i
        <4>1. k = f[t] /\ f[t] \in 1 .. Len(items) - 1
          BY <1>2, <2>1, <3>1, <1>1
        <4>2. r[f[t]] = items[f[t]]
          BY <1>3, <3>1, <4>1
        <4> QED
          BY <1>4, <4>1, <4>2
      <3>2. CASE ~(f[t] < i)
        <4>1. k = f[t] - 1 /\ f[t] - 1 \in 1 .. Len(items) - 1 /\ ~(f[t] - 1 < i) /\ f[t] - 1 + 1 = f[t]
          BY <1>2, <2>1, <2>2, <3>2, <1>1
        <4>2. r[f[t] - 1] = items[f[t]]
          BY <1>3, <4>1
        <4> QED
          BY <1>4, <4>1, <4>2
      <3> QED
        BY <3>1, <3>2
    <2>4. ASSUME NEW j \in DOMAIN r, TenantOf[r[j]] = t PROVE k <= j
      <3>1. CASE j < i
        <4>1. f[t] <= j
          BY <1>2, <1>3, <1>4, <1>5, <2>4, <3>1
        <4> QED
          BY <1>2, <1>4, <2>1, <3>1, <4>1
      <3>2. CASE ~(j < i)
        <4>1. r[j] = items[j + 1] /\ j + 1 \in DOMAIN items
          BY <1>2, <1>3, <1>4, <3>2
        <4>2. f[t] <= j + 1
          BY <1>5, <2>4, <4>1
        <4> QED
          BY <1>2, <1>4, <2>1, <2>2, <3>2, <4>2
      <3> QED
        BY <3>1, <3>2
    <2> HIDE DEF k
    <2>5. g[t] = k
      BY <1>9, <2>1, <2>3, <2>4
    <2> QED
      BY <2>2, <2>5 DEF k
  <1>13. Taken(f, g, x)
    BY <1>2, <1>10, <1>11, <1>12 DEF Taken
  <1> QED
    BY <1>13 DEF f, g, r

\* findRoundRobinIndex finds the oldest item of the tenant whose turn it is.
LEMMA RotationChooses ==
  ASSUME NEW lane \in Lanes, lanes[lane] \in Seq(Tasks), lanes[lane] # <<>>
  PROVE  \E x \in Tenants : /\ Fronts(lanes[lane])[x] > 0
                            /\ FindRoundRobinIndex(lane) = Fronts(lanes[lane])[x]
                            /\ Chosen(Fronts(lanes[lane]), lastServedTenant[lane], x)
  <1>0. PICK items \in Seq(Tasks) : items = lanes[lane]
    OBVIOUS
  <1>1. PICK last : last = lastServedTenant[lane]
    OBVIOUS
  <1> DEFINE f == Fronts(items)
             oldest == {Min(Of(items, t)) : t \in {u \in Tenants : Of(items, u) # {}}}
             later == {i \in oldest : Of(items, last) # {} /\ i > Min(Of(items, last))}
  <1>2. f \in [Tenants -> Nat]
    BY FrontIsOldest
  <1>3. \A t \in Tenants : Of(items, t) # {} => f[t] = Min(Of(items, t)) /\ f[t] > 0
    <2> TAKE t \in Tenants
    <2>1. f[t] = 0 <=> Of(items, t) = {}
      BY FrontIsOldest
    <2> QED
      BY <1>2, <2>1 DEF Fronts
  <1>4. \A t \in Tenants : f[t] > 0 => Of(items, t) # {}
    BY FrontIsOldest
  <1>5. last \notin Tenants => Of(items, last) = {}
    <2>1. \A i \in DOMAIN items : TenantOf[items[i]] \in Tenants
      BY FrontIsOldest
    <2> QED
      BY <2>1 DEF Of
  <1>6. FindRoundRobinIndex(lane) = IF later # {} THEN Min(later) ELSE 1
    BY <1>0, <1>1 DEF FindRoundRobinIndex
  <1>7. \A t \in Tenants : f[t] > 0 => f[t] \in oldest
    BY <1>3, <1>4
  <1>8. \A i \in oldest : \E t \in Tenants : f[t] > 0 /\ i = f[t]
    BY <1>3
  <1>9. CASE later # {}
    <2>1. last \in Tenants /\ Of(items, last) # {} /\ f[last] = Min(Of(items, last)) /\ f[last] > 0
      BY <1>3, <1>5, <1>9
    <2>2. later \subseteq Nat
      BY <1>2, <1>8
    <2>3. PICK m \in later : \A y \in later : m <= y
      BY <1>9, <2>2, LeastNat
    <2>4. Min(later) \in later /\ \A y \in later : Min(later) <= y
      BY <2>3, Zenon DEF Min
    <2>5. PICK x \in Tenants : f[x] > 0 /\ Min(later) = f[x]
      BY <1>8, <2>4
    <2>6. f[last] < f[x]
      BY <2>1, <2>4, <2>5, <1>2
    <2>7. ASSUME NEW t \in Tenants, f[t] > f[last] PROVE f[x] <= f[t]
      <3>1. f[t] > 0
        BY <1>2, <2>1, <2>7
      <3>2. f[t] \in later
        BY <1>7, <2>1, <2>7, <3>1
      <3> QED
        BY <2>4, <2>5, <3>2
    <2> HIDE DEF f, later
    <2>8. Chosen(f, last, x)
      BY <2>1, <2>6, <2>7 DEF Chosen
    <2>9. FindRoundRobinIndex(lane) = f[x]
      BY <1>6, <1>9, <2>5
    <2> QED
      BY <1>0, <1>1, <2>5, <2>8, <2>9 DEF f
  <1>10. CASE later = {}
    <2>1. 1 \in DOMAIN items
      BY <1>0
    <2>2. PICK x \in Tenants : x = TenantOf[items[1]]
      BY <2>1, FrontIsOldest
    <2>3. f[x] > 0 /\ f[x] <= 1
      BY <2>1, <2>2, FrontIsOldest
    <2>4. f[x] = 1
      BY <1>2, <2>3
    <2>5. ASSUME last \in Tenants, f[last] > 0, NEW t \in Tenants PROVE f[t] <= f[last]
      <3>1. ASSUME f[t] > f[last] PROVE FALSE
        <4>1. f[t] \in oldest
          BY <1>2, <1>7, <2>5, <3>1
        <4>2. f[t] \in later
          BY <1>3, <1>4, <2>5, <3>1, <4>1
        <4> QED
          BY <1>10, <4>2
      <3> QED
        BY <1>2, <2>5, <3>1
    <2>6. \A t \in Tenants : f[t] > 0 => f[x] <= f[t]
      BY <1>2, <2>4
    <2> HIDE DEF f, later
    <2>7. Chosen(f, last, x)
      BY <2>5, <2>6 DEF Chosen
    <2> QED
      BY <1>0, <1>1, <1>6, <1>10, <2>3, <2>4, <2>7 DEF f
  <1> QED
    BY <1>9, <1>10

\* The items of a tenant can be counted.
LEMMA OfIsFinite ==
  ASSUME NEW items \in Seq(Tasks), NEW t
  PROVE  IsFiniteSet(Of(items, t)) /\ Cardinality(Of(items, t)) \in Nat
  <1>1. IsFiniteSet(1 .. Len(items)) /\ Of(items, t) \in SUBSET (1 .. Len(items))
    BY FirstNumbers DEF Of
  <1> QED
    BY <1>1, FS_Subset, FS_CardinalityType

\* What enters a lane is one item more, of one tenant.
LEMMA CountAppend ==
  ASSUME NEW items \in Seq(Tasks), NEW task \in Tasks, NEW t
  PROVE  Cardinality(Of(Append(items, task), t))
           = Cardinality(Of(items, t)) + (IF TenantOf[task] = t THEN 1 ELSE 0)
  <1> DEFINE r == Append(items, task)
             n == Len(items) + 1
  <1>1. /\ DOMAIN items = 1 .. Len(items) /\ DOMAIN r = 1 .. n /\ Len(items) \in Nat /\ r[n] = task
        /\ \A i \in 1 .. Len(items) : r[i] = items[i]
    OBVIOUS
  <1>2. Of(r, t) = IF TenantOf[task] = t THEN Of(items, t) \cup {n} ELSE Of(items, t)
    <2>1. ASSUME NEW i \in 1 .. n PROVE i \in 1 .. Len(items) \/ i = n
      BY <1>1
    <2>2. \A i \in 1 .. Len(items) : i \in 1 .. n
      BY <1>1
    <2>3. n \in 1 .. n
      BY <1>1
    <2> HIDE DEF n, r
    <2> QED
      BY <1>1, <2>1, <2>2, <2>3 DEF Of
  <1>3. n \notin Of(items, t)
    BY <1>1 DEF Of
  <1>4. IsFiniteSet(Of(items, t)) /\ Cardinality(Of(items, t)) \in Nat
    BY OfIsFinite
  <1> HIDE DEF n, r
  <1>5. CASE TenantOf[task] = t
    <2>1. Cardinality(Of(items, t) \cup {n}) = Cardinality(Of(items, t)) + 1
      BY <1>3, <1>4, FS_AddElement
    <2> QED
      BY <1>2, <1>5, <2>1 DEF r
  <1>6. CASE TenantOf[task] # t
    BY <1>2, <1>4, <1>6 DEF r
  <1> QED
    BY <1>5, <1>6

\* A lane that loses an item.
LEMMA CountWithout ==
  ASSUME NEW items \in Seq(Tasks), NEW i \in DOMAIN items, NEW t
  PROVE  Cardinality(Of(Without(items, i), t)) <= Cardinality(Of(items, t))
  <1> DEFINE r == Without(items, i)
             h == [k \in Of(r, t) |-> IF k < i THEN k ELSE k + 1]
  <1>1. /\ r \in Seq(Tasks) /\ Len(r) = Len(items) - 1
        /\ \A j \in 1 .. Len(items) - 1 : r[j] = IF j < i THEN items[j] ELSE items[j + 1]
    BY WithoutPlace
  <1>2. DOMAIN items = 1 .. Len(items) /\ DOMAIN r = 1 .. Len(items) - 1 /\ Len(items) \in Nat /\ i \in Nat
    BY <1>1
  <1>3. \A k \in Of(r, t) : k \in 1 .. Len(items) - 1 /\ TenantOf[r[k]] = t
    BY <1>2 DEF Of
  <1> HIDE DEF r
  <1>4. ASSUME NEW k \in Of(r, t) PROVE h[k] \in Of(items, t)
    <2>1. CASE k < i
      <3>1. h[k] = k /\ k \in DOMAIN items /\ items[k] = r[k]
        BY <1>1, <1>2, <1>3, <2>1
      <3> QED
        BY <1>3, <3>1 DEF Of
    <2>2. CASE ~(k < i)
      <3>1. h[k] = k + 1 /\ k + 1 \in DOMAIN items /\ items[k + 1] = r[k]
        BY <1>1, <1>2, <1>3, <2>2
      <3> QED
        BY <1>3, <3>1 DEF Of
    <2> QED
      BY <2>1, <2>2
  <1>5. \A k, l \in Of(r, t) : h[k] = h[l] => k = l
    BY <1>2, <1>3
  <1>6. h \in [Of(r, t) -> Of(items, t)]
    BY <1>4
  <1> HIDE DEF h
  <1>7. h \in Injection(Of(r, t), Of(items, t))
    BY <1>5, <1>6 DEF Injection, IsInjective
  <1> QED
    BY <1>7, OfIsFinite, FS_Injection DEF r

\* A lane of which some items are kept.
LEMMA CountAt ==
  ASSUME NEW items \in Seq(Tasks), NEW places \in SUBSET DOMAIN items, NEW t
  PROVE  Cardinality(Of(ItemsAt(items, places), t)) <= Cardinality(Of(items, t) \cap places)
  <1> DEFINE r == ItemsAt(items, places)
  <1>1. r \in Seq(Tasks) /\ Len(r) = Cardinality(places) /\ InOrderAt(r, items, places)
    BY ItemsAtPlaces
  <1>2. DOMAIN r = 1 .. Cardinality(places)
    BY <1>1
  <1> HIDE DEF r
  <1>3. PICK at \in [1 .. Cardinality(places) -> places] :
          /\ \A k \in 1 .. Cardinality(places) : r[k] = items[at[k]]
          /\ \A k, l \in 1 .. Cardinality(places) : k < l => at[k] < at[l]
    BY <1>1 DEF InOrderAt
  <1> DEFINE h == [k \in Of(r, t) |-> at[k]]
  <1>4. \A k \in Of(r, t) : k \in 1 .. Cardinality(places) /\ TenantOf[r[k]] = t
    BY <1>2 DEF Of
  <1>5. \A k \in Of(r, t) : h[k] \in Of(items, t) \cap places
    BY <1>3, <1>4 DEF Of
  <1>6. ASSUME NEW k \in Of(r, t), NEW l \in Of(r, t), h[k] = h[l] PROVE k = l
    <2>1. at[k] \in Nat /\ at[l] \in Nat /\ k \in Nat /\ l \in Nat /\ at[k] = at[l]
      BY <1>3, <1>4, <1>6
    <2>2. ~(k < l) /\ ~(l < k)
      BY <1>3, <1>4, <2>1
    <2> QED
      BY <2>1, <2>2
  <1>7. h \in [Of(r, t) -> Of(items, t) \cap places]
    BY <1>5
  <1> HIDE DEF h
  <1>8. h \in Injection(Of(r, t), Of(items, t) \cap places)
    BY <1>6, <1>7 DEF Injection, IsInjective
  <1>9. IsFiniteSet(Of(items, t) \cap places)
    BY OfIsFinite, FS_Intersection
  <1> QED
    BY <1>8, <1>9, FS_Injection DEF r

\* Items that go behind those of a lane.
LEMMA CountConcat ==
  ASSUME NEW items \in Seq(Tasks), NEW more \in Seq(Tasks), NEW t
  PROVE  Cardinality(Of(items \o more, t)) <= Cardinality(Of(items, t)) + Cardinality(Of(more, t))
  <1> DEFINE r == items \o more
             n == Len(items)
             new == {k \in Of(r, t) : k > n}
             h == [k \in new |-> k - n]
  <1>1. /\ r \in Seq(Tasks) /\ Len(r) = n + Len(more) /\ n \in Nat /\ Len(more) \in Nat
        /\ DOMAIN items = 1 .. n /\ DOMAIN more = 1 .. Len(more) /\ DOMAIN r = 1 .. n + Len(more)
        /\ \A i \in 1 .. n : r[i] = items[i]
        /\ \A i \in 1 .. n + Len(more) : i > n => r[i] = more[i - n]
    OBVIOUS
  <1>2. IsFiniteSet(Of(items, t)) /\ IsFiniteSet(Of(more, t))
        /\ Cardinality(Of(items, t)) \in Nat /\ Cardinality(Of(more, t)) \in Nat
    BY OfIsFinite
  <1> HIDE DEF r, n
  <1>3. \A k \in Of(r, t) : k \in 1 .. n + Len(more) /\ TenantOf[r[k]] = t
    BY <1>1 DEF Of
  <1>4. \A k \in new : h[k] \in Of(more, t)
    BY <1>1, <1>3 DEF Of
  <1>5. \A k, l \in new : h[k] = h[l] => k = l
    BY <1>1, <1>3
  <1>6. h \in [new -> Of(more, t)]
    BY <1>4
  <1>7. Of(r, t) \subseteq Of(items, t) \cup new
    BY <1>1, <1>3 DEF Of
  <1> HIDE DEF new, h
  <1>8. h \in Injection(new, Of(more, t))
    BY <1>5, <1>6 DEF Injection, IsInjective
  <1>9. IsFiniteSet(new) /\ Cardinality(new) <= Cardinality(Of(more, t)) /\ Cardinality(new) \in Nat
    BY <1>2, <1>8, FS_Injection, FS_CardinalityType
  <1>10. /\ IsFiniteSet(Of(items, t) \cup new)
         /\ Cardinality(Of(items, t) \cup new)
              = Cardinality(Of(items, t)) + Cardinality(new) - Cardinality(Of(items, t) \cap new)
    BY <1>2, <1>9, FS_Union
  <1>11. Cardinality(Of(items, t) \cap new) \in Nat
    BY <1>2, FS_Intersection, FS_CardinalityType
  <1>12. Cardinality(Of(r, t)) <= Cardinality(Of(items, t) \cup new) /\ Cardinality(Of(r, t)) \in Nat
    BY <1>7, <1>10, FS_Subset, FS_CardinalityType
  <1> QED
    BY <1>2, <1>9, <1>10, <1>11, <1>12 DEF r

\* The inductive invariant.
QueueTypes ==
  /\ lanes \in [Lanes -> Seq(Tasks)]
  /\ lastServedTenant \in [Lanes -> Tenants \cup {NoTenant}]
  /\ served \in [FairLanes -> [Tenants -> [Tenants -> Nat]]]
TurnsKept == \A l \in FairLanes : Turns(Fronts(lanes[l]), lastServedTenant[l], served[l])
QueueIInv == QueueTypes /\ WithinLimits /\ TurnsKept /\ (disturbed => served = Unserved)

\* The sizes of the lanes, and of what a tenant has in them, are numbers.
LEMMA LaneSizes ==
  ASSUME lanes \in [Lanes -> Seq(Tasks)]
  PROVE  \A l \in Lanes : Len(lanes[l]) \in Nat /\ \A t \in Tenants : CountIn(l, t) \in Nat
  <1>1. \A l \in Lanes : lanes[l] \in Seq(Tasks)
    OBVIOUS
  <1> QED
    BY <1>1, OfIsFinite DEF CountIn

\* Items that leave the lanes keep their limits.
Shrunk == \A l \in Lanes : /\ Len(lanes'[l]) <= Len(lanes[l])
                           /\ \A t \in Tenants : CountIn(l, t)' <= CountIn(l, t)
LEMMA ShrunkKeepsLimits ==
  ASSUME lanes \in [Lanes -> Seq(Tasks)], lanes' \in [Lanes -> Seq(Tasks)], Shrunk, WithinLimits
  PROVE  WithinLimits'
  <1>1. \A l \in Lanes : /\ Len(lanes[l]) \in Nat /\ \A t \in Tenants : CountIn(l, t) \in Nat
    BY LaneSizes
  <1>2. \A l \in Lanes : /\ Len(lanes'[l]) \in Nat /\ \A t \in Tenants : CountIn(l, t)' \in Nat
    <2>1. \A l \in Lanes : lanes'[l] \in Seq(Tasks)
      OBVIOUS
    <2> QED
      BY <2>1, OfIsFinite DEF CountIn
  <1>3. {MaxCapacity, MaxPerTenantQuota, EmergencyReserve} \subseteq Nat
    BY QueueAssumption
  <1>4. /\ "CRITICAL" \in Lanes /\ "INTERACTIVE" \in Lanes /\ "NORMAL" \in Lanes
        /\ "RETRY" \in Lanes /\ "BACKGROUND" \in Lanes
    BY DEF Lanes
  <1>5. GetSize' <= MaxCapacity + EmergencyReserve /\ OrdinarySize' <= MaxCapacity
    <2> DEFINE c0 == Len(lanes["CRITICAL"])  c1 == Len(lanes'["CRITICAL"])
               i0 == Len(lanes["INTERACTIVE"])  i1 == Len(lanes'["INTERACTIVE"])
               n0 == Len(lanes["NORMAL"])  n1 == Len(lanes'["NORMAL"])
               r0 == Len(lanes["RETRY"])  r1 == Len(lanes'["RETRY"])
               b0 == Len(lanes["BACKGROUND"])  b1 == Len(lanes'["BACKGROUND"])
    <2>1. /\ c0 \in Nat /\ c1 \in Nat /\ c1 <= c0
          /\ i0 \in Nat /\ i1 \in Nat /\ i1 <= i0
          /\ n0 \in Nat /\ n1 \in Nat /\ n1 <= n0
          /\ r0 \in Nat /\ r1 \in Nat /\ r1 <= r0
          /\ b0 \in Nat /\ b1 \in Nat /\ b1 <= b0
      BY <1>1, <1>2, <1>4 DEF Shrunk
    <2>2. MaxCapacity \in Nat /\ EmergencyReserve \in Nat
      BY <1>3
    <2>a. OrdinarySize = i0 + n0 + r0 + b0 /\ OrdinarySize' = i1 + n1 + r1 + b1
      BY DEF OrdinarySize
    <2>c. GetSize = c0 + (i0 + n0 + r0 + b0) /\ GetSize' = c1 + (i1 + n1 + r1 + b1)
      BY DEF GetSize, OrdinarySize
    <2> HIDE DEF c0, c1, i0, i1, n0, n1, r0, r1, b0, b1
    <2>b. OrdinarySize' <= OrdinarySize /\ OrdinarySize \in Nat /\ OrdinarySize' \in Nat
      BY <2>1, <2>a
    <2>3. GetSize' <= GetSize /\ GetSize \in Nat /\ GetSize' \in Nat
      BY <2>1, <2>c
    <2>4. GetSize <= MaxCapacity + EmergencyReserve /\ OrdinarySize <= MaxCapacity
      BY DEF WithinLimits
    <2> QED
      BY <2>2, <2>b, <2>3, <2>4
  <1>6. ASSUME NEW t \in Tenants PROVE OrdinaryCount(t)' <= MaxPerTenantQuota
    <2>1. OrdinaryCount(t) <= MaxPerTenantQuota /\ MaxPerTenantQuota \in Nat
      BY <1>3 DEF WithinLimits
    <2>2. \A l \in Lanes : CountIn(l, t) \in Nat /\ CountIn(l, t)' \in Nat /\ CountIn(l, t)' <= CountIn(l, t)
      BY <1>1, <1>2 DEF Shrunk
    <2>a. PICK i0 \in Nat, i1 \in Nat : i0 = CountIn("INTERACTIVE", t) /\ i1 = CountIn("INTERACTIVE", t)' /\ i1 <= i0
      BY <1>4, <2>2
    <2>b. PICK n0 \in Nat, n1 \in Nat : n0 = CountIn("NORMAL", t) /\ n1 = CountIn("NORMAL", t)' /\ n1 <= n0
      BY <1>4, <2>2
    <2>c. PICK r0 \in Nat, r1 \in Nat : r0 = CountIn("RETRY", t) /\ r1 = CountIn("RETRY", t)' /\ r1 <= r0
      BY <1>4, <2>2
    <2>d. PICK b0 \in Nat, b1 \in Nat : b0 = CountIn("BACKGROUND", t) /\ b1 = CountIn("BACKGROUND", t)' /\ b1 <= b0
      BY <1>4, <2>2
    <2>e. OrdinaryCount(t) = i0 + n0 + r0 + b0 /\ OrdinaryCount(t)' = i1 + n1 + r1 + b1
      BY <2>a, <2>b, <2>c, <2>d DEF OrdinaryCount
    <2>g. i1 <= i0 /\ n1 <= n0 /\ r1 <= r0 /\ b1 <= b0
      BY <2>a, <2>b, <2>c, <2>d
    <2>f. i1 + n1 + r1 + b1 <= i0 + n0 + r0 + b0
      BY <2>g
    <2>3. OrdinaryCount(t)' <= OrdinaryCount(t) /\ OrdinaryCount(t) \in Nat /\ OrdinaryCount(t)' \in Nat
      BY <2>e, <2>f
    <2> QED
      BY <2>1, <2>3
  <1> QED
    BY <1>5, <1>6 DEF WithinLimits

\* Every step in which items only enter lanes keeps the turns.
LEMMA GrownKeepsTurns ==
  ASSUME QueueIInv, lanes' \in [Lanes -> Seq(Tasks)], UNCHANGED <<lastServedTenant, served>>,
         \A l \in FairLanes : /\ Len(lanes'[l]) >= Len(lanes[l])
                              /\ \A i \in DOMAIN lanes[l] : lanes'[l][i] = lanes[l][i]
  PROVE  TurnsKept'
  <1> SUFFICES ASSUME NEW l \in FairLanes
               PROVE  Turns(Fronts(lanes'[l]), lastServedTenant'[l], served'[l])
    BY DEF TurnsKept
  <1>1. l \in Lanes /\ lanes[l] \in Seq(Tasks) /\ lanes'[l] \in Seq(Tasks)
    BY DEF FairLanes, Lanes, QueueIInv, QueueTypes
  <1>2. Grown(Fronts(lanes[l]), Fronts(lanes'[l]))
    BY <1>1, FrontsGrow
  <1>3. Fronts(lanes[l]) \in [Tenants -> Nat] /\ Fronts(lanes'[l]) \in [Tenants -> Nat]
    BY <1>1, FrontIsOldest
  <1>4. served[l] \in [Tenants -> [Tenants -> Nat]]
    BY DEF QueueIInv, QueueTypes
  <1>5. Turns(Fronts(lanes[l]), lastServedTenant[l], served[l])
    BY DEF QueueIInv, TurnsKept
  <1> QED
    BY <1>2, <1>3, <1>4, <1>5, TurnsGrow

\* A new history: no tenant waits for another.
LEMMA UnservedKeepsTurns ==
  ASSUME NEW ls \in [Lanes -> Seq(Tasks)], NEW last
  PROVE  /\ \A l \in FairLanes : Turns(Fronts(ls[l]), last[l], Unserved[l])
         /\ Unserved \in [FairLanes -> [Tenants -> [Tenants -> Nat]]]
  <1>1. ASSUME NEW l \in FairLanes PROVE Turns(Fronts(ls[l]), last[l], Unserved[l])
    <2>1. ls[l] \in Seq(Tasks)
      BY DEF FairLanes, Lanes
    <2>2. Fronts(ls[l]) \in [Tenants -> Nat]
      BY <2>1, FrontIsOldest
    <2>3. \A w, o \in Tenants : Unserved[l][w][o] = 0
      BY DEF Unserved
    <2> QED
      BY <2>2, <2>3, TurnsFromZero DEF Turns
  <1> QED
    BY <1>1 DEF Unserved

\* What an item that enters a lane adds to the sizes.
LEMMA EnqueueSizes ==
  ASSUME lanes \in [Lanes -> Seq(Tasks)], NEW lane \in Lanes, NEW task \in Tasks,
         lanes' = [lanes EXCEPT ![lane] = Append(@, task)]
  PROVE  /\ GetSize \in Nat /\ GetSize' = GetSize + 1 /\ OrdinarySize \in Nat /\ OrdinarySize <= GetSize
         /\ OrdinarySize' = OrdinarySize + (IF lane = "CRITICAL" THEN 0 ELSE 1)
         /\ \A t \in Tenants :
              /\ OrdinaryCount(t) \in Nat /\ OrdinaryCount(t) <= GetTenantCount(t)
              /\ GetTenantCount(t) \in Nat
              /\ OrdinaryCount(t)' = OrdinaryCount(t)
                   + (IF lane = "CRITICAL" \/ TenantOf[task] # t THEN 0 ELSE 1)
  <1> DEFINE one(l) == IF l = lane THEN 1 ELSE 0
  <1>1. /\ "CRITICAL" \in Lanes /\ "INTERACTIVE" \in Lanes /\ "NORMAL" \in Lanes
        /\ "RETRY" \in Lanes /\ "BACKGROUND" \in Lanes
    BY DEF Lanes
  <1>2. ASSUME NEW l \in Lanes PROVE Len(lanes[l]) \in Nat /\ Len(lanes'[l]) = Len(lanes[l]) + one(l)
    <2>1. lanes[l] \in Seq(Tasks) /\ lanes'[l] = IF l = lane THEN Append(lanes[l], task) ELSE lanes[l]
      OBVIOUS
    <2> QED
      BY <2>1
  <1>3. ASSUME NEW l \in Lanes, NEW t \in Tenants
        PROVE  /\ CountIn(l, t) \in Nat
               /\ CountIn(l, t)' = CountIn(l, t) + (IF TenantOf[task] = t THEN one(l) ELSE 0)
    <2>1. lanes[l] \in Seq(Tasks) /\ lanes'[l] = IF l = lane THEN Append(lanes[l], task) ELSE lanes[l]
      OBVIOUS
    <2>2. Cardinality(Of(lanes[l], t)) \in Nat
      BY <2>1, OfIsFinite
    <2>3. CASE l = lane
      BY <2>1, <2>2, <2>3, CountAppend DEF CountIn
    <2>4. CASE l # lane
      BY <2>1, <2>2, <2>4 DEF CountIn
    <2> QED
      BY <2>3, <2>4
  <1>4. /\ one("CRITICAL") = (IF lane = "CRITICAL" THEN 1 ELSE 0)
        /\ one("INTERACTIVE") + one("NORMAL") + one("RETRY") + one("BACKGROUND")
             = (IF lane = "CRITICAL" THEN 0 ELSE 1)
        /\ one("INTERACTIVE") \in Nat /\ one("NORMAL") \in Nat /\ one("RETRY") \in Nat /\ one("BACKGROUND") \in Nat
    BY DEF Lanes
  <1> DEFINE c2 == one("CRITICAL")
             i2 == one("INTERACTIVE")
             n2 == one("NORMAL")
             r2 == one("RETRY")
             b2 == one("BACKGROUND")
  <1>5. GetSize \in Nat /\ GetSize' = GetSize + 1 /\ OrdinarySize \in Nat /\ OrdinarySize <= GetSize
        /\ OrdinarySize' = OrdinarySize + (IF lane = "CRITICAL" THEN 0 ELSE 1)
    <2> DEFINE c0 == Len(lanes["CRITICAL"])  c1 == Len(lanes'["CRITICAL"])
               i0 == Len(lanes["INTERACTIVE"])  i1 == Len(lanes'["INTERACTIVE"])
               n0 == Len(lanes["NORMAL"])  n1 == Len(lanes'["NORMAL"])
               r0 == Len(lanes["RETRY"])  r1 == Len(lanes'["RETRY"])
               b0 == Len(lanes["BACKGROUND"])  b1 == Len(lanes'["BACKGROUND"])
    <2>1. /\ c0 \in Nat /\ c1 = c0 + c2
          /\ i0 \in Nat /\ i1 = i0 + i2
          /\ n0 \in Nat /\ n1 = n0 + n2
          /\ r0 \in Nat /\ r1 = r0 + r2
          /\ b0 \in Nat /\ b1 = b0 + b2
      BY <1>1, <1>2
    <2>2. /\ OrdinarySize = i0 + n0 + r0 + b0 /\ OrdinarySize' = i1 + n1 + r1 + b1
          /\ GetSize = c0 + (i0 + n0 + r0 + b0) /\ GetSize' = c1 + (i1 + n1 + r1 + b1)
      BY DEF OrdinarySize, GetSize
    <2>3. /\ c2 = (IF lane = "CRITICAL" THEN 1 ELSE 0)
          /\ i2 + n2 + r2 + b2 = (IF lane = "CRITICAL" THEN 0 ELSE 1)
          /\ i2 \in Nat /\ n2 \in Nat /\ r2 \in Nat /\ b2 \in Nat
      BY <1>4
    <2> HIDE DEF one, c2, i2, n2, r2, b2, c0, c1, i0, i1, n0, n1, r0, r1, b0, b1
    <2>4. CASE lane = "CRITICAL"
      BY <2>1, <2>2, <2>3, <2>4
    <2>5. CASE lane # "CRITICAL"
      BY <2>1, <2>2, <2>3, <2>5
    <2> QED
      BY <2>4, <2>5
  <1>6. ASSUME NEW t \in Tenants
        PROVE  /\ OrdinaryCount(t) \in Nat /\ OrdinaryCount(t) <= GetTenantCount(t)
               /\ GetTenantCount(t) \in Nat
               /\ OrdinaryCount(t)' = OrdinaryCount(t)
                    + (IF lane = "CRITICAL" \/ TenantOf[task] # t THEN 0 ELSE 1)
    <2> DEFINE c0 == CountIn("CRITICAL", t)
               i0 == CountIn("INTERACTIVE", t)
               n0 == CountIn("NORMAL", t)
               r0 == CountIn("RETRY", t)
               b0 == CountIn("BACKGROUND", t)
    <2>0. /\ c0 \in Nat
          /\ i0 \in Nat
          /\ n0 \in Nat
          /\ r0 \in Nat
          /\ b0 \in Nat
      BY <1>1, <1>3
    <2>a. OrdinaryCount(t) = i0 + n0 + r0 + b0 /\ GetTenantCount(t) = c0 + (i0 + n0 + r0 + b0)
      BY DEF OrdinaryCount, GetTenantCount
    <2>b. OrdinaryCount(t)' = CountIn("INTERACTIVE", t)' + CountIn("NORMAL", t)' + CountIn("RETRY", t)'
                              + CountIn("BACKGROUND", t)'
      BY DEF OrdinaryCount
    <2>3. /\ i2 + n2 + r2 + b2 = (IF lane = "CRITICAL" THEN 0 ELSE 1)
          /\ i2 \in Nat /\ n2 \in Nat /\ r2 \in Nat /\ b2 \in Nat
      BY <1>4
    <2>4. CASE TenantOf[task] = t
      <3>1. OrdinaryCount(t)' = (i0 + i2) + (n0 + n2) + (r0 + r2) + (b0 + b2)
        BY <1>1, <1>3, <2>4, <2>b
      <3> HIDE DEF one, i2, n2, r2, b2, c0, i0, n0, r0, b0
      <3>2. CASE lane = "CRITICAL"
        BY <2>0, <2>a, <2>3, <2>4, <3>1, <3>2
      <3>3. CASE lane # "CRITICAL"
        BY <2>0, <2>a, <2>3, <2>4, <3>1, <3>3
      <3> QED
        BY <3>2, <3>3
    <2>5. CASE TenantOf[task] # t
      <3>0. \A l \in Lanes : CountIn(l, t)' = CountIn(l, t)
        <4> TAKE l \in Lanes
        <4>1. CountIn(l, t) \in Nat /\ CountIn(l, t)' = CountIn(l, t) + 0
          BY <1>3, <2>5
        <4> QED
          BY <4>1
      <3>1. OrdinaryCount(t)' = i0 + n0 + r0 + b0
        BY <1>1, <2>b, <3>0
      <3>2. OrdinaryCount(t)' = OrdinaryCount(t)
        BY <2>a, <3>1
      <3> HIDE DEF one, i2, n2, r2, b2, c0, i0, n0, r0, b0
      <3>3. /\ OrdinaryCount(t) \in Nat /\ GetTenantCount(t) \in Nat
            /\ OrdinaryCount(t) <= GetTenantCount(t)
        BY <2>0, <2>a
      <3>4. OrdinaryCount(t)' = OrdinaryCount(t) + 0
        BY <3>2, <3>3
      <3> QED
        BY <2>5, <3>3, <3>4
    <2> QED
      BY <2>4, <2>5
  <1> QED
    BY <1>5, <1>6

\* Enqueue keeps the limits.
LEMMA EnqueueKeepsLimits ==
  ASSUME lanes \in [Lanes -> Seq(Tasks)], WithinLimits, NEW lane \in Lanes, NEW task \in Tasks,
         Accepts(task, lane), lanes' = [lanes EXCEPT ![lane] = Append(@, task)]
  PROVE  WithinLimits'
  <1>1. MaxCapacity \in Nat /\ MaxPerTenantQuota \in Nat /\ EmergencyReserve \in Nat
    BY QueueAssumption
  <1>2. /\ GetSize \in Nat /\ GetSize' = GetSize + 1 /\ OrdinarySize \in Nat /\ OrdinarySize <= GetSize
        /\ OrdinarySize' = OrdinarySize + (IF lane = "CRITICAL" THEN 0 ELSE 1)
    BY EnqueueSizes
  <1>3. ASSUME NEW t \in Tenants
        PROVE  /\ OrdinaryCount(t) \in Nat /\ OrdinaryCount(t) <= GetTenantCount(t)
               /\ GetTenantCount(t) \in Nat
               /\ OrdinaryCount(t)' = OrdinaryCount(t)
                    + (IF lane = "CRITICAL" \/ TenantOf[task] # t THEN 0 ELSE 1)
    BY EnqueueSizes
  <1>4. GetSize' <= MaxCapacity + EmergencyReserve /\ OrdinarySize' <= MaxCapacity
    <2>1. CASE lane = "CRITICAL"
      <3>1. GetSize < MaxCapacity + EmergencyReserve /\ OrdinarySize <= MaxCapacity
        BY <2>1 DEF Accepts, WithinLimits
      <3> QED
        BY <1>1, <1>2, <2>1, <3>1
    <2>2. CASE lane # "CRITICAL"
      <3>1. GetSize < MaxCapacity
        BY <2>2 DEF Accepts
      <3> QED
        BY <1>1, <1>2, <2>2, <3>1
    <2> QED
      BY <2>1, <2>2
  <1>5. ASSUME NEW t \in Tenants PROVE OrdinaryCount(t)' <= MaxPerTenantQuota
    <2>1. OrdinaryCount(t) <= MaxPerTenantQuota
      BY DEF WithinLimits
    <2>2. CASE lane = "CRITICAL" \/ TenantOf[task] # t
      BY <1>1, <1>3, <2>1, <2>2
    <2>3. CASE lane # "CRITICAL" /\ TenantOf[task] = t
      <3>1. GetTenantCount(t) < MaxPerTenantQuota
        BY <2>3 DEF Accepts
      <3> QED
        BY <1>1, <1>3, <2>3, <3>1
    <2> QED
      BY <2>2, <2>3
  <1> QED
    BY <1>4, <1>5 DEF WithinLimits

\* Promotion moves items from one lane to another: no size changes.
Promoted(places) ==
  lanes' = [lanes EXCEPT !["INTERACTIVE"] = @ \o ItemsAt(lanes["NORMAL"], places),
                         !["NORMAL"] = ItemsAt(@, DOMAIN @ \ places)]
LEMMA PromotedLanes ==
  ASSUME lanes \in [Lanes -> Seq(Tasks)], NEW places \in SUBSET DOMAIN lanes["NORMAL"], Promoted(places)
  PROVE  /\ lanes' \in [Lanes -> Seq(Tasks)]
         /\ lanes'["INTERACTIVE"] = lanes["INTERACTIVE"] \o ItemsAt(lanes["NORMAL"], places)
         /\ lanes'["NORMAL"] = ItemsAt(lanes["NORMAL"], DOMAIN lanes["NORMAL"] \ places)
         /\ lanes'["CRITICAL"] = lanes["CRITICAL"] /\ lanes'["RETRY"] = lanes["RETRY"]
         /\ lanes'["BACKGROUND"] = lanes["BACKGROUND"]
         /\ Len(lanes'["INTERACTIVE"]) + Len(lanes'["NORMAL"])
              = Len(lanes["INTERACTIVE"]) + Len(lanes["NORMAL"])
         /\ \A t \in Tenants : CountIn("INTERACTIVE", t)' + CountIn("NORMAL", t)'
                                <= CountIn("INTERACTIVE", t) + CountIn("NORMAL", t)
  <1>1. PICK items \in Seq(Tasks) : items = lanes["NORMAL"]
    BY DEF Lanes
  <1>2. PICK front \in Seq(Tasks) : front = lanes["INTERACTIVE"]
    BY DEF Lanes
  <1> DEFINE rest == DOMAIN items \ places
             moved == ItemsAt(items, places)
             left == ItemsAt(items, rest)
  <1>3. places \in SUBSET DOMAIN items /\ rest \in SUBSET DOMAIN items
    BY <1>1
  <1>4. moved \in Seq(Tasks) /\ Len(moved) = Cardinality(places)
    BY <1>3, ItemsAtPlaces
  <1>5. left \in Seq(Tasks) /\ Len(left) = Cardinality(rest)
    BY <1>3, ItemsAtPlaces
  <1>6. /\ lanes'["INTERACTIVE"] = front \o moved /\ lanes'["NORMAL"] = left
        /\ lanes'["CRITICAL"] = lanes["CRITICAL"] /\ lanes'["RETRY"] = lanes["RETRY"]
        /\ lanes'["BACKGROUND"] = lanes["BACKGROUND"]
    BY <1>1, <1>2 DEF Promoted, Lanes
  <1>7. lanes' \in [Lanes -> Seq(Tasks)]
    <2>1. lanes' = [l \in Lanes |-> lanes'[l]]
      BY DEF Promoted
    <2> HIDE DEF moved, left
    <2>2. front \o moved \in Seq(Tasks)
      BY <1>4
    <2>3. \A l \in Lanes : lanes'[l] \in Seq(Tasks)
      BY <1>5, <1>6, <2>2 DEF Lanes
    <2> QED
      BY <2>1, <2>3
  <1>8. Len(front \o moved) + Len(left) = Len(front) + Len(items)
    <2>1. IsFiniteSet(DOMAIN items) /\ Cardinality(DOMAIN items) = Len(items)
      BY FirstNumbers
    <2>2. Cardinality(rest) = Cardinality(DOMAIN items) - Cardinality(DOMAIN items \cap places)
      BY <2>1, FS_Difference
    <2>3. DOMAIN items \cap places = places
      BY <1>3
    <2>4. Cardinality(places) \in Nat
      BY <1>3, <2>1, FS_Subset, FS_CardinalityType
    <2> HIDE DEF moved, left, rest
    <2>5. Len(front \o moved) = Len(front) + Len(moved)
      BY <1>4, ConcatProperties, Zenon
    <2>6. Len(front) \in Nat /\ Len(items) \in Nat
      OBVIOUS
    <2>7. /\ Len(moved) = Cardinality(places)
          /\ Len(left) = Len(items) - Cardinality(places)
      BY <1>4, <1>5, <2>1, <2>2, <2>3, Zenon
    <2> QED
      BY <2>4, <2>5, <2>6, <2>7
  <1>9. ASSUME NEW t \in Tenants
        PROVE  Cardinality(Of(front \o moved, t)) + Cardinality(Of(left, t))
                 <= Cardinality(Of(front, t)) + Cardinality(Of(items, t))
    <2>1. Cardinality(Of(moved, t)) <= Cardinality(Of(items, t) \cap places)
      BY <1>3, CountAt
    <2>2. Cardinality(Of(left, t)) <= Cardinality(Of(items, t) \cap rest)
      BY <1>3, CountAt
    <2>3. Of(items, t) \cap rest = Of(items, t) \ places
      BY DEF Of
    <2> HIDE DEF moved, left, rest
    <2>4. /\ IsFiniteSet(Of(items, t)) /\ Cardinality(Of(items, t)) \in Nat
          /\ Cardinality(Of(moved, t)) \in Nat /\ Cardinality(Of(front, t)) \in Nat
          /\ Cardinality(Of(left, t)) \in Nat
      BY <1>4, <1>5, OfIsFinite
    <2>5. Cardinality(Of(items, t) \ places)
            = Cardinality(Of(items, t)) - Cardinality(Of(items, t) \cap places)
      BY <2>4, FS_Difference
    <2>6. Cardinality(Of(items, t) \cap places) \in Nat
      BY <2>4, FS_Intersection, FS_CardinalityType
    <2>7. Cardinality(Of(front \o moved, t)) <= Cardinality(Of(front, t)) + Cardinality(Of(moved, t))
      BY <1>4, CountConcat
    <2>8. Cardinality(Of(front \o moved, t)) \in Nat
      <3>1. front \o moved \in Seq(Tasks)
        BY <1>4
      <3> QED
        BY <3>1, OfIsFinite
    <2> DEFINE a == Cardinality(Of(front \o moved, t))  f == Cardinality(Of(front, t))
               m == Cardinality(Of(moved, t))  l == Cardinality(Of(left, t))
               n == Cardinality(Of(items, t))  p == Cardinality(Of(items, t) \cap places)
               q == Cardinality(Of(items, t) \ places)
    <2>9. /\ a \in Nat /\ f \in Nat /\ m \in Nat /\ l \in Nat /\ n \in Nat /\ p \in Nat
          /\ m <= p /\ l <= q /\ q = n - p /\ a <= f + m
      BY <2>1, <2>2, <2>3, <2>4, <2>5, <2>6, <2>7, <2>8, Zenon
    <2> HIDE DEF a, f, m, l, n, p, q
    <2>10. a + l <= f + n
      BY <2>9
    <2> QED
      BY <2>10 DEF a, f, l, n
  <1> HIDE DEF moved, left, rest
  <1>10. \A t \in Tenants : CountIn("INTERACTIVE", t)' + CountIn("NORMAL", t)'
                                <= CountIn("INTERACTIVE", t) + CountIn("NORMAL", t)
    BY <1>1, <1>2, <1>6, <1>9 DEF CountIn
  <1>11. Len(lanes'["INTERACTIVE"]) + Len(lanes'["NORMAL"])
              = Len(lanes["INTERACTIVE"]) + Len(lanes["NORMAL"])
    BY <1>1, <1>2, <1>6, <1>8
  <1>12. lanes'["INTERACTIVE"] = lanes["INTERACTIVE"] \o ItemsAt(lanes["NORMAL"], places)
         /\ lanes'["NORMAL"] = ItemsAt(lanes["NORMAL"], DOMAIN lanes["NORMAL"] \ places)
    BY <1>1, <1>2, <1>6 DEF moved, left, rest
  <1> QED
    BY <1>6, <1>7, <1>10, <1>11, <1>12

\* applyAging keeps the limits.
LEMMA PromotedKeepsLimits ==
  ASSUME lanes \in [Lanes -> Seq(Tasks)], NEW places \in SUBSET DOMAIN lanes["NORMAL"],
         Promoted(places), WithinLimits
  PROVE  WithinLimits'
  <1>1. \A l \in Lanes : Len(lanes[l]) \in Nat /\ \A t \in Tenants : CountIn(l, t) \in Nat
    BY LaneSizes
  <1>2. \A l \in Lanes : Len(lanes'[l]) \in Nat /\ \A t \in Tenants : CountIn(l, t)' \in Nat
    <2>1. lanes' \in [Lanes -> Seq(Tasks)]
      BY PromotedLanes
    <2>2. \A l \in Lanes : lanes'[l] \in Seq(Tasks)
      BY <2>1
    <2> QED
      BY <2>2, OfIsFinite DEF CountIn
  <1>3. MaxCapacity \in Nat /\ MaxPerTenantQuota \in Nat /\ EmergencyReserve \in Nat
    BY QueueAssumption
  <1>4. /\ "CRITICAL" \in Lanes /\ "INTERACTIVE" \in Lanes /\ "NORMAL" \in Lanes
        /\ "RETRY" \in Lanes /\ "BACKGROUND" \in Lanes
    BY DEF Lanes
  <1>5. /\ lanes'["CRITICAL"] = lanes["CRITICAL"] /\ lanes'["RETRY"] = lanes["RETRY"]
        /\ lanes'["BACKGROUND"] = lanes["BACKGROUND"]
        /\ Len(lanes'["INTERACTIVE"]) + Len(lanes'["NORMAL"])
             = Len(lanes["INTERACTIVE"]) + Len(lanes["NORMAL"])
        /\ \A t \in Tenants : CountIn("INTERACTIVE", t)' + CountIn("NORMAL", t)'
                                <= CountIn("INTERACTIVE", t) + CountIn("NORMAL", t)
    BY PromotedLanes
  <1>6. GetSize' <= MaxCapacity + EmergencyReserve /\ OrdinarySize' <= MaxCapacity
    <2> DEFINE c0 == Len(lanes["CRITICAL"])
               i0 == Len(lanes["INTERACTIVE"])  i1 == Len(lanes'["INTERACTIVE"])
               n0 == Len(lanes["NORMAL"])  n1 == Len(lanes'["NORMAL"])
               r0 == Len(lanes["RETRY"])
               b0 == Len(lanes["BACKGROUND"])
    <2>1. /\ c0 \in Nat /\ i0 \in Nat /\ i1 \in Nat /\ n0 \in Nat /\ n1 \in Nat /\ r0 \in Nat /\ b0 \in Nat
          /\ i1 + n1 = i0 + n0
      BY <1>1, <1>2, <1>4, <1>5
    <2>2. /\ i0 + n0 + r0 + b0 <= MaxCapacity
          /\ c0 + (i0 + n0 + r0 + b0) <= MaxCapacity + EmergencyReserve
      BY DEF WithinLimits, OrdinarySize, GetSize
    <2>3. OrdinarySize' = i1 + n1 + r0 + b0 /\ GetSize' = c0 + (i1 + n1 + r0 + b0)
      BY <1>5 DEF OrdinarySize, GetSize
    <2> HIDE DEF c0, i0, i1, n0, n1, r0, b0
    <2> QED
      BY <1>3, <2>1, <2>2, <2>3
  <1>7. ASSUME NEW t \in Tenants PROVE OrdinaryCount(t)' <= MaxPerTenantQuota
    <2> DEFINE i0 == CountIn("INTERACTIVE", t)
               n0 == CountIn("NORMAL", t)
               r0 == CountIn("RETRY", t)
               b0 == CountIn("BACKGROUND", t)
    <2>1. /\ i0 \in Nat /\ i0' \in Nat /\ n0 \in Nat /\ n0' \in Nat /\ r0 \in Nat /\ b0 \in Nat
          /\ i0' + n0' <= i0 + n0
      BY <1>1, <1>2, <1>4, <1>5
    <2>2. i0 + n0 + r0 + b0 <= MaxPerTenantQuota
      BY DEF WithinLimits, OrdinaryCount
    <2>3. r0' = r0 /\ b0' = b0
      BY <1>5 DEF CountIn
    <2>4. OrdinaryCount(t)' = i0' + n0' + r0' + b0'
      BY DEF OrdinaryCount
    <2>5. OrdinaryCount(t)' = i0' + n0' + r0 + b0
      BY <2>3, <2>4
    <2>6. PICK i1 \in Nat, n1 \in Nat : i1 = i0' /\ n1 = n0'
      BY <2>1
    <2>7. OrdinaryCount(t)' = i1 + n1 + r0 + b0 /\ i1 + n1 <= i0 + n0
      BY <2>1, <2>5, <2>6
    <2> HIDE DEF i0, n0, r0, b0
    <2> QED
      BY <1>3, <2>1, <2>2, <2>7
  <1> QED
    BY <1>6, <1>7 DEF WithinLimits

\* The place that dequeue takes an item from.
LEMMA NextIsAPlace ==
  ASSUME lanes \in [Lanes -> Seq(Tasks)], NextLanes # {}
  PROVE  /\ NextLane \in Lanes /\ NextIndex(NextLane) \in DOMAIN lanes[NextLane]
         /\ NextLane # "RETRY" => lanes[NextLane] # <<>> /\ NextIndex(NextLane) = FindRoundRobinIndex(NextLane)
  <1>1. DOMAIN LaneOrder = 1 .. 5 /\ \A n \in 1 .. 5 : LaneOrder[n] \in Lanes
    BY DEF LaneOrder, Lanes
  <1>2. NextLanes \subseteq Nat
    BY <1>1 DEF NextLanes
  <1>3. PICK m \in NextLanes : \A y \in NextLanes : m <= y
    BY <1>2, LeastNat
  <1>4. Min(NextLanes) \in NextLanes
    BY <1>3, Zenon DEF Min
  <1>5. NextLane \in Lanes /\ NextIndex(NextLane) # 0
    BY <1>1, <1>4 DEF NextLanes, NextLane
  <1>6. PICK l \in Lanes : l = NextLane
    BY <1>5
  <1>7. lanes[l] \in Seq(Tasks) /\ lanes[l] # <<>> /\ NextIndex(l) # 0
    BY <1>5, <1>6 DEF NextIndex
  <1>8. CASE l = "RETRY"
    <2> DEFINE due == {i \in DOMAIN lanes[l] : lanes[l][i] \notin backoff}
    <2>1. due # {} /\ NextIndex(l) = Min(due)
      BY <1>7, <1>8 DEF NextIndex
    <2>2. due \subseteq Nat
      BY <1>7
    <2>3. PICK x \in due : \A y \in due : x <= y
      BY <2>1, <2>2, LeastNat
    <2>4. Min(due) \in due
      BY <2>3, Zenon DEF Min
    <2> QED
      BY <1>6, <1>8, <2>1, <2>4
  <1>9. CASE l # "RETRY"
    <2>1. NextIndex(l) = FindRoundRobinIndex(l)
      BY <1>7, <1>9 DEF NextIndex
    <2>2. PICK x \in Tenants : /\ Fronts(lanes[l])[x] > 0
                               /\ FindRoundRobinIndex(l) = Fronts(lanes[l])[x]
      BY <1>7, RotationChooses
    <2>3. Fronts(lanes[l])[x] \in DOMAIN lanes[l]
      BY <1>7, <2>2, FrontIsOldest
    <2> QED
      BY <1>6, <1>7, <2>1, <2>2, <2>3
  <1> QED
    BY <1>8, <1>9

\* A lane that loses one item.
LEMMA WithoutShrinks ==
  ASSUME lanes \in [Lanes -> Seq(Tasks)], NEW lane \in Lanes, NEW i \in DOMAIN lanes[lane],
         lanes' = [lanes EXCEPT ![lane] = Without(@, i)]
  PROVE  lanes' \in [Lanes -> Seq(Tasks)] /\ Shrunk
  <1>1. lanes[lane] \in Seq(Tasks)
    OBVIOUS
  <1>2. Without(lanes[lane], i) \in Seq(Tasks) /\ Len(Without(lanes[lane], i)) = Len(lanes[lane]) - 1
    BY <1>1, WithoutPlace
  <1>3. \A t \in Tenants : Cardinality(Of(Without(lanes[lane], i), t)) <= Cardinality(Of(lanes[lane], t))
    BY <1>1, CountWithout
  <1>4. lanes' \in [Lanes -> Seq(Tasks)]
    BY <1>2
  <1>5. ASSUME NEW l \in Lanes
        PROVE  Len(lanes'[l]) <= Len(lanes[l]) /\ \A t \in Tenants : CountIn(l, t)' <= CountIn(l, t)
    <2>1. CASE l = lane
      <3>1. lanes'[l] = Without(lanes[lane], i)
        BY <2>1
      <3>2. Len(lanes'[l]) <= Len(lanes[l])
        BY <1>1, <1>2, <2>1, <3>1
      <3> QED
        BY <1>3, <2>1, <3>1, <3>2 DEF CountIn
    <2>2. CASE l # lane
      <3>1. lanes'[l] = lanes[l] /\ lanes[l] \in Seq(Tasks)
        BY <2>2
      <3>2. \A t \in Tenants : Cardinality(Of(lanes[l], t)) \in Nat
        BY <3>1, OfIsFinite
      <3> QED
        BY <3>1, <3>2 DEF CountIn
    <2> QED
      BY <2>1, <2>2
  <1> QED
    BY <1>4, <1>5 DEF Shrunk

\* A count can go on.
LEMMA CountsGoOn ==
  ASSUME NEW S, NEW v \in [S -> Nat]
  PROVE  \A o \in S : v[o] \in Nat /\ v[o] + 1 \in Nat
  OBVIOUS

\* A turn: the history counts what the rotation did.
LEMMA DequeueKeepsTurns ==
  ASSUME QueueIInv, Dequeue, lanes' \in [Lanes -> Seq(Tasks)]
  PROVE  TurnsKept' /\ served' \in [FairLanes -> [Tenants -> [Tenants -> Nat]]]
  <1>0. lanes \in [Lanes -> Seq(Tasks)] /\ served \in [FairLanes -> [Tenants -> [Tenants -> Nat]]]
    BY DEF QueueIInv, QueueTypes
  <1>1. NextLanes # {}
    BY DEF Dequeue
  <1>2. PICK lane \in Lanes : lane = NextLane
    BY <1>0, <1>1, NextIsAPlace
  <1>3. PICK i \in DOMAIN lanes[lane] : i = NextIndex(lane)
    BY <1>0, <1>1, <1>2, NextIsAPlace
  <1>4. PICK x : x = TenantOf[lanes[lane][i]]
    OBVIOUS
  <1>5. /\ lanes' = [lanes EXCEPT ![lane] = Without(@, i)]
        /\ lastServedTenant' = [lastServedTenant EXCEPT ![lane] = x]
        /\ served' = Counted(lane, x)
    BY <1>2, <1>3, <1>4 DEF Dequeue, Peek
  <1>6. FairLanes \subseteq Lanes /\ "RETRY" \notin FairLanes
    BY DEF FairLanes, Lanes
  <1>7. lastServedTenant \in [Lanes -> Tenants \cup {NoTenant}]
    BY DEF QueueIInv, QueueTypes
  <1>8. \A l \in FairLanes : Turns(Fronts(lanes[l]), lastServedTenant[l], served[l])
    BY DEF QueueIInv, TurnsKept
  <1>9. CASE disturbed
    <2>1. served' = Unserved
      BY <1>5, <1>9 DEF Counted, QueueIInv
    <2> QED
      BY <2>1, UnservedKeepsTurns DEF TurnsKept
  <1>10. CASE lane \notin FairLanes
    <2>1. served' = served
      BY <1>5, <1>10 DEF Counted
    <2>2. \A l \in FairLanes : lanes'[l] = lanes[l] /\ lastServedTenant'[l] = lastServedTenant[l]
      BY <1>0, <1>5, <1>6, <1>7, <1>10
    <2> QED
      BY <1>0, <1>8, <2>1, <2>2 DEF TurnsKept
  <1>11. CASE ~disturbed /\ lane \in FairLanes
    <2> DEFINE n == [w \in Tenants |-> [o \in Tenants |->
                       IF w = x \/ Of(lanes[lane], w) = {} THEN 0
                       ELSE IF o = x THEN served[lane][w][o] + 1 ELSE served[lane][w][o]]]
    <2>1. served' = [served EXCEPT ![lane] = n]
      BY <1>5, <1>11 DEF Counted
    <2>2. lanes[lane] \in Seq(Tasks) /\ lanes[lane] # <<>> /\ i = FindRoundRobinIndex(lane)
      BY <1>0, <1>1, <1>2, <1>3, <1>6, <1>11, NextIsAPlace
    <2>3. PICK y \in Tenants : /\ Fronts(lanes[lane])[y] > 0 /\ i = Fronts(lanes[lane])[y]
                               /\ Chosen(Fronts(lanes[lane]), lastServedTenant[lane], y)
      BY <2>2, RotationChooses
    <2>4. TenantOf[lanes[lane][Fronts(lanes[lane])[y]]] = y
      BY <2>2, <2>3, FrontIsOldest
    <2>5. x = y
      BY <1>4, <2>3, <2>4
    <2>6. PICK f \in [Tenants -> Nat] : f = Fronts(lanes[lane])
      BY <2>2, FrontIsOldest
    <2>7. PICK g \in [Tenants -> Nat] : g = Fronts(Without(lanes[lane], i))
      <3>1. Without(lanes[lane], i) \in Seq(Tasks)
        BY <2>2, WithoutPlace
      <3> QED
        BY <3>1, FrontIsOldest
    <2>8. Taken(f, g, x) /\ Chosen(f, lastServedTenant[lane], x) /\ x \in Tenants
      BY <2>2, <2>3, <2>5, <2>6, <2>7, FrontsTaken
    <2>9. PICK s \in [Tenants -> [Tenants -> Nat]] : s = served[lane]
      BY <1>0, <1>11
    <2>10. Turns(f, lastServedTenant[lane], s)
      BY <1>8, <1>11, <2>6, <2>9
    <2>11. \A w \in Tenants : f[w] = 0 <=> Of(lanes[lane], w) = {}
      BY <2>2, <2>6, FrontIsOldest
    <2>12. TurnCounted(f, x, s, n)
      BY <2>9, <2>11 DEF TurnCounted
    <2>13. n \in [Tenants -> [Tenants -> Nat]]
      <3>1. ASSUME NEW w \in Tenants PROVE n[w] \in [Tenants -> Nat]
        <4> HIDE DEF n
        <4>1. PICK v \in [Tenants -> Nat] : v = s[w]
          OBVIOUS
        <4>2. \A o \in Tenants : v[o] \in Nat /\ v[o] + 1 \in Nat
          BY CountsGoOn
        <4>3. n[w] = [o \in Tenants |-> IF w = x \/ Of(lanes[lane], w) = {} THEN 0
                                        ELSE IF o = x THEN v[o] + 1 ELSE v[o]]
          BY <2>9, <4>1 DEF n
        <4> QED
          BY <4>2, <4>3
      <3> QED
        BY <3>1
    <2> HIDE DEF n
    <2>14. Turns(g, x, n)
      BY <2>8, <2>10, <2>12, TurnsServe
    <2>15. served' \in [FairLanes -> [Tenants -> [Tenants -> Nat]]]
      BY <1>0, <2>1, <2>13
    <2>16. ASSUME NEW l \in FairLanes
           PROVE  Turns(Fronts(lanes'[l]), lastServedTenant'[l], served'[l])
      <3>1. CASE l = lane
        <4>1. lanes'[l] = Without(lanes[lane], i) /\ lastServedTenant'[l] = x /\ served'[l] = n
          BY <1>0, <1>5, <1>7, <1>11, <2>1, <3>1
        <4> QED
          BY <2>7, <2>14, <4>1
      <3>2. CASE l # lane
        <4>1. /\ lanes'[l] = lanes[l] /\ lastServedTenant'[l] = lastServedTenant[l]
              /\ served'[l] = served[l]
          BY <1>0, <1>5, <1>6, <1>7, <2>1, <3>2
        <4> QED
          BY <1>8, <4>1
      <3> QED
        BY <3>1, <3>2
    <2> QED
      BY <2>15, <2>16 DEF TurnsKept
  <1> QED
    BY <1>9, <1>10, <1>11

\* dequeue.
LEMMA DequeueStep == ASSUME QueueIInv, Dequeue PROVE QueueIInv'
  <1>1. lanes \in [Lanes -> Seq(Tasks)] /\ lastServedTenant \in [Lanes -> Tenants \cup {NoTenant}]
    BY DEF QueueIInv, QueueTypes
  <1>2. PICK lane \in Lanes : lane = NextLane
    BY <1>1, NextIsAPlace DEF Dequeue
  <1>3. PICK i \in DOMAIN lanes[lane] : i = NextIndex(lane)
    BY <1>1, <1>2, NextIsAPlace DEF Dequeue
  <1>4. /\ lanes' = [lanes EXCEPT ![lane] = Without(@, i)]
        /\ lastServedTenant' = [lastServedTenant EXCEPT ![lane] = TenantOf[lanes[lane][i]]]
    BY <1>2, <1>3 DEF Dequeue, Peek
  <1>5. lanes' \in [Lanes -> Seq(Tasks)] /\ Shrunk
    BY <1>1, <1>4, WithoutShrinks
  <1>6. WithinLimits'
    BY <1>1, <1>5, ShrunkKeepsLimits DEF QueueIInv
  <1>7. TenantOf[lanes[lane][i]] \in Tenants
    <2>1. lanes[lane] \in Seq(Tasks)
      BY <1>1
    <2> QED
      BY <2>1, FrontIsOldest
  <1>8. lastServedTenant' \in [Lanes -> Tenants \cup {NoTenant}]
    BY <1>1, <1>4, <1>7
  <1>9. TurnsKept' /\ served' \in [FairLanes -> [Tenants -> [Tenants -> Nat]]]
    BY <1>5, DequeueKeepsTurns
  <1>10. (disturbed => served = Unserved)'
    BY DEF Dequeue, Counted, QueueIInv
  <1> QED
    BY <1>5, <1>6, <1>8, <1>9, <1>10 DEF QueueIInv, QueueTypes

\* Canceled and expired items: the history ends.
LEMMA DisturbedStep ==
  ASSUME QueueIInv, lanes' \in [Lanes -> Seq(Tasks)], Shrunk, served' = Unserved, UNCHANGED lastServedTenant
  PROVE  QueueIInv'
  <1>1. lanes \in [Lanes -> Seq(Tasks)]
    BY DEF QueueIInv, QueueTypes
  <1>2. WithinLimits'
    BY <1>1, ShrunkKeepsLimits DEF QueueIInv
  <1>3. TurnsKept' /\ served' \in [FairLanes -> [Tenants -> [Tenants -> Nat]]]
    BY UnservedKeepsTurns DEF TurnsKept
  <1> QED
    BY <1>2, <1>3 DEF QueueIInv, QueueTypes

\* remove.
LEMMA RemoveStep ==
  ASSUME QueueIInv, NEW task, NEW tenant, RemoveItem(task, tenant) PROVE QueueIInv'
  <1> DEFINE places(l) == {i \in DOMAIN lanes[l] : lanes[l][i] = task}
             holding == {n \in DOMAIN LaneOrder : places(LaneOrder[n]) # {}}
  <1>1. lanes \in [Lanes -> Seq(Tasks)]
    BY DEF QueueIInv, QueueTypes
  <1>2. DOMAIN LaneOrder = 1 .. 5 /\ \A n \in 1 .. 5 : LaneOrder[n] \in Lanes
    BY DEF LaneOrder, Lanes
  <1>3. /\ holding # {}
        /\ lanes' = [lanes EXCEPT ![LaneOrder[Min(holding)]] = Without(@, Min(places(LaneOrder[Min(holding)])))]
        /\ served' = Unserved /\ UNCHANGED lastServedTenant
    BY DEF RemoveItem
  <1>4. holding \subseteq Nat
    BY <1>2
  <1>5. PICK m \in holding : \A y \in holding : m <= y
    BY <1>3, <1>4, LeastNat
  <1>6. Min(holding) \in holding
    BY <1>5, Zenon DEF Min
  <1>7. PICK lane \in Lanes : lane = LaneOrder[Min(holding)] /\ places(lane) # {}
    BY <1>2, <1>6
  <1>8. places(lane) \subseteq DOMAIN lanes[lane] /\ places(lane) \subseteq Nat
    <2>1. lanes[lane] \in Seq(Tasks)
      BY <1>1
    <2> QED
      BY <2>1
  <1>9. PICK k \in places(lane) : \A y \in places(lane) : k <= y
    BY <1>7, <1>8, LeastNat
  <1>10. Min(places(lane)) \in places(lane)
    BY <1>9, Zenon DEF Min
  <1>11. PICK i \in DOMAIN lanes[lane] : i = Min(places(lane))
    BY <1>8, <1>10
  <1>12. lanes' = [lanes EXCEPT ![lane] = Without(@, i)]
    BY <1>3, <1>7, <1>11
  <1>13. lanes' \in [Lanes -> Seq(Tasks)] /\ Shrunk
    BY <1>1, <1>12, WithoutShrinks
  <1> QED
    BY <1>3, <1>13, DisturbedStep

\* pruneExpired.
LEMMA PruneStep ==
  ASSUME QueueIInv, NEW gone, PruneExpired(gone) PROVE QueueIInv'
  <1> DEFINE places(l) == {i \in DOMAIN lanes[l] : lanes[l][i] \notin gone}
  <1>1. lanes \in [Lanes -> Seq(Tasks)]
    BY DEF QueueIInv, QueueTypes
  <1>2. /\ lanes' = [l \in Lanes |-> ItemsAt(lanes[l], places(l))]
        /\ served' = Unserved /\ UNCHANGED lastServedTenant
    BY DEF PruneExpired
  <1>3. ASSUME NEW l \in Lanes
        PROVE  /\ lanes'[l] \in Seq(Tasks) /\ Len(lanes'[l]) <= Len(lanes[l])
               /\ \A t \in Tenants : CountIn(l, t)' <= CountIn(l, t)
    <2>1. lanes[l] \in Seq(Tasks) /\ lanes'[l] = ItemsAt(lanes[l], places(l))
      BY <1>1, <1>2
    <2>2. places(l) \in SUBSET DOMAIN lanes[l]
      OBVIOUS
    <2> HIDE DEF places
    <2>3. lanes'[l] \in Seq(Tasks) /\ Len(lanes'[l]) <= Len(lanes[l])
      BY <2>1, <2>2, ItemsAtPlaces
    <2>4. ASSUME NEW t \in Tenants PROVE CountIn(l, t)' <= CountIn(l, t)
      <3>1. Cardinality(Of(lanes'[l], t)) <= Cardinality(Of(lanes[l], t) \cap places(l))
        BY <2>1, <2>2, CountAt
      <3>2. IsFiniteSet(Of(lanes[l], t)) /\ Cardinality(Of(lanes[l], t)) \in Nat
        BY <2>1, OfIsFinite
      <3>3. /\ Cardinality(Of(lanes[l], t) \cap places(l)) <= Cardinality(Of(lanes[l], t))
            /\ Cardinality(Of(lanes[l], t) \cap places(l)) \in Nat
        BY <3>2, FS_Intersection, FS_CardinalityType
      <3>4. Cardinality(Of(lanes'[l], t)) \in Nat
        BY <2>3, OfIsFinite
      <3> QED
        BY <3>1, <3>2, <3>3, <3>4 DEF CountIn
    <2> QED
      BY <2>3, <2>4
  <1>4. lanes' \in [Lanes -> Seq(Tasks)]
    <2>1. lanes' = [l \in Lanes |-> lanes'[l]]
      BY <1>2
    <2> QED
      BY <1>3, <2>1
  <1> QED
    BY <1>2, <1>3, <1>4, DisturbedStep DEF Shrunk

\* enqueue.
LEMMA EnqueueStep ==
  ASSUME QueueIInv, NEW task \in Tasks, NEW lane \in Lanes, Enqueue(task, lane) PROVE QueueIInv'
  <1>1. lanes \in [Lanes -> Seq(Tasks)]
    BY DEF QueueIInv, QueueTypes
  <1>2. /\ Accepts(task, lane) /\ lanes' = [lanes EXCEPT ![lane] = Append(@, task)]
        /\ UNCHANGED <<lastServedTenant, served, disturbed>>
    BY DEF Enqueue
  <1>3. WithinLimits'
    BY <1>1, <1>2, EnqueueKeepsLimits DEF QueueIInv
  <1>4. lanes' \in [Lanes -> Seq(Tasks)]
    BY <1>1, <1>2
  <1>5. ASSUME NEW l \in FairLanes
        PROVE  /\ Len(lanes'[l]) >= Len(lanes[l])
               /\ \A i \in DOMAIN lanes[l] : lanes'[l][i] = lanes[l][i]
    <2>1. l \in Lanes /\ lanes[l] \in Seq(Tasks)
      BY <1>1 DEF FairLanes, Lanes
    <2>2. lanes'[l] = IF l = lane THEN Append(lanes[l], task) ELSE lanes[l]
      BY <1>1, <1>2, <2>1
    <2> QED
      BY <2>1, <2>2
  <1>6. TurnsKept'
    BY <1>2, <1>4, <1>5, GrownKeepsTurns
  <1> QED
    BY <1>2, <1>3, <1>4, <1>6 DEF QueueIInv, QueueTypes

\* applyAging.
LEMMA AgingStep ==
  ASSUME QueueIInv, NEW aged, ApplyAging(aged) PROVE QueueIInv'
  <1> DEFINE places == {i \in DOMAIN lanes["NORMAL"] : lanes["NORMAL"][i] \in aged}
  <1>1. lanes \in [Lanes -> Seq(Tasks)]
    BY DEF QueueIInv, QueueTypes
  <1>2. Promoted(places) /\ UNCHANGED <<lastServedTenant, served, disturbed>>
    BY DEF ApplyAging, Promoted
  <1>3. places \in SUBSET DOMAIN lanes["NORMAL"]
    OBVIOUS
  <1> HIDE DEF places
  <1>4. WithinLimits'
    BY <1>1, <1>2, <1>3, PromotedKeepsLimits DEF QueueIInv
  <1>5. /\ lanes' \in [Lanes -> Seq(Tasks)]
        /\ lanes'["INTERACTIVE"] = lanes["INTERACTIVE"] \o ItemsAt(lanes["NORMAL"], places)
        /\ lanes'["CRITICAL"] = lanes["CRITICAL"] /\ lanes'["BACKGROUND"] = lanes["BACKGROUND"]
    BY <1>1, <1>2, <1>3, PromotedLanes
  <1>6. ASSUME NEW l \in FairLanes
        PROVE  /\ Len(lanes'[l]) >= Len(lanes[l])
               /\ \A i \in DOMAIN lanes[l] : lanes'[l][i] = lanes[l][i]
    <2>1. l \in Lanes /\ lanes[l] \in Seq(Tasks) /\ l \in {"CRITICAL", "INTERACTIVE", "BACKGROUND"}
      BY <1>1 DEF FairLanes, Lanes
    <2>2. CASE l # "INTERACTIVE"
      BY <1>5, <2>1, <2>2
    <2>3. CASE l = "INTERACTIVE"
      <3>1. lanes["NORMAL"] \in Seq(Tasks)
        BY <1>1 DEF Lanes
      <3>2. PICK more \in Seq(Tasks) : more = ItemsAt(lanes["NORMAL"], places)
        BY <1>3, <3>1, ItemsAtPlaces
      <3>3. lanes'[l] = lanes[l] \o more
        BY <1>5, <2>3, <3>2
      <3> QED
        BY <2>1, <3>3
    <2> QED
      BY <2>2, <2>3
  <1>7. TurnsKept'
    BY <1>2, <1>5, <1>6, GrownKeepsTurns
  <1> QED
    BY <1>2, <1>4, <1>5, <1>7 DEF QueueIInv, QueueTypes

\* Every step of the queue.
LEMMA QueueStep == QueueIInv /\ [QueueNext]_queueVars => QueueIInv'
  <1> SUFFICES ASSUME QueueIInv, [QueueNext]_queueVars PROVE QueueIInv'
    OBVIOUS
  <1>1. ASSUME NEW t \in Tasks, NEW l \in LaneChoices(t), Enqueue(t, l) PROVE QueueIInv'
    <2>1. LaneOf[t] \in Lanes
      BY QueueAssumption
    <2>2. l \in Lanes
      BY <2>1 DEF LaneChoices, Lanes
    <2> QED
      BY <1>1, <2>2, EnqueueStep
  <1>2. ASSUME UNCHANGED <<lanes, lastServedTenant, served, disturbed>> PROVE QueueIInv'
    BY <1>2 DEF QueueIInv, QueueTypes, WithinLimits, TurnsKept, GetSize, OrdinarySize,
                OrdinaryCount, CountIn
  <1>3. ASSUME NEW t \in Tasks, BackoffEnds(t) PROVE QueueIInv'
    BY <1>2, <1>3 DEF BackoffEnds
  <1>4. CASE Dequeue
    BY <1>4, DequeueStep
  <1>5. ASSUME NEW t \in Tasks, RemoveItem(t, TenantOf[t]) PROVE QueueIInv'
    BY <1>5, RemoveStep
  <1>6. ASSUME NEW s, PruneExpired(s) PROVE QueueIInv'
    BY <1>6, PruneStep
  <1>7. ASSUME NEW s, ApplyAging(s) PROVE QueueIInv'
    BY <1>7, AgingStep
  <1>8. CASE UNCHANGED queueVars
    BY <1>2, <1>8 DEF queueVars
  <1> QED
    BY <1>1, <1>3, <1>4, <1>5, <1>6, <1>7, <1>8 DEF QueueNext

\* The queue starts empty.
LEMMA QueueStart == QueueInit => QueueIInv
  <1> SUFFICES ASSUME QueueInit PROVE QueueIInv
    OBVIOUS
  <1>1. /\ lanes = [l \in Lanes |-> <<>>] /\ lastServedTenant = [l \in Lanes |-> NoTenant]
        /\ served = Unserved
    BY DEF QueueInit
  <1>2. \A l \in Lanes : lanes[l] = <<>> /\ lanes[l] \in Seq(Tasks)
    BY <1>1
  <1>3. lanes \in [Lanes -> Seq(Tasks)] /\ lastServedTenant \in [Lanes -> Tenants \cup {NoTenant}]
    BY <1>1
  <1>4. TurnsKept /\ served \in [FairLanes -> [Tenants -> [Tenants -> Nat]]]
    BY <1>1, <1>3, UnservedKeepsTurns DEF TurnsKept
  <1>5. \A l \in Lanes : Len(lanes[l]) = 0 /\ \A t \in Tenants : CountIn(l, t) = 0
    <2>1. \A t \in Tenants : Of(<<>>, t) = {}
      BY DEF Of
    <2>2. Len(<<>>) = 0
      OBVIOUS
    <2> QED
      BY <1>2, <2>1, <2>2, FS_EmptySet, Zenon DEF CountIn
  <1>6. MaxCapacity \in Nat /\ MaxPerTenantQuota \in Nat /\ EmergencyReserve \in Nat
    BY QueueAssumption
  <1>7. /\ "CRITICAL" \in Lanes /\ "INTERACTIVE" \in Lanes /\ "NORMAL" \in Lanes
        /\ "RETRY" \in Lanes /\ "BACKGROUND" \in Lanes
    BY DEF Lanes
  <1>8. OrdinarySize = 0 /\ GetSize = 0 /\ \A t \in Tenants : OrdinaryCount(t) = 0
    <2>1. /\ Len(lanes["CRITICAL"]) = 0 /\ Len(lanes["INTERACTIVE"]) = 0 /\ Len(lanes["NORMAL"]) = 0
          /\ Len(lanes["RETRY"]) = 0 /\ Len(lanes["BACKGROUND"]) = 0
      BY <1>5, <1>7
    <2>2. \A t \in Tenants : /\ CountIn("INTERACTIVE", t) = 0 /\ CountIn("NORMAL", t) = 0
                             /\ CountIn("RETRY", t) = 0 /\ CountIn("BACKGROUND", t) = 0
      BY <1>5, <1>7
    <2> QED
      BY <2>1, <2>2 DEF OrdinarySize, GetSize, OrdinaryCount
  <1>9. WithinLimits
    BY <1>6, <1>8 DEF WithinLimits
  <1> QED
    BY <1>1, <1>3, <1>4, <1>9 DEF QueueIInv, QueueTypes

\* The execution queue, with any number of tenants, tasks and items: the limits
\* hold in every state, and while a tenant waits no other is served as often as
\* there are tenants.
THEOREM QueueAlwaysFair == QueueSpec => []QueueIsFair
  <1>1. QueueIInv => QueueIsFair
    <2> SUFFICES ASSUME QueueIInv, NEW l \in FairLanes
                 PROVE  \A w, o \in Tenants : served[l][w][o] < Cardinality(Tenants)
      BY DEF QueueIInv, QueueIsFair, BoundedOvertaking
    <2>1. lanes[l] \in Seq(Tasks) /\ served[l] \in [Tenants -> [Tenants -> Nat]]
      BY DEF QueueIInv, QueueTypes, FairLanes, Lanes
    <2>2. Fronts(lanes[l]) \in [Tenants -> Nat]
      BY <2>1, FrontIsOldest
    <2>3. Turns(Fronts(lanes[l]), lastServedTenant[l], served[l])
      BY DEF QueueIInv, TurnsKept
    <2> QED
      BY <2>1, <2>2, <2>3, TurnsBound
  <1> QED
    BY <1>1, QueueStart, QueueStep, PTL DEF QueueSpec
=============================================================================
