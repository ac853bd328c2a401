---------------------------- MODULE ConfigManager ----------------------------
(***************************************************************************)
(* The configuration of the agent (config/): layered updates, signed or    *)
(* not, and the rollback to the last known good configuration.             *)
(*                                                                         *)
(* A signed update reads the active configuration, is suspended while its  *)
(* signature is verified, and is then applied to what it read.  The value  *)
(* an update gives to its setting is named by its call.                    *)
(***************************************************************************)
EXTENDS Naturals, Sequences, FiniteSets

CONSTANTS ConfigCalls, Settings,
          EnvelopeRevisions     \* the revisions signed envelopes carry, 0 for none

VARIABLES activeConfig, lkgConfig,
          observedConfig,       \* what the observers were told last
          configCall,           \* per call: how far it is, its update, what it read
          appliedUpdates,       \* history: the calls applied, in order
          overtaken             \* history: one was applied to a configuration no longer active

configVars == <<activeConfig, lkgConfig, observedConfig, configCall, appliedUpdates, overtaken>>

\* LAYER_PRECEDENCE_ORDER; the two in the middle are signed.
Level == [IMMUTABLE_SHIPPED_DEFAULTS |-> 1, SIGNED_RELEASE_CONFIG |-> 2,
          ENTERPRISE_POLICY_OVERLAYS |-> 3, USER_PREFERENCES |-> 4]
SignedLayers == {"SIGNED_RELEASE_CONFIG", "ENTERPRISE_POLICY_OVERLAYS"}

Shipped == [layer |-> "IMMUTABLE_SHIPPED_DEFAULTS", revision |-> 1, settings |-> [s \in Settings |-> "shipped"]]
NoConfigCall == [phase |-> "idle", layer |-> "none", setting |-> "none", revision |-> 0, read |-> Shipped]

ConfigInit ==
  /\ activeConfig = Shipped /\ lkgConfig = Shipped /\ observedConfig = Shipped
  /\ configCall = [c \in ConfigCalls |-> NoConfigCall]
  /\ appliedUpdates = <<>> /\ overtaken = FALSE

-----------------------------------------------------------------------------
\* A plausible slip: an update is merged whatever its layer.
MergeAlways(c, call) == [call.read.settings EXCEPT ![call.setting] = c]

\* resolvePrecedence: an update of a lower layer than the one applied last is not merged.
ResolvePrecedence(c, call) ==
  IF Level[call.layer] >= Level[call.read.layer] THEN [call.read.settings EXCEPT ![call.setting] = c]
  ELSE call.read.settings

\* What follows the verification, without a further await.  The configuration becomes
\* one of this layer, merged or not, and is the last known good one at once.
ApplySnapshot(c, call) ==
  LET final == [layer |-> call.layer, revision |-> call.read.revision + 1,
                settings |-> ResolvePrecedence(c, call)] IN
  /\ activeConfig' = final /\ lkgConfig' = final /\ observedConfig' = final
  /\ configCall' = [configCall EXCEPT ![c] = [call EXCEPT !.phase = "applied"]]
  /\ appliedUpdates' = Append(appliedUpdates, c)
  /\ overtaken' = (overtaken \/ call.read # activeConfig)

RejectUpdate(c) ==
  /\ configCall' = [configCall EXCEPT ![c] = [NoConfigCall EXCEPT !.phase = "rejected"]]
  /\ UNCHANGED <<activeConfig, lkgConfig, observedConfig, appliedUpdates, overtaken>>
\* validateSnapshot: a secret in clear, a baseline switched off, a field out of range;
\* or, before anything is awaited, no signature at all.
ValidationFails(c) == configCall[c].phase \in {"idle", "verifying"} /\ RejectUpdate(c)
\* verifySignature: another layer, expired, a key of another authority, a wrong digest.
SignatureFails(c) == configCall[c].phase = "verifying" /\ RejectUpdate(c)

\* applyConfigurationUpdate of an unsigned layer runs to its end.
ApplyUnsigned(c, layer, setting) ==
  /\ configCall[c].phase = "idle" /\ layer \notin SignedLayers
  /\ ApplySnapshot(c, [phase |-> "idle", layer |-> layer, setting |-> setting, revision |-> 0, read |-> activeConfig])

ApplySigned(c, layer, setting, revision) ==
  /\ configCall[c].phase = "idle" /\ layer \in SignedLayers
  /\ configCall' = [configCall EXCEPT ![c] = [phase |-> "verifying", layer |-> layer, setting |-> setting,
                                             revision |-> revision, read |-> activeConfig]]
  /\ UNCHANGED <<activeConfig, lkgConfig, observedConfig, appliedUpdates, overtaken>>
\* The envelope says its revision, and it is not newer than what the call read.
Replayed(call) == call.revision # 0 /\ call.revision <= call.read.revision

\* The signature is good, and the envelope not a replay as far as one can see.
SignatureVerified(c) ==
  /\ configCall[c].phase = "verifying" /\ ~Replayed(configCall[c])
  /\ ApplySnapshot(c, configCall[c])
RevisionReplayed(c) ==
  /\ configCall[c].phase = "verifying" /\ Replayed(configCall[c])
  /\ RejectUpdate(c)

\* rollbackToLKG.  Every configuration that was applied has been validated, so the
\* shipped one is not needed.
RollbackToLKG ==
  /\ activeConfig' = lkgConfig /\ observedConfig' = lkgConfig
  /\ UNCHANGED <<lkgConfig, configCall, appliedUpdates, overtaken>>

ConfigNext ==
  \/ RollbackToLKG
  \/ \E c \in ConfigCalls :
       \/ ValidationFails(c) \/ SignatureFails(c) \/ SignatureVerified(c) \/ RevisionReplayed(c)
       \/ \E layer \in DOMAIN Level, s \in Settings :
            ApplyUnsigned(c, layer, s) \/ \E r \in EnvelopeRevisions : ApplySigned(c, layer, s, r)

ConfigSpec == ConfigInit /\ [][ConfigNext]_configVars

-----------------------------------------------------------------------------
\* The reference: an update takes effect unless its layer is below the one before.
TakesEffect(i) ==
  Level[configCall[appliedUpdates[i]].layer]
    >= IF i = 1 THEN 1 ELSE Level[configCall[appliedUpdates[i - 1]].layer]
Wins(i, s) == /\ TakesEffect(i) /\ configCall[appliedUpdates[i]].setting = s
              /\ \A j \in i + 1 .. Len(appliedUpdates) :
                   TakesEffect(j) => configCall[appliedUpdates[j]].setting # s

(***************************************************************************)
(* Updates are not lost: as long as no signed update was applied to a      *)
(* configuration that had been replaced while its signature was verified,  *)
(* every setting has the value of the last update that took effect, and    *)
(* the revision counts them from 1.  Even otherwise the observers, the     *)
(* active configuration and the one a rollback restores agree.             *)
(***************************************************************************)
ConfigIsSerial ==
  /\ activeConfig = lkgConfig /\ observedConfig = activeConfig
  /\ ~overtaken =>
       /\ activeConfig.revision = 1 + Len(appliedUpdates)
       /\ \A s \in Settings :
            IF \E i \in DOMAIN appliedUpdates : Wins(i, s)
            THEN \E i \in DOMAIN appliedUpdates : Wins(i, s) /\ activeConfig.settings[s] = appliedUpdates[i]
            ELSE activeConfig.settings[s] = "shipped"
=============================================================================
