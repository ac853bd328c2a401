----------------------------- MODULE VaultClient -----------------------------
(***************************************************************************)
(* The secrets of the agent (vault/): references that are resolved to      *)
(* payloads for five minutes, their injection into a runner, their         *)
(* revocation and the shutdown.                                            *)
(*                                                                         *)
(* A resolution is suspended while its execution lease is validated; other *)
(* calls, a revocation or the shutdown may come in between.  The payload a *)
(* resolution returned is named by its call: the caller keeps it, and may  *)
(* pass it to a revocation of any reference.                               *)
(***************************************************************************)
EXTENDS Naturals, FiniteSets

CONSTANTS SecretCalls,
          SecretRefs,         \* opaque references
          FingerprintOf,      \* the hash of the secret behind each, which two may share
          MaxActiveSecrets    \* MAX_ACTIVE_SECRET_LEASES

ASSUME VaultAssumption == MaxActiveSecrets \in Nat /\ "none" \notin SecretCalls

VARIABLES activeSecrets,      \* activeLeases: reference -> the call whose payload it is
          revokedRefs,        \* revokedReferences
          fingerprints,       \* the secrets that are redacted from any text
          secretCall,         \* per call: its reference and its payload
          endedPayloads,      \* history: out at a shutdown, or at the end of their reference
          unmasked,           \* history: secrets no longer redacted since another
                              \* reference ended, or one was revoked with the wrong payload
          leaks,              \* history: injections of what is ended, or is neither
                              \* redacted nor unmasked
          crowded             \* history: two resolutions were under way at a time

vaultVars == <<activeSecrets, revokedRefs, fingerprints, secretCall, endedPayloads, unmasked, leaks,
              crowded>>

\* state: "idle", "validating", then "payload", or "zeroed" (isRevoked), "expired", "denied".
NoSecretCall == [state |-> "idle", ref |-> "none"]

VaultInit ==
  /\ activeSecrets = [r \in SecretRefs |-> "none"] /\ revokedRefs = {} /\ fingerprints = {}
  /\ secretCall = [c \in SecretCalls |-> NoSecretCall]
  /\ endedPayloads = {} /\ unmasked = {} /\ leaks = {} /\ crowded = FALSE

LeasedRefs == {r \in SecretRefs : activeSecrets[r] # "none"}
\* The payloads that callers were given, expired and zeroed ones too.
PayloadsOf(refs) == {c \in SecretCalls : /\ secretCall[c].ref \in refs
                                         /\ secretCall[c].state \in {"payload", "expired", "zeroed"}}
Zeroized(payloads) == [c \in SecretCalls |-> IF c \in payloads THEN [secretCall[c] EXCEPT !.state = "zeroed"]
                                             ELSE secretCall[c]]

\* unregisterSecret: text is no longer searched for these.  A reference that is not
\* revoked may have one of them.
Unregister(hashes) ==
  /\ fingerprints' = fingerprints \ hashes
  /\ unmasked' = unmasked \cup (hashes \cap {FingerprintOf[r] : r \in SecretRefs \ revokedRefs'})

-----------------------------------------------------------------------------
\* The checks before the first await; a refusal returns at once.
ResolveSecret(c, r) ==
  /\ secretCall[c].state = "idle"
  /\ LET accepted == r \notin revokedRefs /\ Cardinality(LeasedRefs) < MaxActiveSecrets IN
     /\ secretCall' = [secretCall EXCEPT ![c] = [state |-> IF accepted THEN "validating" ELSE "denied", ref |-> r]]
     /\ crowded' = (crowded \/ (accepted /\ \E d \in SecretCalls : secretCall[d].state = "validating"))
  /\ UNCHANGED <<activeSecrets, revokedRefs, fingerprints, endedPayloads, unmasked, leaks>>

\* The lease, its scopes and the reference are good: the secret is registered for
\* redaction, then the lease takes the place of an earlier one of the reference.
SecretResolved(c) ==
  /\ secretCall[c].state = "validating"
  /\ secretCall' = [secretCall EXCEPT ![c].state = "payload"]
  /\ fingerprints' = fingerprints \cup {FingerprintOf[secretCall[c].ref]}
  /\ unmasked' = unmasked \ {FingerprintOf[secretCall[c].ref]}
  /\ activeSecrets' = [activeSecrets EXCEPT ![secretCall[c].ref] = c]
  /\ UNCHANGED <<revokedRefs, endedPayloads, leaks, crowded>>
SecretDenied(c) ==
  /\ secretCall[c].state = "validating"
  /\ secretCall' = [secretCall EXCEPT ![c].state = "denied"]
  /\ UNCHANGED <<activeSecrets, revokedRefs, fingerprints, endedPayloads, unmasked, leaks, crowded>>

\* Five minutes are over; nothing is told, and the lease keeps its place.
PayloadExpires(c) ==
  /\ secretCall[c].state = "payload"
  /\ secretCall' = [secretCall EXCEPT ![c].state = "expired"]
  /\ UNCHANGED <<activeSecrets, revokedRefs, fingerprints, endedPayloads, unmasked, leaks, crowded>>

-----------------------------------------------------------------------------
\* Neither zeroed nor expired.
AssertPayloadValid(c) == secretCall[c].state = "payload"

\* injectSecret into any of the channels: without an await before the injection.
InjectSecret(c) ==
  /\ secretCall[c].ref \notin revokedRefs /\ AssertPayloadValid(c)
  /\ leaks' = leaks \cup {d \in {c} : 
       c \in endedPayloads \/ FingerprintOf[secretCall[c].ref] \notin fingerprints \cup unmasked}
  /\ UNCHANGED <<activeSecrets, revokedRefs, fingerprints, secretCall, endedPayloads, unmasked, crowded>>

\* The IPC method vault.injectSecret makes up a payload: empty, good for a minute,
\* with a fingerprint of its own.  It is reported as injected unless the reference
\* is revoked, whether that was ever resolved or not; there is no secret in it.
InjectFabricated(r) == r \notin revokedRefs /\ UNCHANGED vaultVars

\* revokeSecret of a reference, with the payloads `given` (one or none): only these
\* are zeroed and no longer redacted, whatever reference they are of.
RevokeSecret(r, given) ==
  /\ Cardinality(given) <= 1
  /\ revokedRefs' = revokedRefs \cup {r}
  /\ activeSecrets' = [activeSecrets EXCEPT ![r] = "none"]
  /\ secretCall' = Zeroized(given)
  /\ Unregister({FingerprintOf[secretCall[c].ref] : c \in given})
  /\ endedPayloads' = endedPayloads \cup PayloadsOf({r})
  /\ UNCHANGED <<leaks, crowded>>

\* A plausible slip: what the leases hold is wiped, which looks enough.
WipeOnly ==
  /\ UNCHANGED revokedRefs
  /\ secretCall' = Zeroized({activeSecrets[r] : r \in LeasedRefs})
  /\ Unregister({FingerprintOf[r] : r \in LeasedRefs})
  /\ activeSecrets' = [r \in SecretRefs |-> "none"]
  /\ endedPayloads' = endedPayloads \cup PayloadsOf(SecretRefs)
  /\ UNCHANGED <<leaks, crowded>>

\* shutdown: the payload of every lease is zeroed and its reference revoked.
VaultShutdown ==
  /\ secretCall' = Zeroized({activeSecrets[r] : r \in LeasedRefs})
  /\ revokedRefs' = revokedRefs \cup LeasedRefs
  /\ Unregister({FingerprintOf[r] : r \in LeasedRefs})
  /\ activeSecrets' = [r \in SecretRefs |-> "none"]
  /\ endedPayloads' = endedPayloads \cup PayloadsOf(SecretRefs)
  /\ UNCHANGED <<leaks, crowded>>

VaultNext ==
  \/ VaultShutdown
  \/ \E r \in SecretRefs : \E given \in SUBSET PayloadsOf(SecretRefs) : RevokeSecret(r, given)
  \/ \E r \in SecretRefs : InjectFabricated(r)
  \/ \E c \in SecretCalls : \/ \E r \in SecretRefs : ResolveSecret(c, r)
                            \/ SecretResolved(c) \/ SecretDenied(c) \/ PayloadExpires(c) \/ InjectSecret(c)

VaultSpec == VaultInit /\ [][VaultNext]_vaultVars

-----------------------------------------------------------------------------
(***************************************************************************)
(* No runner is given a secret that ended: whatever was out when its       *)
(* reference was revoked or the vault shut down, a payload displaced by a  *)
(* later resolution too, is refused from then on.  What a runner is given  *)
(* is redacted, unless the end of another reference with the same secret,  *)
(* or a revocation that was passed the payload of another reference, took  *)
(* the secret out of the registry and it was not resolved again since.     *)
(* The limit on leases holds as long as resolutions do not overlap.        *)
(***************************************************************************)
SecretsEnd ==
  /\ leaks = {}
  /\ ~crowded => Cardinality(LeasedRefs) <= MaxActiveSecrets
=============================================================================
