---------------------------- MODULE MCDelegation ----------------------------
(***************************************************************************)
(* The instance of Delegation that TLC checks.                             *)
(***************************************************************************)
EXTENDS Delegation, TLC

Symmetry ==
  Permutations(Children) \union Permutations(DelegationIds)
    \union Permutations(IdempotencyKeys) \union Permutations(Scopes)

(***************************************************************************)
(* Bound: something is delegated only while every agent is healthy.  The   *)
(* coordinator reads an agent's presence and workspaces and neither its    *)
(* status nor its heartbeat, so a delegation to an unhealthy agent leads   *)
(* to the same coordinator states.                                         *)
(***************************************************************************)
DirectoryBound ==
  sessions # << >> =>
    \A k \in DOMAIN agents : agents[k].status = "AVAILABLE" /\ agents[k].age = "fresh"
=============================================================================
