---------------------------- MODULE UpdateManager ----------------------------
(***************************************************************************)
(* The updater of the agent (updater/): manifests that are checked,        *)
(* packages that are verified and staged, the activation with its rollback *)
(* snapshot, and the rollback.                                             *)
(*                                                                         *)
(* Calls are suspended at every file operation, share the temporary files, *)
(* and a shutdown (which removes the directory) or a crash may come at any *)
(* of them.  A package is named by the release whose hash it has; a file   *)
(* is "torn" from the call that opens it for writing until that has ended. *)
(***************************************************************************)
EXTENDS Naturals, FiniteSets

CONSTANTS UpdateCalls,
          Releases, ReleaseVersion,  \* the signed manifests on offer, their versions
          AgentVersion               \* config.agentVersion, a version above 0

ASSUME UpdateAssumption ==
  /\ AgentVersion \in Nat \ {0} /\ ReleaseVersion \in [Releases -> Nat \ {0}]
  /\ {"none", "torn", "absent"} \cap Releases = {}

VARIABLES updState,          \* status.state
          currentVersion,
          currentManifest, verifiedManifestId,   \* a release or "none"
          packages,          \* per file: a release, "torn" or "absent"
          rollbackSnapshot,  \* per file: the version in it, 0 if absent; which are torn
          updCall,           \* per call, how far it has come
          overlapped,        \* history: downloads that were under way at the same time
          contended,         \* history: activations that were
          orphaned           \* history: calls that a shutdown found under way

updHistory == <<overlapped, contended, orphaned>>
updVars == <<updState, currentVersion, currentManifest, verifiedManifestId, packages,
             rollbackSnapshot, updCall, updHistory>>
manifests == <<currentVersion, currentManifest, verifiedManifestId>>

\* `at` is the name that the file a call writes to has by now, "gone" if it has none.
NoUpdCall == [phase |-> "idle", package |-> "none", version |-> 0, at |-> "none"]
NoPackages == [tmp |-> "absent", staged |-> "absent", activeTmp |-> "absent", active |-> "absent"]
NoSnapshot == [tmp |-> 0, kept |-> 0, torn |-> {}]

UpdInit ==
  /\ updState = "IDLE" /\ currentVersion = AgentVersion
  /\ currentManifest = "none" /\ verifiedManifestId = "none"
  /\ packages = NoPackages /\ rollbackSnapshot = NoSnapshot
  /\ updCall = [c \in UpdateCalls |-> NoUpdCall]
  /\ overlapped = {} /\ contended = {} /\ orphaned = {}

Goes(c, from, to) == updCall[c].phase = from /\ updCall' = [updCall EXCEPT ![c].phase = to]
\* writeFile and copyFile: from the call that opens the file, `at` is its name ...
Opens(c, from, to, file, content) ==
  /\ updCall[c].phase = from
  /\ updCall' = [updCall EXCEPT ![c].phase = to, ![c].at = file, ![c].package = content]
\* ... until all is written.
Writes(c, from, to) ==
  updCall[c].phase = from /\ updCall' = [updCall EXCEPT ![c].phase = to, ![c].at = "none"]
\* The directory went away under the call, which had opened the file or had not.
Stranded(c) == updCall[c].at = "gone" /\ c \in orphaned
\* rename takes along whoever still writes to the file; the file it replaces has no name left.
Renames(c, from, to, file, name) ==
  /\ updCall[c].phase = from
  /\ updCall' = [d \in UpdateCalls |->
       IF d = c THEN [updCall[c] EXCEPT !.phase = to]
       ELSE [updCall[d] EXCEPT !.at = CASE @ = file -> name [] @ = name -> "gone" [] OTHER -> @]]

-----------------------------------------------------------------------------
(* checkForUpdates has no await.                                           *)

\* verifyManifest: a well-formed manifest, signed, recent, and newer than what runs.
VerifyManifest(r) == ReleaseVersion[r] > currentVersion

CheckForUpdates(r) ==
  /\ VerifyManifest(r)
  /\ currentManifest' = r /\ verifiedManifestId' = r /\ updState' = "AVAILABLE"
  /\ UNCHANGED <<currentVersion, packages, rollbackSnapshot, updCall, updHistory>>
\* Another channel, or a manifest that is not verified; or no manifest at all.
CheckFails ==
  /\ updState' \in {"FAILED", "IDLE"}
  /\ UNCHANGED <<manifests, packages, rollbackSnapshot, updCall, updHistory>>

-----------------------------------------------------------------------------
(* downloadAndVerifyUpdate and stagePackage.                               *)

Staging == {c \in UpdateCalls : updCall[c].phase \in {"writing", "renaming"}}

\* The identifier has been verified and the package has the hash that the manifest
\* of this request names.  STAGED is set before writeFile empties the temporary file.
DownloadAndVerify(c, r, p) ==
  /\ verifiedManifestId = r /\ updState' = "STAGED"
  /\ Opens(c, "idle", "writing", "tmp", p) /\ packages' = [packages EXCEPT !.tmp = "torn"]
  /\ overlapped' = IF Staging = {} THEN overlapped ELSE overlapped \cup Staging \cup {c}
  /\ UNCHANGED <<manifests, rollbackSnapshot, contended, orphaned>>
\* Not verified before, no package, or another hash.
DownloadRefused(c) ==
  /\ Goes(c, "idle", "over") /\ updState' = "FAILED"
  /\ UNCHANGED <<manifests, packages, rollbackSnapshot, updHistory>>

\* Two writers of one file may leave a mixture in it.  After a shutdown the file is
\* written nowhere, or in the directory another call made again; a file that was
\* removed under the writer stays removed.
WritePackage(c) ==
  /\ Writes(c, "writing", "renaming")
  /\ \E content \in {updCall[c].package} \cup (IF c \in overlapped THEN {"torn"} ELSE {}) :
       IF updCall[c].at = "gone"
       THEN packages' \in {packages} \cup {[packages EXCEPT !.tmp = content] : d \in {c} \cap orphaned}
       ELSE packages' = [packages EXCEPT ![updCall[c].at] = IF @ = "absent" THEN @ ELSE content]
  /\ UNCHANGED <<updState, manifests, rollbackSnapshot, updHistory>>

\* The rename throws if there is no such file.
RenamePackage(c) ==
  /\ packages.tmp # "absent" /\ Renames(c, "renaming", "over", "tmp", "staged")
  /\ packages' = [packages EXCEPT !.staged = packages.tmp, !.tmp = "absent"]
  /\ UNCHANGED <<updState, manifests, rollbackSnapshot, updHistory>>
StagingThrows(c) ==
  /\ \/ packages.tmp = "absent" /\ Goes(c, "renaming", "over")
     \/ Stranded(c) /\ Goes(c, "writing", "over")
  /\ UNCHANGED <<updState, manifests, packages, rollbackSnapshot, updHistory>>

-----------------------------------------------------------------------------
(* rollback, on its own or at the end of an activation.                    *)

\* hasRollbackSnapshot, then the file is read.
RollsBack(c, state, left) ==
  /\ updCall' = [updCall EXCEPT ![c].phase = IF rollbackSnapshot.kept = 0 THEN "over" ELSE "reading"]
  /\ updState' = IF rollbackSnapshot.kept = 0 THEN "FAILED" ELSE state
  /\ packages' = left
  /\ UNCHANGED <<manifests, rollbackSnapshot, updHistory>>
Rollback(c) == updCall[c].phase = "idle" /\ RollsBack(c, updState, packages)

RollbackToLastKnownGood(c) ==
  /\ updCall[c].phase = "reading" /\ rollbackSnapshot.kept # 0 /\ "kept" \notin rollbackSnapshot.torn
  /\ updCall' = [updCall EXCEPT ![c].phase = "cleaning", ![c].version = rollbackSnapshot.kept]
  /\ UNCHANGED <<updState, manifests, packages, rollbackSnapshot, updHistory>>
\* The file is gone, unreadable, or its integrity check fails.
SnapshotUnusable(c) ==
  /\ Goes(c, "reading", "over") /\ updState' = "FAILED"
  /\ UNCHANGED <<manifests, packages, rollbackSnapshot, updHistory>>
RemoveForRollback(c) ==
  /\ Goes(c, "cleaning", "dropping") /\ packages' = [packages EXCEPT !.staged = "absent"]
  /\ UNCHANGED <<updState, manifests, rollbackSnapshot, updHistory>>
RolledBack(c) ==
  /\ Goes(c, "dropping", "over") /\ packages' = [packages EXCEPT !.active = "absent"]
  /\ currentVersion' = updCall[c].version /\ updState' = "ROLLED_BACK"
  /\ verifiedManifestId' = "none"
  /\ UNCHANGED <<currentManifest, rollbackSnapshot, updHistory>>

-----------------------------------------------------------------------------
(* stageAndActivateUpdate.                                                 *)

Activating == {c \in UpdateCalls : updCall[c].phase \in
                {"saving", "naming", "checking", "copying", "installing", "removing"}}

\* createRollbackSnapshot empties the temporary file that all activations share.
BeginActivation(c, version) ==
  /\ updState = "STAGED" /\ currentManifest # "none" /\ updState' = "ACTIVATING"
  /\ updCall[c].phase = "idle"
  /\ updCall' = [updCall EXCEPT ![c] = [@ EXCEPT !.phase = "saving", !.at = "snapshotTmp", !.version = currentVersion]]
  /\ rollbackSnapshot' = [rollbackSnapshot EXCEPT !.tmp = version, !.torn = @ \cup {"tmp"}]
  /\ contended' = IF Activating = {} THEN contended ELSE contended \cup Activating \cup {c}
  /\ UNCHANGED <<manifests, packages, overlapped, orphaned>>

\* A plausible slip: the snapshot is taken of the version about to run.
SnapshotOfNext(c) == currentManifest # "none" /\ BeginActivation(c, ReleaseVersion[currentManifest])

StageAndActivate(c) == BeginActivation(c, currentVersion)
ActivateRefused(c) ==
  /\ updState # "STAGED" \/ currentManifest = "none"
  /\ Goes(c, "idle", "over") /\ updState' = "FAILED"
  /\ UNCHANGED <<manifests, packages, rollbackSnapshot, updHistory>>

\* createRollbackSnapshot: the temporary file is written, then renamed.  As for the
\* packages, two writers may mix, and after a shutdown it is written nowhere or anew.
CreateRollbackSnapshot(c) ==
  /\ Writes(c, "saving", "naming")
  /\ \E part \in {{}} \cup (IF c \in contended THEN {{"tmp", "kept"}} ELSE {}) :
       LET written(file) == [rollbackSnapshot EXCEPT
             ![file] = updCall[c].version, !.torn = (@ \ {file}) \cup ({file} \cap part)] IN
       \/ (updCall[c].at = "snapshotTmp" \/ Stranded(c)) /\ rollbackSnapshot' = written("tmp")
       \/ updCall[c].at = "snapshot" /\ rollbackSnapshot' = written("kept")
       \/ updCall[c].at = "gone" /\ rollbackSnapshot' = rollbackSnapshot
  /\ UNCHANGED <<updState, manifests, packages, updHistory>>
NameSnapshot(c) ==
  /\ rollbackSnapshot.tmp # 0 /\ Renames(c, "naming", "checking", "snapshotTmp", "snapshot")
  /\ rollbackSnapshot' = [tmp |-> 0, kept |-> rollbackSnapshot.tmp,
                          torn |-> IF "tmp" \in rollbackSnapshot.torn THEN {"kept"} ELSE {}]
  /\ UNCHANGED <<updState, manifests, packages, updHistory>>
\* Neither these nor the health check are inside the try block: the call rejects and
\* leaves ACTIVATING behind.
ActivationRejects(c) ==
  /\ \/ rollbackSnapshot.tmp = 0 /\ Goes(c, "naming", "over")
     \/ Stranded(c) /\ Goes(c, "saving", "over")
     \/ Goes(c, "checking", "over")
  /\ UNCHANGED <<updState, manifests, packages, rollbackSnapshot, updHistory>>

\* The health check, if the caller gave one; then applyStagedUpdate opens the staged
\* package, and empties the temporary file that all activations share.
Healthy(c) ==
  /\ packages.staged # "absent" /\ Opens(c, "checking", "copying", "activeTmp", packages.staged)
  /\ packages' = [packages EXCEPT !.activeTmp = "torn"]
  /\ UNCHANGED <<updState, manifests, rollbackSnapshot, updHistory>>
Unhealthy(c) == updCall[c].phase = "checking" /\ RollsBack(c, updState, packages)

\* copyFile ends; what a shutdown left to copy is what is staged by now.
CopyPackage(c) ==
  /\ Writes(c, "copying", "installing")
  /\ \E content \in {updCall[c].package} \cup (IF c \in contended THEN {"torn"} ELSE {}) :
       IF updCall[c].at = "gone"
       THEN packages' \in {packages} \cup {[packages EXCEPT !.activeTmp = packages.staged] :
                            d \in IF packages.staged = "absent" THEN {} ELSE {c} \cap orphaned}
       ELSE packages' = [packages EXCEPT ![updCall[c].at] = IF @ = "absent" THEN @ ELSE content]
  /\ UNCHANGED <<updState, manifests, rollbackSnapshot, updHistory>>
InstallPackage(c) ==
  /\ packages.activeTmp # "absent" /\ Renames(c, "installing", "removing", "activeTmp", "active")
  /\ packages' = [packages EXCEPT !.active = packages.activeTmp, !.activeTmp = "absent"]
  /\ UNCHANGED <<updState, manifests, rollbackSnapshot, updHistory>>
\* The version is that of the manifest checked last.
Activated(c) ==
  /\ currentManifest # "none" /\ Goes(c, "removing", "over")
  /\ packages' = [packages EXCEPT !.staged = "absent"]
  /\ currentVersion' = ReleaseVersion[currentManifest] /\ updState' = "ACTIVATED"
  /\ verifiedManifestId' = "none"
  /\ UNCHANGED <<currentManifest, rollbackSnapshot, updHistory>>
\* A file is missing; or, once it was removed, a shutdown has taken the manifest away.
ActivationFails(c) ==
  /\ \/ updCall[c].phase = "checking" /\ packages.staged = "absent"
     \/ updCall[c].phase = "copying" /\ Stranded(c)
     \/ updCall[c].phase = "installing" /\ packages.activeTmp = "absent"
  /\ RollsBack(c, "FAILED", packages)
ManifestGone(c) ==
  /\ updCall[c].phase = "removing" /\ currentManifest = "none"
  /\ RollsBack(c, "FAILED", [packages EXCEPT !.staged = "absent"])

-----------------------------------------------------------------------------
\* shutdown removes the directory under the calls.
UpdShutdown ==
  /\ updState' = "IDLE" /\ currentManifest' = "none" /\ verifiedManifestId' = "none"
  /\ packages' = NoPackages /\ rollbackSnapshot' = NoSnapshot
  /\ updCall' = [c \in UpdateCalls |-> [updCall[c] EXCEPT !.at = IF @ = "none" THEN @ ELSE "gone"]]
  /\ orphaned' = orphaned \cup {c \in UpdateCalls : updCall[c].phase \notin {"idle", "over"}}
  /\ UNCHANGED <<currentVersion, overlapped, contended>>

\* The process dies: the files stay, the rest starts again.
UpdCrash ==
  /\ updState' = "IDLE" /\ currentVersion' = AgentVersion
  /\ currentManifest' = "none" /\ verifiedManifestId' = "none"
  /\ updCall' = [c \in UpdateCalls |-> IF updCall[c].phase = "idle" THEN updCall[c]
                                       ELSE [NoUpdCall EXCEPT !.phase = "over"]]
  /\ UNCHANGED <<packages, rollbackSnapshot, updHistory>>

UpdNext ==
  \/ CheckFails \/ UpdShutdown \/ UpdCrash
  \/ \E r \in Releases : CheckForUpdates(r)
  \/ \E c \in UpdateCalls :
       \/ \E r, p \in Releases : DownloadAndVerify(c, r, p)
       \/ DownloadRefused(c) \/ WritePackage(c) \/ RenamePackage(c) \/ StagingThrows(c)
       \/ Rollback(c) \/ RollbackToLastKnownGood(c) \/ SnapshotUnusable(c)
       \/ RemoveForRollback(c) \/ RolledBack(c)
       \/ StageAndActivate(c) \/ ActivateRefused(c) \/ CreateRollbackSnapshot(c) \/ NameSnapshot(c)
       \/ ActivationRejects(c) \/ Healthy(c) \/ Unhealthy(c) \/ CopyPackage(c) \/ InstallPackage(c)
       \/ Activated(c) \/ ActivationFails(c) \/ ManifestGone(c)

UpdSpec == UpdInit /\ [][UpdNext]_updVars

-----------------------------------------------------------------------------
(***************************************************************************)
(* An update can be undone: while an activation replaces the package there *)
(* is a snapshot, of the version that ran when one of the activations      *)
(* began, unless a shutdown removed it.  No crash, shutdown or rollback    *)
(* puts a half-written package where it is staged as long as downloads do  *)
(* not overlap, nor a half-written snapshot or package where it is kept or *)
(* active as long as activations do not either: each of the three shares   *)
(* one temporary file (staging-store.ts:27, 62, 73).                       *)
(***************************************************************************)
UpdatesCanBeUndone ==
  /\ \A c \in UpdateCalls \ orphaned :
       updCall[c].phase \in {"checking", "copying", "installing", "removing"} =>
         rollbackSnapshot.kept \in {updCall[d].version : d \in UpdateCalls} \ {0}
  /\ contended = {} => "kept" \notin rollbackSnapshot.torn
  /\ overlapped = {} => packages.staged # "torn"
  /\ overlapped = {} /\ contended = {} => packages.active # "torn"
=============================================================================
