----------------------------- MODULE FileRuntime -----------------------------
(***************************************************************************)
(* The filesystem runtime (runtimes/filesystem/runtime.ts) with its        *)
(* snapshot manager, workspace jail and path checks.                       *)
(*                                                                         *)
(* A call is suspended while its lease is validated, while its snapshot is *)
(* taken and before its result is built; other calls, a shutdown or a      *)
(* crash of the process run in between.  A call writes its own content,    *)
(* named by the call.  What a path resolves to (links included) is a       *)
(* constant, and so is what lies under a directory; the syntax of paths is *)
(* abstracted, and no request names a backup file itself.                  *)
(***************************************************************************)
EXTENDS Naturals, FiniteSets

CONSTANTS FsCalls,
          Locations,         \* canonical paths
          Names, CanonicalPath,   \* paths of requests and what they resolve to
          Sensitive,         \* the locations checkSensitivePath refuses
          Workspaces, RootOf, \* the jails (and "granted": the caller's roots)
          Directories, Entries, \* locations of directories, and relative paths in one
          Under,             \* per directory and relative path: the location
          StoredIn           \* per jail: its .nexusos-snapshots and what leads there

ASSUME FsAssumption ==
  /\ \A n \in DOMAIN CanonicalPath : CanonicalPath[n] \in Locations
  /\ Directories \subseteq Locations /\ Under \in [Directories -> [Entries -> Locations]]
  /\ StoredIn \in [DOMAIN RootOf -> SUBSET Directories]

VARIABLES fsDisk,            \* per location: a content, "dir" or "absent"
          fsTorn,            \* per location: the call a crash interrupted there
          fsBackup,          \* per call: the content of its backup file
          fsSnapshots,       \* the calls whose snapshot the manager knows
          fsJail,            \* per workspace: "none", "readOnly" or "writable"
          fsCall,            \* per call, how far it has come
          fsRaced, fsSwept, fsRazed  \* history: see ReplacedIsKept

fsVars == <<fsDisk, fsTorn, fsBackup, fsSnapshots, fsJail, fsCall, fsRaced, fsSwept, fsRazed>>

Mutating == {"write", "copy", "move", "delete"}
Unasked == [phase |-> "idle", kind |-> "none", context |-> "none", from |-> "none",
            at |-> "none", took |-> "absent"]

\* What a directory holds at any depth.
Within(l) == IF l \in Directories THEN {Under[l][e] : e \in Entries} ELSE {}

FsInit ==
  /\ fsDisk \in {d \in [Locations -> {"old", "absent", "dir"}] :
       /\ \A l \in Sensitive : d[l] = "old"
       /\ \A l \in Locations : d[l] = "dir" => l \in Directories
       /\ \A l \in Locations : \A m \in Within(l) : d[m] # "absent" => d[l] = "dir"}
  /\ fsTorn = [l \in Locations |-> "none"] /\ fsBackup = [c \in FsCalls |-> "none"]
  /\ fsSnapshots = {} /\ fsRaced = {} /\ fsSwept = {} /\ fsRazed = {}
  /\ fsJail = [w \in Workspaces |-> "none"]
  /\ fsCall = [c \in FsCalls |-> Unasked]

-----------------------------------------------------------------------------
(* Checks.                                                                  *)

\* validateWorkspaceAccess: the jail is registered for the lease's tenant and
\* takes mutations where one is asked for.
WorkspaceAllows(w, kind) == fsJail[w] = "writable" \/ (fsJail[w] = "readOnly" /\ kind \notin Mutating)

\* resolveEffectiveRoots: the jail's root, or the roots of the caller.
EffectiveRoots(context, kind) ==
  IF context \notin Workspaces \/ WorkspaceAllows(context, kind) THEN RootOf[context] ELSE {}

\* resolveCanonicalPath through links and missing directories; a name that does
\* not normalise or names a device has no canonical path.
Resolves(n) == n \in DOMAIN CanonicalPath

IsSubpath(l, roots) == l \in roots
CheckSensitivePath(l) == l \in Sensitive

\* validatePath: a canonical path inside one of the roots, not a protected one.
PathIsValid(n, roots) ==
  Resolves(n) /\ IsSubpath(CanonicalPath[n], roots) /\ ~CheckSensitivePath(CanonicalPath[n])

\* A call is over: its result is a success, a failure or a refusal.  Only a
\* snapshot still refers to it.
Settle(c) == fsCall' = [fsCall EXCEPT ![c] = IF c \in fsSnapshots THEN [@ EXCEPT !.phase = "over"]
                                             ELSE [Unasked EXCEPT !.phase = "over", !.took = fsCall[c].took]]
UnchangedFiles == UNCHANGED <<fsDisk, fsTorn, fsBackup, fsSnapshots, fsRaced, fsSwept, fsRazed>>

-----------------------------------------------------------------------------
(* The workspace jails.                                                     *)

RegisterWorkspace(w, mode) ==
  /\ fsJail' = [fsJail EXCEPT ![w] = mode]
  /\ UNCHANGED fsCall /\ UnchangedFiles
UnregisterWorkspace(w) ==
  /\ fsJail[w] # "none" /\ fsJail' = [fsJail EXCEPT ![w] = "none"]
  /\ UNCHANGED fsCall /\ UnchangedFiles

-----------------------------------------------------------------------------
(* Calls.                                                                   *)

\* execute: the request names an operation and a path.  A copy or a move checks
\* its source before the lease is looked at; a copy as a read.
Ask(c, kind, context, source, path) ==
  LET roots == EffectiveRoots(context, IF kind = "copy" THEN "read" ELSE kind)
      refused == kind \in {"copy", "move"} /\ ~PathIsValid(source, roots)
  IN /\ fsCall[c].phase = "idle"
     /\ kind \in {"copy", "move"} \/ source = path
     /\ fsCall' = [fsCall EXCEPT ![c] =
          IF refused THEN [@ EXCEPT !.phase = "over"]
          ELSE [@ EXCEPT !.phase = "leasing", !.kind = kind, !.context = context, !.at = path,
                         !.from = IF kind \in {"copy", "move"} THEN CanonicalPath[source] ELSE "none"]]
     /\ UNCHANGED fsJail /\ UnchangedFiles

\* executeProtectedOperation refuses: lease, scope, read-only context, jail or path.
Refuse(c) == fsCall[c].phase = "leasing" /\ Settle(c) /\ UNCHANGED fsJail /\ UnchangedFiles

\* ... or goes on to the action with the canonical path.
Admits(c) ==
  /\ fsCall[c].phase = "leasing"
  /\ PathIsValid(fsCall[c].at, EffectiveRoots(fsCall[c].context, fsCall[c].kind))
Target(c) == CanonicalPath[fsCall[c].at]
Exists(l) == fsDisk[l] # "absent"

\* readFile, statFile, listDirectory: nothing is changed.
ReadFile(c)      == Admits(c) /\ fsCall[c].kind = "read" /\ Settle(c) /\ UNCHANGED fsJail /\ UnchangedFiles
StatFile(c)      == Admits(c) /\ fsCall[c].kind = "stat" /\ Settle(c) /\ UNCHANGED fsJail /\ UnchangedFiles
ListDirectory(c) == Admits(c) /\ fsCall[c].kind = "list" /\ Settle(c) /\ UNCHANGED fsJail /\ UnchangedFiles

\* Preconditions, limits, overwrite = false, a snapshot that cannot be stored or a
\* disk that refuses stop a mutation before it begins.
VerifyPreconditions(c) ==
  Admits(c) /\ fsCall[c].kind \in Mutating /\ Settle(c) /\ UNCHANGED fsJail /\ UnchangedFiles

IsFile(l) == fsDisk[l] \notin {"absent", "dir"}
IsDirectory(l) == fsDisk[l] = "dir"

\* mkdirSync: nothing on the way to l is a file.  Then l has the content, in directories.
Reachable(l) == \A d \in Directories : l \in Within(d) => ~IsFile(d)
Placed(l, content) ==
  [m \in Locations |-> IF m = l THEN content ELSE IF l \in Within(m) THEN "dir" ELSE fsDisk[m]]

\* Calls that hold a snapshot of what has changed are now late.
Race(c) ==
  fsRaced' = fsRaced \cup {d \in FsCalls \ {c} :
    fsCall[d].phase = "snapped" /\ \E l \in {fsCall[d].from, Target(d)} \cap Locations : fsDisk'[l] # fsDisk[l]}
\* A location gets a new content.
Change(c, l, content) ==
  /\ Reachable(l) /\ ~IsDirectory(l) /\ fsDisk' = Placed(l, content)
  /\ fsTorn' = [fsTorn EXCEPT ![l] = "none"]
  /\ Race(c)
Done(c, destroyed) == fsCall' = [fsCall EXCEPT ![c].phase = "hashing", ![c].took = destroyed]

\* The disk refuses, onto a directory for one; the way to l may have been made.
FailsAt(c, l) ==
  /\ fsDisk' \in {fsDisk} \cup (IF Reachable(l) THEN {Placed(l, fsDisk[l])} ELSE {})
  /\ Race(c) /\ Settle(c) /\ UNCHANGED fsTorn

\* A plausible slip: the snapshot is only recorded, its backup is not written.
SnapshotInName(c, l) ==
  /\ fsSnapshots' = fsSnapshots \cup {c} /\ UNCHANGED <<fsBackup, fsDisk, fsRaced>>
  /\ fsCall' = [fsCall EXCEPT ![c].phase = "snapped"]

\* createSnapshot of a file: a backup, in directories made for it, and the entry in
\* the manager's map.  Of a directory there is no snapshot.
CreateSnapshot(c, l) ==
  LET store == StoredIn[fsCall[c].context]
  IN /\ IF IsFile(l)
        THEN /\ \A d \in store : ~IsFile(d)
             /\ fsDisk' = [m \in Locations |-> IF m \in store THEN "dir" ELSE fsDisk[m]]
             /\ fsSnapshots' = fsSnapshots \cup {c} /\ fsBackup' = [fsBackup EXCEPT ![c] = fsDisk[l]]
        ELSE UNCHANGED <<fsDisk, fsSnapshots, fsBackup>>
     /\ Race(c) /\ fsCall' = [fsCall EXCEPT ![c].phase = "snapped"]

\* copyFile: straight to the destination, no snapshot.
CopyFile(c) ==
  LET src == fsCall[c].from
  IN /\ Admits(c) /\ fsCall[c].kind = "copy" /\ Exists(src)
     /\ \/ IsFile(src) /\ Change(c, Target(c), fsDisk[src]) /\ Done(c, "absent")
        \/ FailsAt(c, Target(c))
     /\ UNCHANGED <<fsBackup, fsSnapshots, fsJail, fsSwept, fsRazed>>

\* writeFile over nothing goes on at once, over a file it takes a snapshot first.
WriteNewFile(c) ==
  /\ Admits(c) /\ fsCall[c].kind = "write" /\ ~Exists(Target(c))
  /\ \/ Change(c, Target(c), c) /\ Done(c, "absent")
     \/ FailsAt(c, Target(c))
  /\ UNCHANGED <<fsBackup, fsSnapshots, fsJail, fsSwept, fsRazed>>
SnapshotBeforeWrite(c) ==
  /\ Admits(c) /\ fsCall[c].kind = "write" /\ Exists(Target(c))
  /\ CreateSnapshot(c, Target(c))
  /\ UNCHANGED <<fsTorn, fsJail, fsSwept, fsRazed>>

\* moveFile takes one of its source, deleteFile of its target.
SnapshotBeforeMove(c) ==
  /\ Admits(c) /\ fsCall[c].kind = "move" /\ Exists(fsCall[c].from)
  /\ CreateSnapshot(c, fsCall[c].from)
  /\ UNCHANGED <<fsTorn, fsJail, fsSwept, fsRazed>>
SnapshotBeforeDelete(c) ==
  /\ Admits(c) /\ fsCall[c].kind = "delete" /\ Exists(Target(c))
  /\ CreateSnapshot(c, Target(c))
  /\ UNCHANGED <<fsTorn, fsJail, fsSwept, fsRazed>>

Snapped(c, kind) == fsCall[c].phase = "snapped" /\ fsCall[c].kind = kind

\* The temporary file takes the target's place, or is removed and the call fails.
WriteFile(c) ==
  /\ Snapped(c, "write")
  /\ \/ Change(c, Target(c), c) /\ Done(c, fsDisk[Target(c)])
     \/ FailsAt(c, Target(c))
  /\ UNCHANGED <<fsBackup, fsSnapshots, fsJail, fsSwept, fsRazed>>

\* The backups that are kept in a directory go where it goes.
BackupsIn(l) ==
  {d \in FsCalls : fsBackup[d] # "none" /\ fsCall[d].context \in DOMAIN RootOf /\ l \in StoredIn[fsCall[d].context]}
Raze(away) ==
  /\ fsBackup' = [d \in FsCalls |-> IF d \in away THEN "none" ELSE fsBackup[d]]
  /\ fsRazed' = fsRazed \cup away

\* rename of a file, onto whatever file is there ...
MoveFile(c) ==
  LET src == fsCall[c].from
      dst == Target(c)
  IN /\ Snapped(c, "move")
     /\ \/ /\ IsFile(src) /\ Reachable(dst) /\ ~IsDirectory(dst)
           /\ fsDisk' = [m \in Locations |-> IF m = src /\ m # dst THEN "absent" ELSE Placed(dst, fsDisk[src])[m]]
           /\ fsTorn' = [fsTorn EXCEPT ![src] = "none", ![dst] = fsTorn[src]]
           /\ Race(c) /\ Done(c, "absent")
        \/ FailsAt(c, dst)
     /\ UNCHANGED <<fsBackup, fsSnapshots, fsJail, fsSwept, fsRazed>>

\* ... or of a directory with all in it, onto nothing or an empty one; the call
\* fails all the same, as it reads the destination to hash it.
MoveDirectory(c) ==
  LET src == fsCall[c].from
      dst == Target(c)
      Relative(m) == CHOOSE e \in Entries : Under[dst][e] = m
  IN /\ Snapped(c, "move") /\ IsDirectory(src) /\ src \in Directories /\ dst \in Directories
     /\ src # dst /\ dst \notin Within(src) /\ Reachable(dst) /\ ~IsFile(dst)
     /\ \A m \in Within(dst) : ~Exists(m)
     /\ fsDisk' = [m \in Locations |-> IF m \in Within(dst) THEN fsDisk[Under[src][Relative(m)]]
                                       ELSE IF m \in Within(src) \cup {src} THEN "absent"
                                       ELSE Placed(dst, "dir")[m]]
     /\ fsTorn' = [m \in Locations |-> IF m \in Within(dst) THEN fsTorn[Under[src][Relative(m)]]
                                       ELSE IF m \in Within(src) THEN "none" ELSE fsTorn[m]]
     /\ Race(c) /\ Raze(BackupsIn(src)) /\ Settle(c)
     /\ UNCHANGED <<fsSnapshots, fsJail, fsSwept>>

\* unlink of a file, or rmSync of a directory with all in it, backups too, which may
\* stop on the way.
DeleteFile(c) ==
  LET l == Target(c)
      Remove(gone) ==
        /\ fsDisk' = [m \in Locations |-> IF m \in gone THEN "absent" ELSE fsDisk[m]]
        /\ fsTorn' = [m \in Locations |-> IF m \in gone THEN "none" ELSE fsTorn[m]]
        /\ Race(c)
  IN /\ Snapped(c, "delete")
     /\ \/ Exists(l) /\ Remove({l} \cup Within(l)) /\ Raze(BackupsIn(l)) /\ Done(c, fsDisk[l])
        \/ \E gone \in SUBSET Within(l), away \in SUBSET BackupsIn(l) : Remove(gone) /\ Raze(away) /\ Settle(c)
     /\ UNCHANGED <<fsSnapshots, fsJail, fsSwept>>

\* The hash after the mutation and the evidence.
Evidence(c) == fsCall[c].phase = "hashing" /\ Settle(c) /\ UNCHANGED fsJail /\ UnchangedFiles

\* restoreSnapshot writes the backup over the file; it throws when the directory is gone.
RestoreSnapshot(c) ==
  LET l == IF fsCall[c].kind = "move" THEN fsCall[c].from ELSE Target(c)
  IN /\ c \in fsSnapshots /\ fsCall[c].phase = "over" /\ fsBackup[c] # "none"
     /\ \A d \in Directories : l \in Within(d) => IsDirectory(d)
     /\ Change(c, l, fsBackup[c])
     /\ UNCHANGED <<fsBackup, fsSnapshots, fsJail, fsCall, fsSwept, fsRazed>>

\* shutdown: every snapshot and its backup is removed.
ClearAllSnapshots ==
  /\ fsSnapshots # {} /\ fsSnapshots' = {} /\ fsSwept' = fsSwept \cup fsSnapshots
  /\ fsBackup' = [c \in FsCalls |-> IF c \in fsSnapshots THEN "none" ELSE fsBackup[c]]
  /\ UNCHANGED <<fsDisk, fsTorn, fsJail, fsCall, fsRaced, fsRazed>>

\* The process dies: no call goes on, the maps are gone.  A copy may stop half
\* way; a write stops before or after its rename.
Crash(c) ==
  /\ fsCall[c].phase \in {"leasing", "snapped"}
  /\ \/ UNCHANGED <<fsDisk, fsTorn>>
     \/ /\ Admits(c) /\ fsCall[c].kind = "copy" /\ IsFile(fsCall[c].from)
        /\ Reachable(Target(c)) /\ ~IsDirectory(Target(c))
        /\ fsDisk' = Placed(Target(c), fsDisk[fsCall[c].from]) /\ fsTorn' = [fsTorn EXCEPT ![Target(c)] = c]
  /\ fsCall' = [d \in FsCalls |-> [fsCall[d] EXCEPT !.phase = IF @ = "idle" THEN @ ELSE "over"]]
  /\ fsSnapshots' = {} /\ fsJail' = [w \in Workspaces |-> "none"]
  /\ UNCHANGED <<fsBackup, fsRaced, fsSwept, fsRazed>>

FsKinds == {"read", "stat", "list"} \cup Mutating
\* The guard of Ask comes before the choice of its arguments, which TLC enumerates.
FsStep(c) ==
  \/ /\ fsCall[c].phase = "idle"
     /\ \E k \in FsKinds, x \in DOMAIN RootOf, m, n \in Names : Ask(c, k, x, m, n)
  \/ Refuse(c) \/ ReadFile(c) \/ StatFile(c) \/ ListDirectory(c) \/ VerifyPreconditions(c)
  \/ CopyFile(c) \/ WriteNewFile(c) \/ SnapshotBeforeWrite(c) \/ SnapshotBeforeMove(c)
  \/ SnapshotBeforeDelete(c) \/ WriteFile(c) \/ MoveFile(c) \/ MoveDirectory(c)
  \/ DeleteFile(c) \/ Evidence(c)
  \/ RestoreSnapshot(c) \/ Crash(c)
FsNext ==
  \/ \E c \in FsCalls : FsStep(c)
  \/ \E w \in Workspaces : UnregisterWorkspace(w) \/ \E m \in {"readOnly", "writable"} : RegisterWorkspace(w, m)
  \/ ClearAllSnapshots

FsSpec == FsInit /\ [][FsNext]_fsVars

-----------------------------------------------------------------------------
(***************************************************************************)
(* What a write or a delete of a file destroys can be had back: its backup *)
(* holds exactly that content, unless another call changed the file while  *)
(* this one was suspended at its snapshot, a shutdown swept the snapshots, *)
(* or a directory that held the backup was deleted or moved.  The delete   *)
(* of a directory keeps nothing.  And a crash never leaves a half-written  *)
(* file behind, except where a copy was interrupted.                       *)
(***************************************************************************)
ReplacedIsKept ==
  /\ \A c \in FsCalls :
       fsCall[c].took \notin {"absent", "dir"} =>
         fsBackup[c] = fsCall[c].took \/ c \in fsRaced \cup fsSwept \cup fsRazed
  /\ \A l \in Locations : fsTorn[l] # "none" => fsCall[fsTorn[l]].kind = "copy"
=============================================================================
