--------------------------- MODULE MCAgentServices ---------------------------
(***************************************************************************)
(* The services of the desktop agent, one at a time.  They share no state  *)
(* but the lifecycle, so an instance of all of them at once would only     *)
(* multiply their states: the initial state picks the service (`focus`)    *)
(* that moves, and the invariants of all of them are checked in every      *)
(* state.  The endpoint moves together with the lifecycle, the inferences  *)
(* together with the model cache.                                          *)
(***************************************************************************)
EXTENDS AgentIpc, ExecutionQueue, StateStore, FileRuntime, TerminalRuntime, BrowserRuntime,
        PluginRuntime, DeviceRuntime, ClipboardRuntime, LocalAi, UpdateManager, VaultClient,
        ConfigManager, Notifications, TelemetrySpool, MemoryCache,
        ControlPlane

VARIABLE focus

-----------------------------------------------------------------------------
(* The instances.                                                          *)
MCTenantOf == [k |-> "A", a |-> "A", b |-> "B", c |-> "C"]
MCLaneOf == [k |-> "CRITICAL", a |-> "NORMAL", b |-> "INTERACTIVE", c |-> "INTERACTIVE"]

\* A file in the workspace, one outside it behind a link, and a secret.
MCCanonicalPath == [in |-> "in", link |-> "out", secret |-> "key", home |-> "home", attic |-> "attic"]
MCRootOf == [w |-> {"in", "home"}, granted |-> {"in", "out", "key", "home", "attic"}]
\* The root of the workspace holds the file and the backups; it may become the attic.
MCUnder == [home |-> [f |-> "in"], attic |-> [f |-> "far"]]
MCStoredIn == [w |-> {"home"}, granted |-> {"home"}]

MCSessionTaskOf == [t1 |-> "a", t2 |-> "b"]
MCSessionTenantOf == [t1 |-> "x", t2 |-> "default-tenant"]
MCSessionWorkspaceOf == [t1 |-> "unassigned", t2 |-> "w"]
MCCovers == [p |-> {"ok", "local"}]

\* Two of the clipboard writes have the same text.
MCClipTextOf == [a |-> "x", b |-> "x", c |-> "c", d |-> "d"]

\* Each model fills the cache; a GPU for one and a half of them, or none.
MCFileSizeOf == [m1 |-> 10, m2 |-> 10]
MCFormatOf == [m1 |-> "gguf", m2 |-> "onnx"]
MCProfiles == {[ram |-> 40, vram |-> 20], [ram |-> 40, vram |-> 0]}
MCBudgets == {[ram |-> 0, vram |-> 0], [ram |-> 3, vram |-> 9]}

\* An update and the one after it; two secrets; two notices that may coalesce and are
\* urgent, one that is urgent on its own, and one that is not.
MCReleaseVersion == [r1 |-> 2, r2 |-> 3]
MCFingerprintOf == [db |-> "f1", api |-> "f2", copy |-> "f1"]
MCPriorityOf == [n |-> "NORMAL", c |-> "CRITICAL", d |-> "CRITICAL", h |-> "HIGH"]
MCCategoryOf == [n |-> "SYSTEM_INFO", c |-> "SECURITY_ALERT", d |-> "SECURITY_ALERT", h |-> "POLICY_APPROVAL"]
MCCoalesceKeyOf == [n |-> "k", c |-> "none", d |-> "k", h |-> "k"]

\* Three entries for one key, of two tasks.
MCCacheKeyOf == [p1 |-> "k", p2 |-> "k", p3 |-> "k", p4 |-> "l"]
MCSizeBytesOf == [p1 |-> 1, p2 |-> 1, p3 |-> 2, p4 |-> 2]
MCTagsOf == [p1 |-> {"t"}, p2 |-> {"t", "w"}, p3 |-> {"w"}, p4 |-> {"t"}]

-----------------------------------------------------------------------------
(* Bounds: calls that only differ in their name start in the order of their *)
(* names, and not too many of them take part at the same time.              *)
Two == <<"c1", "c2">>
Three == <<"c1", "c2", "c3">>
Four == <<"c1", "c2", "c3", "c4">>
InOrder(names, idle) ==
  \E still \in {idle} : \A i \in 2 .. Len(names) : names[i - 1] \in still => names[i] \in still
IdleIn(f) == {c \in DOMAIN f : f[c].phase = "idle"}
Untouched(f, none) == {c \in DOMAIN f : f[c] = none}

Effort == Cardinality({r \in Requests : req'[r].phase # "unsent"})
          + Cardinality({s \in Starts : boot'[s] # "idle"})
          + 2 * Cardinality({t \in Stops : halt'[t] # "idle"})
          + Cardinality({c \in Conns : sock'[c] # "none"})
Working == Cardinality({i \in Inferences : inference'[i].phase # "idle"})
Acquiring == Cardinality({a \in Acquisitions : acq'[a].phase # "idle"})
Acquired == \A a \in Acquisitions : acq'[a].phase \in {"idle", "installed", "failed"}

\* Those of the runtimes and their surroundings, and those of the other services.
serviceVars == <<lifecycleVars, ipcVars, queueVars, storeVars, fsVars, termVars, browserVars,
                 pluginVars, deviceVars, clipVars, cacheVars, aiVars>>
otherVars == <<updVars, vaultVars, configVars, noticeVars, spoolVars, memoryCacheVars, controlVars>>

Init ==
  /\ IpcInit /\ QueueInit /\ StoreInit /\ FsInit /\ TermInit /\ BrowserInit
  /\ fsDisk["out"] = "old" /\ fsDisk["home"] = "dir" /\ fsDisk["attic"] = "absent"
  /\ PluginInit /\ DeviceInit /\ ClipInit /\ CacheInit /\ AiInit
  /\ UpdInit /\ VaultInit /\ ConfigInit /\ NoticesInit /\ SpoolInit /\ MemoryCacheInit /\ ControlInit
  /\ focus \in {"lifecycle", "ipc", "queue", "store", "files", "terminal",
                "browser", "plugins", "device", "clipboard", "cache", "inference", "updates",
                "vault", "config", "notices", "spool", "memory", "link", "relay",
                "commands"}

LifecycleMoves ==
  /\ focus = "lifecycle" /\ LifecycleNext
  /\ InOrder(Two, Untouched(boot', "idle")) /\ InOrder(Two, Untouched(halt', "idle"))
  /\ UNCHANGED <<focus, otherVars, ipcVars, queueVars, storeVars, fsVars, termVars, browserVars,
                 pluginVars, deviceVars, clipVars, cacheVars, aiVars>>
IpcMoves ==
  /\ focus = "ipc" /\ IpcNext /\ beats' = 0 /\ Effort <= 5
  /\ InOrder(Two, Untouched(boot', "idle")) /\ InOrder(Two, Untouched(halt', "idle"))
  /\ InOrder(Two, Untouched(sock', "none")) /\ InOrder(Two, {r \in Requests : req'[r].phase = "unsent"})
  /\ \A r \in Requests : \/ req'[r].method \in {"none", "filesystem.writeFile"}
                         \/ \A q \in Requests \ {r} : req'[q].phase = "unsent"
  /\ UNCHANGED <<focus, otherVars, queueVars, storeVars, fsVars, termVars, browserVars,
                 pluginVars, deviceVars, clipVars, cacheVars, aiVars>>
QueueMoves ==
  /\ focus = "queue" /\ QueueNext
  /\ UNCHANGED <<focus, otherVars, lifecycleVars, ipcVars, storeVars, fsVars, termVars, browserVars,
                 pluginVars, deviceVars, clipVars, cacheVars, aiVars>>
StoreMoves ==
  /\ focus = "store" /\ StoreNext
  /\ calls' > 0 => call'[1].key = "k"   \* the keys are alike
  /\ crashes' + faults' + calls' <= 4
  /\ UNCHANGED <<focus, otherVars, lifecycleVars, ipcVars, queueVars, fsVars, termVars, browserVars,
                 pluginVars, deviceVars, clipVars, cacheVars, aiVars>>
FilesMoves ==
  /\ focus = "files" /\ FsNext /\ InOrder(Two, IdleIn(fsCall'))
  \* the jail changes only as long as no call has got past its lease
  /\ fsJail' # fsJail => \A c \in FsCalls : fsCall[c].phase \in {"idle", "leasing"}
  \* a call that only reads runs alone
  /\ \A c \in FsCalls : fsCall'[c].kind \in {"read", "stat", "list"} =>
                         \A d \in FsCalls \ {c} : fsCall'[d] = Unasked
  \* beside one that has to do with a directory, the other writes or deletes the file in it
  /\ \A c \in FsCalls : {fsCall'[c].from, fsCall'[c].at} \cap Directories # {} =>
       \A d \in FsCalls \ {c} : fsCall'[d].kind \in {Unasked.kind, "write", "delete"} /\ fsCall'[d].at \in {Unasked.at, "in"}
  /\ UNCHANGED <<focus, otherVars, lifecycleVars, ipcVars, queueVars, storeVars, termVars, browserVars,
                 pluginVars, deviceVars, clipVars, cacheVars, aiVars>>
TerminalMoves ==
  /\ focus = "terminal" /\ TermNext /\ InOrder(Two, Untouched(termCall', "idle"))
  /\ \A s \in Streams : emitted'["c2"][s] = 0   \* one of the two commands writes
  /\ UNCHANGED <<focus, otherVars, lifecycleVars, ipcVars, queueVars, storeVars, fsVars, browserVars,
                 pluginVars, deviceVars, clipVars, cacheVars, aiVars>>
BrowserMoves ==
  /\ focus = "browser" /\ BrowserNext /\ InOrder(Three, IdleIn(browserCall'))
  /\ browserCall'["c3"].phase = "leasing" => browserCall'["c1"].phase # "leasing"
  /\ UNCHANGED <<focus, otherVars, lifecycleVars, ipcVars, queueVars, storeVars, fsVars, termVars,
                 pluginVars, deviceVars, clipVars, cacheVars, aiVars>>
PluginsMoves ==
  /\ focus = "plugins" /\ PluginNext /\ InOrder(Three, IdleIn(pluginCall'))
  /\ UNCHANGED <<focus, otherVars, lifecycleVars, ipcVars, queueVars, storeVars, fsVars, termVars,
                 browserVars, deviceVars, clipVars, cacheVars, aiVars>>
DeviceMoves ==
  /\ focus = "device" /\ DeviceNext /\ InOrder(Three, IdleIn(deviceCall'))
  /\ deviceCall'["c3"].op \in {"none", "clipboard.write"}
  /\ UNCHANGED <<focus, otherVars, lifecycleVars, ipcVars, queueVars, storeVars, fsVars, termVars,
                 browserVars, pluginVars, clipVars, cacheVars, aiVars>>
ClipMoves ==
  /\ focus = "clipboard" /\ ClipNext
  /\ UNCHANGED <<focus, otherVars, lifecycleVars, ipcVars, queueVars, storeVars, fsVars, termVars,
                 browserVars, pluginVars, deviceVars, cacheVars, aiVars>>
LocalAiMoves ==
  /\ focus \in {"cache", "inference"} /\ AiNext
  /\ InOrder(Two, IdleIn(acq')) /\ InOrder(Three, IdleIn(inference'))
  /\ \/ focus = "cache" /\ Working <= 1
     \/ /\ focus = "inference" /\ Acquiring <= 1 /\ (Working > 0 => Acquired)
        /\ \A i \in Inferences : inference'[i].model # "m2"
  /\ UNCHANGED <<focus, otherVars, lifecycleVars, ipcVars, queueVars, storeVars, fsVars, termVars,
                 browserVars, pluginVars, deviceVars, clipVars>>
UpdatesMoves ==
  /\ focus = "updates" /\ UpdNext /\ InOrder(Four, IdleIn(updCall'))
  /\ updCall'["c3"].phase # "idle" => updCall'["c1"].phase = "over" /\ overlapped' = {}
  \* the fourth is an activation that overlaps with another, of the same release
  /\ updCall'["c4"].phase # "idle" => /\ updCall'["c3"].phase = "over" /\ "c4" \in contended'
                                      /\ currentManifest' # "r2"
  \* the package is that of the release that was checked
  /\ \A c \in UpdateCalls : updCall[c].phase = "idle" /\ updCall'[c].phase = "writing" =>
                               updCall'[c].package = verifiedManifestId
  /\ UNCHANGED <<focus, serviceVars, vaultVars, configVars, noticeVars, spoolVars, memoryCacheVars, controlVars>>
VaultMoves ==
  /\ focus = "vault" /\ VaultNext /\ InOrder(Three, Untouched(secretCall', NoSecretCall))
  \* db and copy are alike: the first call is for db or api, the last for one of the two
  /\ secretCall'["c1"].ref # "copy" /\ secretCall'["c3"].ref # "api"
  /\ UNCHANGED <<focus, serviceVars, updVars, configVars, noticeVars, spoolVars, memoryCacheVars, controlVars>>
ConfigMoves ==
  /\ focus = "config" /\ ConfigNext /\ InOrder(Three, IdleIn(configCall'))
  /\ UNCHANGED <<focus, serviceVars, updVars, vaultVars, noticeVars, spoolVars, memoryCacheVars, controlVars>>
NoticesMoves ==
  /\ focus = "notices" /\ NoticesNext
  /\ locked' => dueNotices' = {} /\ \A i \in DOMAIN notices' : ~notices'[i].read
  /\ UNCHANGED <<focus, serviceVars, updVars, vaultVars, configVars, spoolVars, memoryCacheVars, controlVars>>
SpoolMoves ==
  /\ focus = "spool" /\ SpoolNext /\ InOrder(<<"x", "y", "z">>, Events \ tracked')
  /\ UNCHANGED <<focus, serviceVars, updVars, vaultVars, configVars, noticeVars, memoryCacheVars, controlVars>>
MemoryMoves ==
  /\ focus = "memory" /\ MemoryCacheNext
  /\ InOrder(Two, IdleIn(cacheClear')) /\ expired' \subseteq {"p1", "p4"}
  /\ UNCHANGED <<focus, serviceVars, updVars, vaultVars, configVars, noticeVars, spoolVars, controlVars>>
ControlMoves ==
  /\ \/ focus = "link" /\ LinkNext /\ eventSpool' = {} /\ relay'["a"] = NoRelay
     \/ focus = "relay" /\ LinkNext /\ startCall'["c2"] = NoStart /\ ~cutOff' /\ ~released'
     \/ focus = "commands" /\ CommandNext
  /\ UNCHANGED <<focus, serviceVars, updVars, vaultVars, configVars, noticeVars, spoolVars, memoryCacheVars>>

Next ==
  \/ LifecycleMoves \/ IpcMoves \/ QueueMoves \/ StoreMoves \/ FilesMoves \/ TerminalMoves
  \/ BrowserMoves \/ PluginsMoves \/ DeviceMoves \/ ClipMoves \/ LocalAiMoves
  \/ UpdatesMoves \/ VaultMoves \/ ConfigMoves \/ NoticesMoves \/ SpoolMoves
  \/ MemoryMoves \/ ControlMoves

vars == <<focus, serviceVars, otherVars>>
Spec == Init /\ [][Next]_vars

\* What tells two states apart: the variables of the other services never change.
View ==
  CASE focus = "lifecycle" -> <<focus, lifecycleVars>>
    [] focus = "ipc"       -> <<focus, lifecycleVars, ipcVars>>
    [] focus = "queue"     -> <<focus, queueVars>>
    [] focus = "store"     -> <<focus, storeVars>>
    [] focus = "files"     -> <<focus, fsVars>>
    [] focus = "terminal"  -> <<focus, termVars>>
    [] focus = "browser"   -> <<focus, browserVars>>
    [] focus = "plugins"   -> <<focus, pluginVars>>
    [] focus = "device"    -> <<focus, deviceVars>>
    [] focus = "clipboard" -> <<focus, clipVars>>
    [] focus = "updates"   -> <<focus, updVars>>
    [] focus = "vault"     -> <<focus, vaultVars>>
    [] focus = "config"    -> <<focus, configVars>>
    [] focus = "notices"   -> <<focus, noticeVars>>
    [] focus = "spool"     -> <<focus, spoolVars>>
    [] focus = "memory"    -> <<focus, memoryCacheVars>>
    [] focus \in {"link", "relay", "commands"} -> <<focus, controlVars>>
    [] OTHER               -> <<focus, cacheVars, aiVars>>
=============================================================================
