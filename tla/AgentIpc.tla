------------------------------- MODULE AgentIpc -------------------------------
(***************************************************************************)
(* The local IPC of the agent: the endpoint and its connections, the        *)
(* request pipeline of ipc-manager.ts with caller-auth.ts and               *)
(* rate-limiter.ts, and the method handlers agent.ts registers.             *)
(*                                                                         *)
(* A connection handles one request at a time (its socket is paused), but   *)
(* a handler that lost against the 15 s timer goes on behind the answer.    *)
(* What a handler does is abstracted to the gates it passes before it calls *)
(* its component; the component may answer, throw or hang.                  *)
(***************************************************************************)
EXTENDS AgentLifecycle, FiniteSets, FiniteSetsExt, TLC

CONSTANTS Requests, Conns,
          Methods,           \* the methods the requests of an instance call
          Scopes,            \* the scopes their leases may carry
          MaxConnections, MaxRequestsPerWindow, GlobalMaxRequestsPerWindow

VARIABLES sock,              \* per connection: "none", "open" or "closed"
          clients,           \* the endpoint's map of connections
          recent,            \* requests per client in the current window
          req                \* per request, how far it has come

ipcVars == <<sock, clients, recent, req>>

-----------------------------------------------------------------------------
(* The registered methods: those that call their component at once ...     *)
WorkMethods == {"task.execute", "task.cancel", "task.status",
                "workflow.execute", "workflow.cancel", "workflow.status"}
DesktopMethods == {"clipboard.read", "clipboard.write", "clipboard.clear", "ide.getContext",
                   "ide.applyDiff", "ide.getDiagnostics", "tray.getStatus", "tray.pause",
                   "tray.resume", "tray.getMenuDescriptors"}
VaultMethods == {"vault.resolveSecret", "vault.injectSecret", "vault.revokeSecret"}
UpkeepMethods == {"update.getStatus", "update.checkForUpdates", "update.downloadAndUpdate",
                  "update.stageAndActivate", "health.getReport", "health.checkReadiness",
                  "health.checkLiveness", "recovery.loadManifest", "recovery.reconcile",
                  "recovery.execute"}
ApprovalMethods == {"approval.presentPrompt", "approval.getPrompt", "approval.listPending",
                    "approval.submitDecision", "approval.cancelPrompt"}
RecordMethods == {"config.getActive", "config.applyUpdate", "config.rollback", "state.getRecord",
                  "state.setRecord", "state.deleteRecord", "state.getStatus",
                  "telemetry.trackMetric", "telemetry.trackTrace", "telemetry.flush",
                  "telemetry.getMetrics", "telemetry.exportDiagnosticBundle"}
NotificationMethods == {"notification.listPending", "notification.markRead",
                        "notification.executeAction", "notification.getMetrics",
                        "notification.setLockScreen"}
BuiltIn == {"ping", "agent.status"}

(* ... those that look at the lifecycle first ...                           *)
DeviceExecution == {"device.execute"}
DeviceQueries == {"device.queryInfo", "device.getPosture"}
NotificationDispatch == {"notification.dispatch"}
LifecycleMethods == DeviceExecution \cup DeviceQueries \cup NotificationDispatch

(* ... and those that also validate the lease of the request and look for  *)
(* one of these words in its scopes ({}: any scope will do).               *)
Write == {"write", "admin", "*"}
Read == Write \cup {"read"}
Unscoped(methods) == [m \in methods |-> {}]
Scoped(methods, words) == [m \in methods |-> words]

FilesystemReads  == Unscoped({"filesystem.readFile", "filesystem.listDirectory", "filesystem.statFile"})
FilesystemCopies == Unscoped({"filesystem.copyFile", "filesystem.moveFile"})
FilesystemWrite  == Scoped({"filesystem.writeFile"}, Write)
FilesystemDelete == Scoped({"filesystem.deleteFile"}, Write)
TerminalRuns     == Scoped({"terminal.executeCommand", "terminal.killProcess"}, Write)
TerminalLists    == Unscoped({"terminal.listProcesses"})
BrowserOpens     == Scoped({"browser.createSession", "browser.navigate"}, Write)
BrowserReads     == Scoped({"browser.extractContent"}, Read)
BrowserActs      == Scoped({"browser.interactForm"}, Write)
BrowserCaptures  == Scoped({"browser.captureScreenshot"}, Read)
BrowserTransfers == Scoped({"browser.downloadFile", "browser.uploadFile"}, Write)
BrowserClears    == Scoped({"browser.clearSession"}, Write)
BrowserLists     == Unscoped({"browser.listSessions"})
PluginVerifies   == Unscoped({"plugin.verify"})
PluginInstalls   == Scoped({"plugin.install"}, Write \cup {"plugin:install"})
                    @@ Scoped({"plugin.activate"}, Write \cup {"plugin:activate"})
PluginInvokes    == Scoped({"plugin.invoke"}, Write \cup {"plugin:invoke", "plugin:capability"})
PluginSuspends   == Scoped({"plugin.suspend"}, Write \cup {"plugin:suspend"})
                    @@ Scoped({"plugin.quarantine"}, Write \cup {"plugin:quarantine"})
PluginLists      == Unscoped({"plugin.listEntries", "plugin.listQuarantined"})
LocalAiGenerates == Scoped({"localAi.generate"}, {"*", "admin", "ai:write", "ai:inference"})
LocalAiReads     == Scoped({"localAi.listModels", "localAi.getHardwareProfile"},
                           {"*", "admin", "ai:read", "ai:inference", "ai:write"})
LocalAiUnloads   == Scoped({"localAi.unloadModel"}, {"*", "admin", "ai:write"})

ScopeWords ==
  FilesystemReads @@ FilesystemCopies @@ FilesystemWrite @@ FilesystemDelete @@ TerminalRuns
  @@ TerminalLists @@ BrowserOpens @@ BrowserReads @@ BrowserActs @@ BrowserCaptures
  @@ BrowserTransfers @@ BrowserClears @@ BrowserLists @@ PluginVerifies @@ PluginInstalls
  @@ PluginInvokes @@ PluginSuspends @@ PluginLists @@ LocalAiGenerates @@ LocalAiReads
  @@ LocalAiUnloads
LeasedMethods == DOMAIN ScopeWords
AllMethods ==
  BuiltIn \cup WorkMethods \cup DesktopMethods \cup VaultMethods \cup UpkeepMethods
  \cup ApprovalMethods \cup RecordMethods \cup NotificationMethods \cup LifecycleMethods
  \cup LeasedMethods

ASSUME IpcAssumption ==
  /\ Methods \subseteq AllMethods \cup {"unknown"}
  /\ {MaxConnections, MaxRequestsPerWindow, GlobalMaxRequestsPerWindow} \subseteq Nat \ {0}

Unsent == [conn |-> "none", method |-> "none", lease |-> "none",
           phase |-> "unsent", vetted |-> {}, answer |-> "none"]

IpcInit ==
  /\ LifecycleInit
  /\ sock = [c \in Conns |-> "none"] /\ clients = {}
  /\ recent = [c \in Conns |-> 0]
  /\ req = [r \in Requests |-> Unsent]

-----------------------------------------------------------------------------
(* The endpoint.                                                            *)

\* The server accepts: it listens, and no stop() has closed it.
Accepting == ipc = "LISTENING" /\ \A t \in Stops : halt[t] # "closing"

\* handleNewConnection: over the ceiling the socket is destroyed at once.
Accept(c) ==
  /\ Accepting /\ sock[c] = "none"
  /\ IF Cardinality(clients) >= MaxConnections
     THEN sock' = [sock EXCEPT ![c] = "closed"] /\ UNCHANGED clients
     ELSE sock' = [sock EXCEPT ![c] = "open"] /\ clients' = clients \cup {c}
  /\ UNCHANGED <<recent, req>>

\* The socket was idle for too long, failed, or was closed by its peer.
Disconnected(c) ==
  /\ sock[c] = "open"
  /\ sock' = [sock EXCEPT ![c] = "closed"] /\ clients' = clients \ {c}
  /\ UNCHANGED <<recent, req>>

\* The requests whose answer the connection waits for, and whether one is.
Pending(c) == {r \in Requests : req[r].conn = c /\ req[r].answer = "pending"}

\* A frame that is too long, malformed or of another version: an error frame,
\* then the socket is closed.  The map still has it until the close event.
BadFrame(c) ==
  /\ sock[c] = "open" /\ Pending(c) = {}
  /\ sock' = [sock EXCEPT ![c] = "closed"]
  /\ UNCHANGED <<clients, recent, req>>

CloseEvent(c) ==
  /\ sock[c] = "closed" /\ c \in clients /\ clients' = clients \ {c}
  /\ UNCHANGED <<sock, recent, req>>

\* endpoint.stop of the stop() that closes the endpoint, and the limiter's reset.
CloseAll(t) ==
  /\ Drained(t)
  /\ IF ipc = "STOPPED" THEN UNCHANGED <<sock, clients>>
     ELSE /\ sock' = [c \in Conns |-> IF c \in clients THEN "closed" ELSE sock[c]]
          /\ clients' = {}
  /\ UNCHANGED <<recent, req>>
EndpointClosed(t) ==
  Closed(t) /\ recent' = [c \in Conns |-> 0] /\ UNCHANGED <<sock, clients, req>>

-----------------------------------------------------------------------------
(* The pipeline of handleRequest.                                           *)

\* client.send: nothing is written to a socket that is closed.
Answered(r) == IF sock[req[r].conn] = "open" THEN "sent" ELSE "lost"

\* The request is over; its answer is sent unless the timer was first.
Finish(r) ==
  LET answer == IF req[r].answer = "pending" THEN Answered(r) ELSE req[r].answer
  IN req' = [req EXCEPT ![r] = [@ EXCEPT !.phase = "over", !.method = "none", !.lease = "none",
                                         !.vetted = {}, !.answer = answer]]
GoTo(r, phase, checks) ==
  req' = [req EXCEPT ![r].phase = phase, ![r].vetted = @ \cup checks]

\* isRateLimited: the window of the client and the one of the endpoint.
RateLimited(c) ==
  \/ MapThenSumSet(LAMBDA d : recent[d], Conns) >= GlobalMaxRequestsPerWindow
  \/ recent[c] >= MaxRequestsPerWindow

\* A frame with a request: refused unless the agent is READY (a ping is not),
\* or when the limiter says so; else the caller is authenticated (await).  One
\* lease stands for params.lease and params.leaseHeader.
Receive(r, c, method, lease) ==
  LET sent == [Unsent EXCEPT !.conn = c, !.method = method, !.lease = lease,
                             !.phase = "auth", !.answer = "pending"]
      refused == [Unsent EXCEPT !.conn = c, !.phase = "over", !.answer = "sent"]
      unready == method # "ping" /\ lifecycle # "READY"
  IN /\ req[r].phase = "unsent" /\ sock[c] = "open" /\ c \in clients /\ Pending(c) = {}
     /\ req' = [req EXCEPT ![r] = IF unready \/ RateLimited(c) THEN refused
                                  ELSE [sent EXCEPT !.vetted = IF method = "ping" THEN {} ELSE {"ready"}]]
     /\ recent' = IF unready \/ RateLimited(c) THEN recent ELSE [recent EXCEPT ![c] = @ + 1]
     /\ UNCHANGED <<sock, clients>>

\* authenticateCaller: a caller with a token has the ipc:execute scope, one
\* without it has not.
CallerScopes == {{}, {"token"}}

\* The caller is authenticated, then the method must be registered.
Authenticated(r) ==
  /\ req[r].phase = "auth"
  /\ \/ Finish(r)
     \/ req[r].method \in AllMethods /\ \E scope \in CallerScopes : GoTo(r, "authz", scope)
  /\ UNCHANGED <<sock, clients, recent>>

\* authorizeAction: built-in methods are free; else a valid lease, or the
\* ipc:execute scope that a token gives.
Authorizes(r) == req[r].method \in BuiltIn \/ req[r].lease = "valid" \/ "token" \in req[r].vetted

Authorized(r) ==
  /\ req[r].phase = "authz"
  /\ IF ~Authorizes(r) THEN Finish(r)
     ELSE GoTo(r, "entered", IF req[r].lease = "valid" THEN {"lease"} ELSE {})
  /\ UNCHANGED <<sock, clients, recent>>

\* The handler, after its request schema: the lifecycle check where there is
\* one (throwing), and where a lease is asked for, its validation (await).
HandlerEntered(r) ==
  /\ req[r].phase = "entered"
  /\ IF req[r].method \in LeasedMethods \cup LifecycleMethods
     THEN \/ lifecycle \in Down /\ Finish(r)
          \/ /\ lifecycle \notin Down
             /\ GoTo(r, IF req[r].method \in LeasedMethods THEN "leasing" ELSE "running", {"up"})
     ELSE GoTo(r, "running", {})
  /\ UNCHANGED <<sock, clients, recent>>

\* A plausible slip: the scopes are read and the lease decision is not.
LeasesByScope(r, scopes) ==
  ScopeWords[req[r].method] = {} \/ ScopeWords[req[r].method] \cap scopes # {}

\* validateLease says yes and the scopes hold one of the words asked for.
Leases(r, scopes) ==
  /\ req[r].lease = "valid"
  /\ ScopeWords[req[r].method] = {} \/ ScopeWords[req[r].method] \cap scopes # {}

Leased(r) ==
  /\ req[r].phase = "leasing"
  /\ \E scopes \in SUBSET Scopes :
       IF Leases(r, scopes)
       THEN GoTo(r, "running", IF req[r].lease = "valid" THEN {"leaseHeader"} ELSE {})
       ELSE Finish(r)
  /\ UNCHANGED <<sock, clients, recent>>

\* The component answers or throws.
Return(r) ==
  req[r].phase = "running" /\ Finish(r) /\ UNCHANGED <<sock, clients, recent>>

\* The 15 s timer wins the race; the handler goes on.
Timeout(r) ==
  /\ req[r].phase \in {"entered", "leasing", "running"} /\ req[r].answer = "pending"
  /\ req' = [req EXCEPT ![r].answer = Answered(r)]
  /\ UNCHANGED <<sock, clients, recent>>

\* Environment: a lease expires, a request leaves the limiter's window.
Expires(r) ==
  /\ req[r].lease = "valid" /\ req[r].phase \in {"auth", "authz", "entered", "leasing"}
  /\ req' = [req EXCEPT ![r].lease = "expired"]
  /\ UNCHANGED <<sock, clients, recent>>
WindowMoves(c) ==
  recent[c] > 0 /\ recent' = [recent EXCEPT ![c] = @ - 1] /\ UNCHANGED <<sock, clients, req>>

-----------------------------------------------------------------------------
RequestStep(r) == Authenticated(r) \/ Authorized(r) \/ HandlerEntered(r) \/ Leased(r)
EndpointStep(c) == Accept(c) \/ Disconnected(c) \/ BadFrame(c) \/ CloseEvent(c) \/ WindowMoves(c)

IpcNext ==
  \/ /\ \/ \E s \in Starts : Start(s) \/ StartStep(s)
        \/ \E t \in Stops : Stop(t) \/ Left(t)
        \/ Beat \/ BeatFails \/ BeatOk
     /\ UNCHANGED ipcVars
  \/ \E t \in Stops : CloseAll(t) \/ EndpointClosed(t)
  \/ \E c \in Conns : EndpointStep(c) /\ UNCHANGED lifecycleVars
  \/ \E r \in Requests :
       /\ \/ RequestStep(r) \/ Return(r) \/ Timeout(r) \/ Expires(r)
          \/ \E c \in Conns, m \in Methods, l \in {"none", "valid"} : Receive(r, c, m, l)
       /\ UNCHANGED lifecycleVars

IpcSpec == IpcInit /\ [][IpcNext]_<<lifecycleVars, ipcVars>>

-----------------------------------------------------------------------------
(***************************************************************************)
(* A socket the endpoint accepted is in its map as long as it is open, so  *)
(* that stop() can close it (server.close waits for every open socket) and *)
(* the ceiling counts it; and a stopped endpoint has none.                 *)
(***************************************************************************)
SocketsTracked ==
  /\ {c \in Conns : sock[c] = "open"} \subseteq clients
  /\ Cardinality(clients) <= MaxConnections
  /\ ipc = "STOPPED" => \A c \in Conns : sock[c] # "open"

(***************************************************************************)
(* A component is only reached by a request that came while the agent was  *)
(* READY and was authorized by a token or by a lease valid at that moment; *)
(* if its handler has a lease gate, also with a lease that was valid when  *)
(* the handler validated it and while the agent was not going down when    *)
(* the handler was entered, a restart in between notwithstanding.          *)
(***************************************************************************)
EffectsAreVetted ==
  \A r \in Requests :
    req[r].phase = "running" =>
      LET m == req[r].method  v == req[r].vetted
      IN /\ m # "ping" => "ready" \in v
         /\ m \notin BuiltIn => v \cap {"token", "lease"} # {}
         /\ m \in LeasedMethods => {"up", "leaseHeader"} \subseteq v

(***************************************************************************)
(* The endpoint as a whole: every open socket is one that stop() closes    *)
(* (ipc-endpoint.ts), and whatever comes through one has passed the gates  *)
(* of its method (ipc-manager.ts, agent.ts).                               *)
(***************************************************************************)
EndpointIsGuarded == SocketsTracked /\ EffectsAreVetted
=============================================================================
