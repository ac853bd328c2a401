---------------------------- MODULE BrowserRuntime ----------------------------
(***************************************************************************)
(* The browser runtime, its session manager and its URL checks             *)
(* (runtimes/browser), with the session limit of agent.ts.                 *)
(*                                                                         *)
(* A call is suspended while its lease is validated; the session is looked *)
(* up, checked and used in one piece after that.  Meanwhile other calls    *)
(* create and clear sessions and a shutdown clears them all.  A session is *)
(* named by the call that created it.  The syntax of URLs and paths is     *)
(* abstracted to the sets the checks accept.                               *)
(***************************************************************************)
EXTENDS Naturals, FiniteSets

CONSTANTS BrowserCalls, Callers,
          SessionTaskOf, SessionTenantOf, SessionWorkspaceOf, \* what the caller's lease names
          Urls, Blocked,     \* Blocked: bad syntax, credentials, scheme, local or private host
          Covers,            \* per allowlist pattern: the URLs whose host it matches
          SessionLimits      \* the maxConcurrentSessions a request may name (3 if it does not)

ASSUME BrowserAssumption == SessionLimits \subseteq Nat

VARIABLES sessions,          \* the calls whose session is in the manager's map
          ownerOf,           \* per session: the caller it was created for
          history,           \* per session: the URLs visited, with the caller
          profiles,          \* the profile directories on disk
          undeleted,         \* history: the profiles whose removal failed
          limitOf,           \* history: the limit of the request that created a session
          browserCall        \* per call, how far it has come

browserVars == <<sessions, ownerOf, history, profiles, undeleted, limitOf, browserCall>>

Browsing == {"navigate", "extract", "interact", "screenshot", "download", "upload", "clear"}
NoBrowserCall == [phase |-> "idle", op |-> "none", by |-> "none", on |-> "none", url |-> "none",
                  allowed |-> {}, limit |-> 0, result |-> "none"]

BrowserInit ==
  /\ sessions = {} /\ profiles = {} /\ undeleted = {}
  /\ ownerOf = [b \in BrowserCalls |-> "none"] /\ history = [b \in BrowserCalls |-> {}]
  /\ limitOf = [b \in BrowserCalls |-> 0]
  /\ browserCall = [b \in BrowserCalls |-> NoBrowserCall]

-----------------------------------------------------------------------------
\* matchesDomainPattern over the allowlist of the request.
MatchesDomainPattern(u, allowed) == \E p \in allowed : u \in Covers[p]

\* validateUrl, and validateRedirect for where a download is sent on to.
ValidateUrl(u, allowed) == u \notin Blocked /\ allowed # {} /\ MatchesDomainPattern(u, allowed)

\* Equal, or one of the two does not say.
Agrees(x, y, wild) == x = y \/ x \in wild \/ y \in wild

\* validateSessionAccess: the session exists and is the caller's.
ValidateSessionAccess(s, by) ==
  /\ s \in sessions
  /\ SessionTaskOf[ownerOf[s]] = SessionTaskOf[by]
  /\ Agrees(SessionTenantOf[ownerOf[s]], SessionTenantOf[by], {"default-tenant"})
  /\ Agrees(SessionWorkspaceOf[ownerOf[s]], SessionWorkspaceOf[by], {"default-workspace", "unassigned"})

\* buildDeniedResult, the FAILED receipt, or the receipt of a success: the call is over.
Answer(b, result) == browserCall' = [browserCall EXCEPT ![b] = [NoBrowserCall EXCEPT !.phase = "over", !.result = result]]

-----------------------------------------------------------------------------
\* browser.createSession of agent.ts: lifecycle and policy, then the lease.
AskSession(b, by, limit) ==
  /\ browserCall[b].phase = "idle"
  /\ browserCall' = [browserCall EXCEPT ![b].phase = "leasing", ![b].op = "create", ![b].by = by,
                                     ![b].limit = limit]
  /\ UNCHANGED <<sessions, ownerOf, history, profiles, undeleted, limitOf>>

\* A call is refused by its lease or its scopes.
RefuseBrowser(b) ==
  /\ browserCall[b].phase = "leasing" /\ Answer(b, "DENIED")
  /\ UNCHANGED <<sessions, ownerOf, history, profiles, undeleted, limitOf>>

\* A plausible slip: the limit is compared with the sessions of the caller only.
LimitPerCaller(b) == Cardinality({s \in sessions : ownerOf[s] = browserCall[b].by}) < browserCall[b].limit

\* listSessions().length against the limit the request names, after the lease.
BelowLimit(b) == Cardinality(sessions) < browserCall[b].limit

\* createSession: a profile directory and an entry.
CreateSession(b) ==
  /\ browserCall[b].phase = "leasing" /\ browserCall[b].op = "create" /\ BelowLimit(b)
  /\ sessions' = sessions \cup {b} /\ profiles' = profiles \cup {b}
  /\ ownerOf' = [ownerOf EXCEPT ![b] = browserCall[b].by]
  /\ limitOf' = [limitOf EXCEPT ![b] = browserCall[b].limit]
  /\ Answer(b, "SUCCESS") /\ UNCHANGED <<history, undeleted>>
AtLimit(b) ==
  /\ browserCall[b].phase = "leasing" /\ browserCall[b].op = "create" /\ ~BelowLimit(b)
  /\ Answer(b, "DENIED") /\ UNCHANGED <<sessions, ownerOf, history, profiles, undeleted, limitOf>>

\* An operation on a session, known or not; navigate checks its URL at once.
AskBrowser(b, op, by, s, u, allowed) ==
  /\ browserCall[b].phase = "idle"
  /\ op \in {"navigate", "download"} \/ (u = "none" /\ allowed = {})
  /\ IF op = "navigate" /\ ~ValidateUrl(u, allowed) THEN Answer(b, "DENIED")
     ELSE browserCall' = [browserCall EXCEPT ![b] =
            [phase |-> "leasing", op |-> op, by |-> by, on |-> s, url |-> u, allowed |-> allowed,
             limit |-> 0, result |-> "none"]]
  /\ UNCHANGED <<sessions, ownerOf, history, profiles, undeleted, limitOf>>

\* executeProtectedOperation comes to the session check ...
Admitted(b, op) ==
  /\ browserCall[b].phase = "leasing" /\ browserCall[b].op = op
  /\ ValidateSessionAccess(browserCall[b].on, browserCall[b].by)
NoAccess(b) ==
  /\ browserCall[b].phase = "leasing" /\ browserCall[b].op \in Browsing
  /\ ~ValidateSessionAccess(browserCall[b].on, browserCall[b].by)
  /\ Answer(b, "DENIED") /\ UNCHANGED <<sessions, ownerOf, history, profiles, undeleted, limitOf>>

\* ... and runs the operation.
UpdateSessionUrl(b) ==
  history' = [history EXCEPT ![browserCall[b].on] = @ \cup {<<browserCall[b].by, browserCall[b].url>>}]
Navigate(b) ==
  /\ Admitted(b, "navigate") /\ UpdateSessionUrl(b)
  /\ Answer(b, "SUCCESS") /\ UNCHANGED <<sessions, ownerOf, profiles, undeleted, limitOf>>
\* The content is cut to the limit.
ExtractContent(b) ==
  /\ Admitted(b, "extract") /\ Answer(b, "SUCCESS")
  /\ UNCHANGED <<sessions, ownerOf, history, profiles, undeleted, limitOf>>
\* A sensitive form is handed to the user.
InteractForm(b) ==
  /\ Admitted(b, "interact") /\ \E r \in {"SUCCESS", "INTERVENTION_REQUIRED"} : Answer(b, r)
  /\ UNCHANGED <<sessions, ownerOf, history, profiles, undeleted, limitOf>>
\* The destination is checked, the size bounded, the file written.
CaptureScreenshot(b) ==
  /\ Admitted(b, "screenshot") /\ \E r \in {"SUCCESS", "FAILED"} : Answer(b, r)
  /\ UNCHANGED <<sessions, ownerOf, history, profiles, undeleted, limitOf>>
\* The URL, where it redirects to, the destination and the size.
DownloadFile(b) ==
  /\ Admitted(b, "download")
  /\ \E redirect \in Urls \cup {"none"} :
       IF /\ ValidateUrl(browserCall[b].url, browserCall[b].allowed)
          /\ redirect = "none" \/ ValidateUrl(redirect, browserCall[b].allowed)
       THEN \E r \in {"SUCCESS", "FAILED"} : Answer(b, r) ELSE Answer(b, "FAILED")
  /\ UNCHANGED <<sessions, ownerOf, history, profiles, undeleted, limitOf>>
\* The source is checked and must exist.
UploadFile(b) ==
  /\ Admitted(b, "upload") /\ \E r \in {"SUCCESS", "FAILED"} : Answer(b, r)
  /\ UNCHANGED <<sessions, ownerOf, history, profiles, undeleted, limitOf>>

\* clearSession: the profile is removed if it can be, the entry always.
Clear(S) ==
  /\ sessions' = sessions \ S
  /\ \E stuck \in SUBSET (S \cap profiles) :
       profiles' = profiles \ (S \ stuck) /\ undeleted' = undeleted \cup stuck
ClearSession(b) ==
  /\ Admitted(b, "clear") /\ Clear({browserCall[b].on}) /\ Answer(b, "SUCCESS")
  /\ UNCHANGED <<ownerOf, history, limitOf>>

\* cleanupAbandonedSessions: those old enough, on shutdown all.
CleanupAbandonedSessions ==
  /\ sessions # {} /\ \E old \in SUBSET sessions \ {{}} : Clear(old)
  /\ UNCHANGED <<ownerOf, history, limitOf, browserCall>>

BrowserNext ==
  \/ \E b \in BrowserCalls :
       \/ \E by \in Callers, n \in SessionLimits : AskSession(b, by, n)
       \/ \E op \in Browsing, by \in Callers, s \in BrowserCalls \ {b}, u \in Urls \cup {"none"},
             allowed \in SUBSET DOMAIN Covers : AskBrowser(b, op, by, s, u, allowed)
       \/ RefuseBrowser(b) \/ CreateSession(b) \/ AtLimit(b) \/ NoAccess(b)
       \/ Navigate(b) \/ ExtractContent(b) \/ InteractForm(b) \/ CaptureScreenshot(b)
       \/ DownloadFile(b) \/ UploadFile(b) \/ ClearSession(b)
  \/ CleanupAbandonedSessions

BrowserSpec == BrowserInit /\ [][BrowserNext]_browserVars

-----------------------------------------------------------------------------
(***************************************************************************)
(* Sessions stay contained, whatever is created, cleared and shut down     *)
(* while other calls await their lease: the sessions listed are never more *)
(* than the limit that one of them was created under, although every       *)
(* request names its own; a profile directory on disk is that of a listed  *)
(* session or one whose removal failed; and what a session visited, its    *)
(* own task asked for and the URL checks allow.                            *)
(***************************************************************************)
SessionsContained ==
  /\ sessions # {} => \E s \in sessions : Cardinality(sessions) <= limitOf[s]
  /\ profiles = sessions \cup undeleted
  /\ \A s \in BrowserCalls : \A v \in history[s] :
       SessionTaskOf[v[1]] = SessionTaskOf[ownerOf[s]] /\ v[2] \notin Blocked
=============================================================================
