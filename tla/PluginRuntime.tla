---------------------------- MODULE PluginRuntime ----------------------------
(***************************************************************************)
(* The plugin runtime with its verifier, catalog, quarantine store and     *)
(* policy gateway (runtimes/plugin).                                       *)
(*                                                                         *)
(* Every operation is suspended while its lease is validated and then runs *)
(* in one piece, so that an operation asked for before a quarantine runs   *)
(* after it.  A package is what the verifier and the gateway tell apart.   *)
(***************************************************************************)
EXTENDS Naturals, FiniteSets

CONSTANTS Plugins, PluginCalls,
          Capabilities,
          MaxConcurrentHosts

PluginOps == {"verify", "install", "activate", "invoke", "suspend", "quarantine"}
Packages == [verifies : {"yes", "no"}, requested : SUBSET Capabilities]
NoEntry == [state |-> "UNREGISTERED", requested |-> {}]
NoPluginCall == [phase |-> "idle", op |-> "none", plugin |-> "none", granted |-> {}]

VARIABLES catalog,           \* per plugin: its state and the capabilities of its manifest
          quarantined,       \* the records of the quarantine store
          activeHostsCount,
          pluginCall         \* per call, how far it has come

pluginVars == <<catalog, quarantined, activeHostsCount, pluginCall>>

PluginInit ==
  /\ catalog = [p \in Plugins |-> NoEntry] /\ quarantined = {} /\ activeHostsCount = 0
  /\ pluginCall = [c \in PluginCalls |-> NoPluginCall]

-----------------------------------------------------------------------------
\* verifyPlugin: manifest, signature and capabilities of the package.
VerifyPlugin(pkg) == pkg.verifies = "yes"

\* registerPackage replaces the entry.
RegisterPackage(p, pkg) == catalog' = [catalog EXCEPT ![p] = [state |-> "INSTALLED", requested |-> pkg.requested]]

\* setPluginState: only for a registered plugin, and not out of quarantine into use.
SetPluginState(p, s) ==
  catalog' = [catalog EXCEPT ![p].state =
                IF @ = "UNREGISTERED" \/ (@ = "QUARANTINED" /\ s \in {"ACTIVATED", "INSTALLED"}) THEN @ ELSE s]

\* evaluateInvocation: declared in the manifest and granted by the lease.
EvaluateInvocation(c, capability) ==
  /\ capability \in catalog[pluginCall[c].plugin].requested
  /\ {capability, "invoke"} \cap pluginCall[c].granted # {}

\* The result or the refusal is returned.
PluginAnswered(c) == pluginCall' = [pluginCall EXCEPT ![c] = [NoPluginCall EXCEPT !.phase = "over"]]
UnchangedStores == UNCHANGED <<catalog, quarantined, activeHostsCount>>

-----------------------------------------------------------------------------
AskPlugin(c, op, p, granted) ==
  /\ pluginCall[c].phase = "idle"
  /\ pluginCall' = [pluginCall EXCEPT ![c] = [phase |-> "leasing", op |-> op, plugin |-> p, granted |-> granted]]
  /\ UnchangedStores

\* executeProtectedOperation: the lease and its scopes, then the action.
Scope(c) == {pluginCall[c].op, "invoke"} \cap pluginCall[c].granted # {}
DenyPlugin(c) == pluginCall[c].phase = "leasing" /\ PluginAnswered(c) /\ UnchangedStores
Runs(c, op) == pluginCall[c].phase = "leasing" /\ pluginCall[c].op = op /\ Scope(c)

VerifyPluginPackage(c) == Runs(c, "verify") /\ PluginAnswered(c) /\ UnchangedStores

\* A plausible slip: the quarantine was looked at before the lease was awaited.
InstallsUnchecked(c, pkg) ==
  /\ Runs(c, "install") /\ VerifyPlugin(pkg)
  /\ RegisterPackage(pluginCall[c].plugin, pkg)
  /\ PluginAnswered(c) /\ UNCHANGED <<quarantined, activeHostsCount>>

InstallPlugin(c, pkg) ==
  /\ Runs(c, "install") /\ VerifyPlugin(pkg) /\ pluginCall[c].plugin \notin quarantined
  /\ RegisterPackage(pluginCall[c].plugin, pkg)
  /\ PluginAnswered(c) /\ UNCHANGED <<quarantined, activeHostsCount>>

ActivatePlugin(c) ==
  /\ Runs(c, "activate")
  /\ pluginCall[c].plugin \notin quarantined /\ catalog[pluginCall[c].plugin] # NoEntry
  /\ SetPluginState(pluginCall[c].plugin, "ACTIVATED")
  /\ PluginAnswered(c) /\ UNCHANGED <<quarantined, activeHostsCount>>

\* The host count goes up and down around the (synchronous) host.
InvokePlugin(c, capability) ==
  LET p == pluginCall[c].plugin
  IN /\ Runs(c, "invoke")
     /\ p \notin quarantined /\ catalog[p].state = "ACTIVATED"
     /\ EvaluateInvocation(c, capability) /\ activeHostsCount < MaxConcurrentHosts
     /\ PluginAnswered(c) /\ UNCHANGED <<catalog, quarantined, activeHostsCount>>

SuspendPlugin(c) ==
  /\ Runs(c, "suspend") /\ SetPluginState(pluginCall[c].plugin, "SUSPENDED")
  /\ PluginAnswered(c) /\ UNCHANGED <<quarantined, activeHostsCount>>

\* The store first, then the catalog.
QuarantinePlugin(c) ==
  /\ Runs(c, "quarantine") /\ quarantined' = quarantined \cup {pluginCall[c].plugin}
  /\ SetPluginState(pluginCall[c].plugin, "QUARANTINED")
  /\ PluginAnswered(c) /\ UNCHANGED activeHostsCount

\* Stores' own operations, outside any lease.
LiftQuarantine(p) ==
  /\ p \in quarantined /\ quarantined' = quarantined \ {p}
  /\ UNCHANGED <<catalog, activeHostsCount, pluginCall>>
RemoveEntry(p) ==
  /\ catalog[p] # NoEntry /\ catalog' = [catalog EXCEPT ![p] = NoEntry]
  /\ UNCHANGED <<quarantined, activeHostsCount, pluginCall>>

PluginNext ==
  \/ \E c \in PluginCalls :
       \/ \E op \in PluginOps, p \in Plugins :
            \E scope \in {op, "invoke"} \cup Capabilities : AskPlugin(c, op, p, {scope})
       \/ DenyPlugin(c) \/ VerifyPluginPackage(c) \/ ActivatePlugin(c)
       \/ SuspendPlugin(c) \/ QuarantinePlugin(c)
       \/ \E pkg \in Packages : InstallPlugin(c, pkg)
       \/ \E capability \in Capabilities : InvokePlugin(c, capability)
  \/ \E p \in Plugins : LiftQuarantine(p) \/ RemoveEntry(p)

PluginSpec == PluginInit /\ [][PluginNext]_pluginVars

-----------------------------------------------------------------------------
(***************************************************************************)
(* A quarantine holds: while a plugin is in the quarantine store no        *)
(* operation, not even an install or an activation asked for before it,    *)
(* leaves the plugin in use in the catalog.                                *)
(***************************************************************************)
QuarantineHolds ==
  \A p \in quarantined : catalog[p].state \notin {"INSTALLED", "ACTIVATED"}
=============================================================================
