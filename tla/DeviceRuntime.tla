---------------------------- MODULE DeviceRuntime ----------------------------
(***************************************************************************)
(* The device runtime (runtimes/device/runtime.ts) and its clipboard       *)
(* adapter: operations under a concurrency limit, with the agent stopping  *)
(* and starting around them.                                               *)
(*                                                                         *)
(* An operation is suspended while its lease is validated and while its    *)
(* adapter works.  The text on the clipboard is the write that put it      *)
(* there.                                                                  *)
(***************************************************************************)
EXTENDS Integers, FiniteSets

CONSTANTS DeviceCalls,
          MaxConcurrentOperations,
          MaxDeviceStops     \* bound on the stops of the agent

ASSUME DeviceAssumption == MaxConcurrentOperations \in Nat

Operations == {"clipboard.read", "clipboard.write", "clipboard.clear", "device.queryInfo",
               "device.getPosture", "device.showNotification"}
Wildcards == {"capability:device", "*"}

VARIABLES agentState,        \* "READY", or "STOPPED" from the first step of stop() on
          deviceStops,
          activeOperationsCount,
          deviceClip,        \* clipboardContent of the adapter
          deviceCall,        \* per call, how far it has come
          outlived           \* history: the calls the last shutdown found at their adapter

deviceVars == <<agentState, deviceStops, activeOperationsCount, deviceClip, deviceCall, outlived>>

NoDeviceCall == [phase |-> "idle", op |-> "none", scope |-> "none"]
AtAdapter == {d \in DeviceCalls : deviceCall[d].phase = "adapter"}

DeviceInit ==
  /\ agentState = "READY" /\ deviceStops = 0 /\ activeOperationsCount = 0 /\ deviceClip = "none"
  /\ deviceCall = [d \in DeviceCalls |-> NoDeviceCall] /\ outlived = {}

IsLifecycleUnsafe == agentState = "STOPPED"

\* mapOperationToCapability: information and posture share one capability.
MapOperationToCapability(op) == IF op = "device.getPosture" THEN "device.queryInfo" ELSE op
HasScope(d) == deviceCall[d].scope \in {MapOperationToCapability(deviceCall[d].op)} \cup Wildcards

DeviceOver(d) == deviceCall' = [deviceCall EXCEPT ![d] = [NoDeviceCall EXCEPT !.phase = "over"]]

-----------------------------------------------------------------------------
\* execute up to the lease: lifecycle and schema refuse at once.
Execute(d, op, scope) ==
  /\ deviceCall[d].phase = "idle"
  /\ IF IsLifecycleUnsafe THEN DeviceOver(d)
     ELSE deviceCall' = [deviceCall EXCEPT ![d] = [phase |-> "leasing", op |-> op, scope |-> scope]]
  /\ UNCHANGED <<agentState, deviceStops, activeOperationsCount, deviceClip, outlived>>

\* The lease, its task or tenant refuse, or the payload is too large.
RefuseDevice(d) ==
  /\ deviceCall[d].phase = "leasing" /\ DeviceOver(d)
  /\ UNCHANGED <<agentState, deviceStops, activeOperationsCount, deviceClip, outlived>>

\* A plausible slip: the lifecycle is not looked at again after the lease.
DispatchesStale(d) ==
  HasScope(d) /\ activeOperationsCount < MaxConcurrentOperations

\* Scope, lifecycle and limit, in the piece that goes on to the adapter.
Dispatches(d) ==
  HasScope(d) /\ ~IsLifecycleUnsafe /\ activeOperationsCount < MaxConcurrentOperations

NotDispatched(d) ==
  /\ deviceCall[d].phase = "leasing" /\ ~Dispatches(d) /\ DeviceOver(d)
  /\ UNCHANGED <<agentState, deviceStops, activeOperationsCount, deviceClip, outlived>>

\* What the clipboard adapter holds after the operation.
ClipboardAfter(d) ==
  CASE deviceCall[d].op = "clipboard.write" -> d
    [] deviceCall[d].op = "clipboard.clear" -> "none"
    [] OTHER -> deviceClip

\* The operation is counted and calls its adapter.
Dispatch(d) ==
  /\ deviceCall[d].phase = "leasing" /\ Dispatches(d)
  /\ activeOperationsCount' = activeOperationsCount + 1
  /\ deviceCall' = [deviceCall EXCEPT ![d].phase = "adapter"]
  /\ deviceClip' = ClipboardAfter(d)
  /\ UNCHANGED <<agentState, deviceStops, outlived>>

\* The adapter answers or throws; in both cases the count goes down.
AdapterDone(d) ==
  /\ deviceCall[d].phase = "adapter" /\ activeOperationsCount' = activeOperationsCount - 1
  /\ DeviceOver(d) /\ UNCHANGED <<agentState, deviceStops, deviceClip, outlived>>

\* stop(): the lifecycle changes and shutdown runs in the same piece.
DeviceShutdown ==
  /\ agentState = "READY" /\ deviceStops < MaxDeviceStops /\ deviceStops' = deviceStops + 1
  /\ agentState' = "STOPPED" /\ activeOperationsCount' = 0 /\ deviceClip' = "none"
  /\ outlived' = AtAdapter
  /\ UNCHANGED deviceCall
DeviceRestart ==
  /\ agentState = "STOPPED" /\ agentState' = "READY"
  /\ UNCHANGED <<deviceStops, activeOperationsCount, deviceClip, deviceCall, outlived>>

DeviceNext ==
  \/ \E d \in DeviceCalls :
       \/ \E op \in Operations : \E scope \in {op, MapOperationToCapability(op), "*"} : Execute(d, op, scope)
       \/ RefuseDevice(d) \/ NotDispatched(d) \/ Dispatch(d) \/ AdapterDone(d)
  \/ DeviceShutdown \/ DeviceRestart

DeviceSpec == DeviceInit /\ [][DeviceNext]_deviceVars

-----------------------------------------------------------------------------
(***************************************************************************)
(* While the agent is stopped its clipboard stays empty, although calls    *)
(* that awaited their lease at the stop go on behind it; and the operation *)
(* count is exact but for the operations the last shutdown found running,  *)
(* each of which takes one off a count that no longer has it: only by as   *)
(* many can the limit be exceeded after a restart.                         *)
(***************************************************************************)
StopLeavesNothing ==
  /\ agentState = "STOPPED" => deviceClip = "none"
  /\ activeOperationsCount = Cardinality(AtAdapter) - Cardinality(outlived)
  /\ Cardinality(AtAdapter \ outlived) <= MaxConcurrentOperations + Cardinality(outlived \ AtAdapter)
=============================================================================
