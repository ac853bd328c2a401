--------------------------- MODULE TerminalRuntime ---------------------------
(***************************************************************************)
(* The terminal runtime and its process supervisor (runtimes/terminal).    *)
(*                                                                         *)
(* A command is suspended while its lease is validated and while its child *)
(* runs.  The child's output, its end, the end of its pipes, the deadline, *)
(* a kill and a shutdown come in any order the operating system and the    *)
(* event loop allow: a child that has exited is not closed before the last *)
(* holder of its pipes is gone.  Output is counted, not stored.            *)
(***************************************************************************)
EXTENDS Naturals, FiniteSets

CONSTANTS Commands,
          MaxOutputSize,     \* maxOutputSizeBytes, per stream
          MaxEmitted         \* bound on what a child writes to a stream

ASSUME TerminalAssumption == MaxOutputSize \in Nat /\ MaxEmitted \in Nat

Streams == {"stdout", "stderr"}
ChunkSizes == 1..MaxEmitted

VARIABLES termCall,          \* per executeCommand: "idle", "leasing", "waiting", "over"
          termResult,        \* ... and how it ended
          child,             \* per command: "none", "alive", "exited" or "failed"
          signalled,         \* the children that were sent SIGKILL
          unkillable,        \* history: those the operating system would not let be killed
          activeProcesses,   \* the supervisor's table: its tokens
          status,            \* processInfo.status of a command
          deadline,          \* the commands whose timer is armed
          timedOut,
          emitted, kept,     \* per command and stream: written, and in the buffer
          truncated,
          killing            \* per command: a killProcess for it awaits its lease

termVars == <<termCall, termResult, child, signalled, unkillable, activeProcesses, status, deadline,
              timedOut, emitted, kept, truncated, killing>>

TermInit ==
  /\ termCall = [c \in Commands |-> "idle"] /\ termResult = [c \in Commands |-> "none"]
  /\ child = [c \in Commands |-> "none"] /\ status = [c \in Commands |-> "none"]
  /\ signalled = {} /\ unkillable = {} /\ activeProcesses = {} /\ deadline = {} /\ timedOut = {} /\ truncated = {}
  /\ emitted = [c \in Commands |-> [s \in Streams |-> 0]] /\ kept = emitted
  /\ killing = {}

UnchangedOutput == UNCHANGED <<emitted, kept, truncated>>

-----------------------------------------------------------------------------
ExecuteCommand(c) ==
  /\ termCall[c] = "idle" /\ termCall' = [termCall EXCEPT ![c] = "leasing"]
  /\ UNCHANGED <<termResult, child, signalled, unkillable, activeProcesses, status, deadline, timedOut, killing>>
  /\ UnchangedOutput

BuildDeniedResult(c) ==
  termCall' = [termCall EXCEPT ![c] = "over"] /\ termResult' = [termResult EXCEPT ![c] = "denied"]

\* The lease, its scopes, the allowlist, the argument vector, a shell flag or
\* the working directory refuse the command.
DenyCommand(c) ==
  /\ termCall[c] = "leasing" /\ BuildDeniedResult(c)
  /\ UNCHANGED <<child, signalled, unkillable, activeProcesses, status, deadline, timedOut, killing>>
  /\ UnchangedOutput

\* executeSupervisedProcess: the child, its table entry and its timer.
Spawn(c) ==
  /\ termCall[c] = "leasing" /\ termCall' = [termCall EXCEPT ![c] = "waiting"]
  /\ child' = [child EXCEPT ![c] = "alive"] /\ status' = [status EXCEPT ![c] = "RUNNING"]
  /\ activeProcesses' = activeProcesses \cup {c} /\ deadline' = deadline \cup {c}
  /\ UNCHANGED <<termResult, signalled, unkillable, timedOut, killing>> /\ UnchangedOutput

\* There is no child: spawn throws, or its error event takes entry and timer back.
SpawnFails(c) ==
  /\ termCall[c] = "leasing" /\ termCall' = [termCall EXCEPT ![c] = "over"]
  /\ termResult' = [termResult EXCEPT ![c] = "error"] /\ child' = [child EXCEPT ![c] = "failed"]
  /\ UNCHANGED <<signalled, unkillable, activeProcesses, status, deadline, timedOut, killing>>
  /\ UnchangedOutput

\* A plausible slip: a full buffer keeps taking whole chunks.
KeepsWhole(c, s, n) ==
  /\ kept' = [kept EXCEPT ![c][s] = @ + n]
  /\ truncated' = IF kept[c][s] + n > MaxOutputSize THEN truncated \cup {c} ELSE truncated

\* The data listener keeps what still fits.
Keep(c, s, n) ==
  IF kept[c][s] + n > MaxOutputSize
  THEN kept' = [kept EXCEPT ![c][s] = MaxOutputSize] /\ truncated' = truncated \cup {c}
  ELSE kept' = [kept EXCEPT ![c][s] = @ + n] /\ UNCHANGED truncated

\* A chunk of output, from the child or from a process that holds its pipes.
Data(c, s, n) ==
  /\ termCall[c] = "waiting" /\ emitted[c][s] + n <= MaxEmitted
  /\ emitted' = [emitted EXCEPT ![c][s] = @ + n] /\ Keep(c, s, n)
  /\ UNCHANGED <<termCall, termResult, child, signalled, unkillable, activeProcesses, status, deadline, timedOut, killing>>

\* terminateChild does nothing for a child that was killed before or has exited.
Killable(C) == {c \in C \ signalled : child[c] = "alive"}

\* The operating system may refuse the SIGKILL (a child that runs as another user):
\* then kill emits error, whose listener rejects the call, and the child lives on.
\* The listener also takes entry and timer back.
TerminateChild(C, refused) ==
  /\ refused \subseteq Killable(C)
  /\ signalled' = signalled \cup (Killable(C) \ refused) /\ unkillable' = unkillable \cup refused
  /\ termCall' = [c \in Commands |-> IF c \in refused THEN "over" ELSE termCall[c]]
  /\ termResult' = [c \in Commands |-> IF c \in refused THEN "error" ELSE termResult[c]]

Deadline(c) ==
  /\ c \in deadline /\ deadline' = deadline \ {c}
  /\ timedOut' = timedOut \cup {c} /\ status' = [status EXCEPT ![c] = "TIMED_OUT"]
  /\ \E refused \in SUBSET {c} :
       TerminateChild({c}, refused) /\ activeProcesses' = activeProcesses \ refused
  /\ UNCHANGED <<child, killing>> /\ UnchangedOutput

\* The operating system ends the child; a signal may come too late.
Exit(c) ==
  /\ child[c] = "alive" /\ child' = [child EXCEPT ![c] = "exited"]
  /\ \E code \in {"zero", "nonzero"} \cup (IF c \in signalled THEN {"signal"} ELSE {}) :
       termResult' = [termResult EXCEPT ![c] = IF c \in unkillable THEN @ ELSE code]
  /\ UNCHANGED <<termCall, signalled, unkillable, activeProcesses, status, deadline, timedOut, killing>>
  /\ UnchangedOutput

\* A command succeeds if it ended in time and with exit code 0.
CommandResult(c) ==
  CASE c \in timedOut -> "COMMAND_TIMEOUT"
    [] c \notin timedOut /\ termResult[c] = "zero" -> "success"
    [] OTHER -> "failed"

\* close: the last pipe is gone; the outcome becomes the result of the call.
CloseChild(c) ==
  /\ child[c] = "exited" /\ termCall[c] = "waiting" /\ termCall' = [termCall EXCEPT ![c] = "over"]
  /\ deadline' = deadline \ {c} /\ activeProcesses' = activeProcesses \ {c}
  /\ status' = [status EXCEPT ![c] = IF c \in timedOut THEN "TIMED_OUT" ELSE "EXITED"]
  /\ termResult' = [termResult EXCEPT ![c] = CommandResult(c)]
  /\ UNCHANGED <<child, signalled, unkillable, timedOut, killing>> /\ UnchangedOutput

\* killProcess by token: suspended at the lease, then the entry goes at once.
KillProcess(c) ==
  /\ c \notin killing /\ child[c] # "none" /\ killing' = killing \cup {c}
  /\ UNCHANGED <<termCall, termResult, child, signalled, unkillable, activeProcesses, status, deadline, timedOut>>
  /\ UnchangedOutput
KillRefused(c) ==
  /\ c \in killing /\ killing' = killing \ {c}
  /\ UNCHANGED <<termCall, termResult, child, signalled, unkillable, activeProcesses, status, deadline, timedOut>>
  /\ UnchangedOutput
\* killProcess and killAll: the entries of C.
KillEntries(C) ==
  /\ \E refused \in SUBSET C : TerminateChild(C, refused) /\ deadline' = deadline \ refused
  /\ activeProcesses' = activeProcesses \ C
  /\ status' = [c \in Commands |-> IF c \in C THEN "KILLED" ELSE status[c]]
  /\ UNCHANGED <<child, timedOut>> /\ UnchangedOutput
Kill(c) ==
  /\ c \in killing /\ killing' = killing \ {c}
  /\ KillEntries({c} \cap activeProcesses)

\* shutdown.  A command that still awaits its lease spawns its child afterwards.
KillAll ==
  /\ activeProcesses # {} /\ KillEntries(activeProcesses)
  /\ UNCHANGED killing

\* listProcesses: a copy of the table's entries.
ListProcesses == {status[c] : c \in activeProcesses}

TermNext ==
  \/ \E c \in Commands :
       \/ ExecuteCommand(c) \/ DenyCommand(c) \/ Spawn(c) \/ SpawnFails(c) \/ Deadline(c)
       \/ Exit(c) \/ CloseChild(c) \/ KillProcess(c) \/ KillRefused(c) \/ Kill(c)
       \/ \E s \in Streams, n \in ChunkSizes : Data(c, s, n)
  \/ KillAll

TermSpec == TermInit /\ [][TermNext]_termVars

-----------------------------------------------------------------------------
(***************************************************************************)
(* No child escapes: one that lives is in the table with its deadline      *)
(* armed, or has been sent SIGKILL, whatever timeouts, kills and a         *)
(* shutdown did to it, except one the operating system would not kill, and *)
(* its caller has the error; what the list shows is alive or about to      *)
(* close; and each buffer holds exactly as much as fits, with the          *)
(* truncation flag set iff something was dropped.                          *)
(***************************************************************************)
ChildrenSupervised ==
  /\ \A c \in Commands :
       child[c] = "alive" => \/ c \in activeProcesses \cap deadline
                             \/ c \in signalled
                             \/ c \in unkillable /\ termResult[c] = "error"
  /\ ListProcesses \subseteq {"RUNNING", "TIMED_OUT"}
  /\ \A c \in activeProcesses : termCall[c] = "waiting"
  /\ \A c \in Commands, s \in Streams :
       kept[c][s] = IF emitted[c][s] > MaxOutputSize THEN MaxOutputSize ELSE emitted[c][s]
  /\ truncated = {c \in Commands : \E s \in Streams : emitted[c][s] > MaxOutputSize}
=============================================================================
