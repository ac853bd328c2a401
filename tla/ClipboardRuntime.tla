--------------------------- MODULE ClipboardRuntime ---------------------------
(***************************************************************************)
(* ClipboardRuntimeManager (runtimes/clipboard): leased reads and writes   *)
(* and the timer that clears a sensitive text.                             *)
(*                                                                         *)
(* A call of the provider takes effect at once; what follows its await     *)
(* runs later, in the order of the calls (one turn each of the event       *)
(* loop's queue).  Requests, the timer and the owner of the machine come   *)
(* at any time in between.  A text is named, its hash is the name.         *)
(* It is the agent's second way to a clipboard, beside DeviceRuntime, with *)
(* which it shares no state.                                               *)
(***************************************************************************)
EXTENDS DeviceRuntime, Sequences

CONSTANTS ClipWrites,        \* writeClipboard calls
          ClipTextOf,        \* the redacted text each writes
          ClipSensitive      \* those with isSensitive

ASSUME ClipAssumption ==
  {"none", "owner"} \cap ClipWrites = {} /\ ClipSensitive \subseteq ClipWrites

VARIABLES clipboard,         \* the provider's text and the write it comes from
          clipWrite,         \* per write: "idle", "leasing", "writing", "over"
          autoClearTimer,    \* the write it was set for, or "none"
          timerArmed,        \* the timer has not fired
          lastWrittenHash,
          clipTurns,         \* what awaits the provider, in order: <<step, write>>
          waived             \* history: writes whose clearing was called off

clipVars == <<clipboard, clipWrite, autoClearTimer, timerArmed, lastWrittenHash, clipTurns, waived>>

Empty == [text |-> "empty", from |-> "none"]

ClipInit ==
  /\ clipboard = Empty /\ clipWrite = [w \in ClipWrites |-> "idle"]
  /\ autoClearTimer = "none" /\ timerArmed = FALSE /\ lastWrittenHash = "none"
  /\ clipTurns = <<>> /\ waived = {}

ClearTimeout == autoClearTimer' = "none" /\ timerArmed' = FALSE
Later(step, w) == clipTurns' = Append(clipTurns, <<step, w>>)
Turn(step, w) == clipTurns # <<>> /\ Head(clipTurns) = <<step, w>>

-----------------------------------------------------------------------------
\* readClipboard changes nothing: the text is cut and redacted for its caller.
ReadClipboard == [text |-> clipboard.text, redacted |-> clipboard.from \in ClipSensitive]

WriteClipboard(w) ==
  /\ clipWrite[w] = "idle" /\ clipWrite' = [clipWrite EXCEPT ![w] = "leasing"]
  /\ UNCHANGED <<clipboard, autoClearTimer, timerArmed, lastWrittenHash, clipTurns, waived>>
\* The lease or the size refuses, or the provider throws.
WriteRefused(w) ==
  /\ clipWrite[w] = "leasing" /\ clipWrite' = [clipWrite EXCEPT ![w] = "over"]
  /\ UNCHANGED <<clipboard, autoClearTimer, timerArmed, lastWrittenHash, clipTurns, waived>>
WriteText(w) ==
  /\ clipWrite[w] = "leasing" /\ clipWrite' = [clipWrite EXCEPT ![w] = "writing"]
  /\ clipboard' = [text |-> ClipTextOf[w], from |-> w] /\ Later("written", w)
  /\ UNCHANGED <<autoClearTimer, timerArmed, lastWrittenHash, waived>>

\* The previous timer is cancelled, a sensitive text gets its own.
Arms(w) ==
  IF w \in ClipSensitive THEN autoClearTimer' = w /\ timerArmed' = TRUE ELSE ClearTimeout

Written(w) ==
  /\ Turn("written", w) /\ clipTurns' = Tail(clipTurns) /\ Arms(w)
  /\ lastWrittenHash' = ClipTextOf[w] /\ clipWrite' = [clipWrite EXCEPT ![w] = "over"]
  /\ UNCHANGED <<clipboard, waived>>

\* clearClipboard: timer and hash first, then the provider.
ClearClipboard ==
  /\ clipboard # Empty /\ clipboard' = Empty /\ ClearTimeout /\ lastWrittenHash' = "none"
  /\ UNCHANGED <<clipWrite, clipTurns, waived>>

\* cancelAutoClear and shutdown leave the text where it is.
CancelAutoClear ==
  /\ autoClearTimer # "none" /\ waived' = waived \cup {autoClearTimer} /\ ClearTimeout
  /\ UNCHANGED <<clipboard, clipWrite, lastWrittenHash, clipTurns>>
ClipShutdown ==
  /\ lastWrittenHash # "none" /\ lastWrittenHash' = "none" /\ ClearTimeout
  /\ waived' = waived \cup ({autoClearTimer} \ {"none"})
  /\ UNCHANGED <<clipboard, clipWrite, clipTurns>>

\* performAutoClear: the timer fires and the text is read ...
TimerFires ==
  /\ timerArmed /\ timerArmed' = FALSE
  /\ Later(IF clipboard.text = ClipTextOf[autoClearTimer] THEN "same" ELSE "other", autoClearTimer)
  /\ UNCHANGED <<clipboard, clipWrite, autoClearTimer, lastWrittenHash, waived>>
\* ... it was altered, or the provider throws ...
AutoClearGivesUp(w) ==
  /\ Turn("other", w) \/ Turn("same", w)
  /\ clipTurns' = Tail(clipTurns)
  /\ waived' = IF Turn("same", w) THEN waived \cup ({w, clipboard.from} \cap ClipWrites) ELSE waived
  /\ UNCHANGED <<clipboard, clipWrite, autoClearTimer, timerArmed, lastWrittenHash>>
\* ... or it is cleared, whatever the text is by now, and the timer with it.
AutoClear(w) ==
  /\ Turn("same", w) /\ clipboard' = Empty
  /\ clipTurns' = Append(Tail(clipTurns), <<"cleared", w>>)
  /\ UNCHANGED <<clipWrite, autoClearTimer, timerArmed, lastWrittenHash, waived>>
AutoCleared(w) ==
  /\ Turn("cleared", w) /\ clipTurns' = Tail(clipTurns)
  /\ lastWrittenHash' = "none" /\ ClearTimeout
  /\ UNCHANGED <<clipboard, clipWrite, waived>>

\* The owner of the machine copies something.
OwnerCopies ==
  /\ clipboard.from # "owner" /\ clipboard' = [text |-> "mine", from |-> "owner"]
  /\ UNCHANGED <<clipWrite, autoClearTimer, timerArmed, lastWrittenHash, clipTurns, waived>>

ClipNext ==
  \/ \E w \in ClipWrites :
       \/ WriteClipboard(w) \/ WriteRefused(w) \/ WriteText(w) \/ Written(w)
       \/ AutoClearGivesUp(w) \/ AutoClear(w) \/ AutoCleared(w)
  \/ ClearClipboard \/ CancelAutoClear \/ ClipShutdown \/ TimerFires \/ OwnerCopies

ClipSpec == ClipInit /\ [][ClipNext]_clipVars

-----------------------------------------------------------------------------
(***************************************************************************)
(* A sensitive text does not stay on the clipboard unwatched: once its     *)
(* write has returned, its timer is armed or its clearing is on the way,   *)
(* unless somebody called it off or the provider failed the clearing, and  *)
(* whatever other writes and clearings were suspended at the provider.     *)
(***************************************************************************)
SensitiveIsWatched ==
  LET w == clipboard.from
  IN w \in ClipSensitive /\ clipWrite[w] = "over" =>
       \/ w \in waived
       \/ timerArmed /\ ClipTextOf[autoClearTimer] = ReadClipboard.text
       \/ \E i \in DOMAIN clipTurns : clipTurns[i][1] = "same" /\ ClipTextOf[clipTurns[i][2]] = clipboard.text

(***************************************************************************)
(* What goes to a clipboard does not stay there: the one of the agent is   *)
(* empty while it is stopped, the one of the system is watched as long as  *)
(* it has a sensitive text (device/runtime.ts, clipboard-runtime.ts).      *)
(***************************************************************************)
ClipboardsContained == StopLeavesNothing /\ SensitiveIsWatched
=============================================================================
