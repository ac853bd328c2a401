---------------------------- MODULE Notifications ----------------------------
(***************************************************************************)
(* The notifications of the agent (notifications/): a bounded queue that   *)
(* prefers the urgent ones, coalesces those with the same key, hides them  *)
(* while the screen is locked, and is written to a file after every change *)
(* (if it was given a directory; the agent gives none).                    *)
(*                                                                         *)
(* Every call runs to its end.  What a notification says is named by the   *)
(* call (`of`); a coalesced item keeps the id of the one it replaces.      *)
(***************************************************************************)
EXTENDS Naturals, Sequences, FiniteSets, SeqSelection

CONSTANTS Notices,
          PriorityOf,           \* "LOW", "NORMAL", "HIGH" or "CRITICAL"
          CategoryOf,
          CoalesceKeyOf,        \* "none" or a key
          Expiring,             \* those with a ttlSeconds
          MaxNotices            \* maxCapacity

PriorityWeight == [CRITICAL |-> 4, HIGH |-> 3, NORMAL |-> 2, LOW |-> 1]

ASSUME NoticesAssumption ==
  /\ PriorityOf \in [Notices -> DOMAIN PriorityWeight]
  /\ MaxNotices \in Nat

VARIABLES notices,              \* items: Seq([id, of, hidden, read])
          noticesFull,          \* isQueueFull
          locked,               \* isLockScreenActive
          savedNotices,         \* the file
          dueNotices,           \* those whose time has come
          sent, taken,          \* history: the calls, those whose notice was accepted
          dropped               \* history: cleared, or not in the file at a crash

noticeVars == <<notices, noticesFull, locked, savedNotices, dueNotices, sent, taken, dropped>>

NoticesInit ==
  /\ notices = <<>> /\ noticesFull = FALSE /\ locked = FALSE /\ savedNotices = <<>>
  /\ dueNotices = {} /\ sent = {} /\ taken = {} /\ dropped = {}

Weight(n) == PriorityWeight[PriorityOf[n]]
Urgent(n) == PriorityOf[n] \in {"CRITICAL", "HIGH"}
HardMaxNotices == 2 * MaxNotices

\* The items change, and persistQueueToStorage writes them, after the contents `before`
\* that the same call wrote on its way.  A write that fails reports the queue full.
Persisted(before, items, full) ==
  /\ notices' = items
  /\ \/ savedNotices' = items /\ noticesFull' \in {full} \cup {TRUE : w \in before}
     \/ savedNotices' \in {savedNotices} \cup before /\ noticesFull' = TRUE

-----------------------------------------------------------------------------
(* purgeExpired, which every call of the queue but three begins with.      *)

Purged == ItemsAt(notices, {i \in DOMAIN notices : notices[i].of \notin dueNotices})
PurgedFull == noticesFull /\ Len(Purged) >= HardMaxNotices

PurgeExpired == Persisted({}, Purged, PurgedFull) /\ UNCHANGED <<locked, dueNotices, sent, taken, dropped>>

\* sanitizeAndRedact.
Redacted(item, lock) == [item EXCEPT !.hidden = lock /\ CategoryOf[item.of] # "SYSTEM_INFO"]

-----------------------------------------------------------------------------
(* notify: redact, purge, coalesce or make room, append.                   *)

Coalesces(n, item) == CoalesceKeyOf[n] # "none" /\ CoalesceKeyOf[item.of] = CoalesceKeyOf[n] /\ ~item.read
\* Only the first unread item of the key is looked at.
CoalescesAt(n) ==
  {i \in DOMAIN Purged : /\ Coalesces(n, Purged[i]) /\ \A j \in 1 .. i - 1 : ~Coalesces(n, Purged[j])
                         /\ Weight(n) >= Weight(Purged[i].of)}

\* A plausible slip: the oldest makes room, whatever it is.
OldestOf(items) == 1 .. (IF items = <<>> THEN 0 ELSE 1)

\* Where the oldest item is that is not urgent, if there is one.
Evictable(items) ==
  {i \in DOMAIN items : ~Urgent(items[i].of) /\ \A j \in 1 .. i - 1 : Urgent(items[j].of)}

Notify(n) ==
  LET item == Redacted([id |-> n, of |-> n, hidden |-> FALSE, read |-> FALSE], locked)
      crowd == Len(Purged) >= MaxNotices
      victims == IF crowd THEN Evictable(Purged) ELSE {}
      refused == crowd /\ (~Urgent(n) \/ (victims = {} /\ Len(Purged) >= HardMaxNotices))
  IN
  /\ n \notin sent /\ sent' = sent \cup {n}
  /\ \/ /\ CoalescesAt(n) # {}
        /\ \E i \in CoalescesAt(n) : Persisted({Purged}, [Purged EXCEPT ![i] = [item EXCEPT !.id = Purged[i].id]], PurgedFull)
        /\ taken' = taken \cup {n}
     \/ /\ CoalescesAt(n) = {} /\ refused
        /\ Persisted({}, Purged, PurgedFull \/ Urgent(n))
        /\ UNCHANGED taken
     \/ /\ CoalescesAt(n) = {} /\ ~refused
        /\ \/ victims = {} /\ Persisted({Purged}, Append(Purged, item), PurgedFull)
           \/ \E i \in victims : Persisted({Purged}, Append(Without(Purged, i), item), PurgedFull)
        /\ taken' = taken \cup {n}
  /\ UNCHANGED <<locked, dueNotices, dropped>>

-----------------------------------------------------------------------------
MarkedRead(items, id) == [i \in DOMAIN items |-> IF items[i].id = id THEN [items[i] EXCEPT !.read = TRUE] ELSE items[i]]

MarkRead(id) ==
  /\ \E i \in DOMAIN notices : notices[i].id = id
  /\ Persisted({}, MarkedRead(notices, id), noticesFull)
  /\ UNCHANGED <<locked, dueNotices, sent, taken, dropped>>
\* executeNotificationAction, once the action is authorized again.
ExecuteNotificationAction(id) ==
  /\ \E i \in DOMAIN Purged : Purged[i].id = id
  /\ Persisted({Purged}, MarkedRead(Purged, id), PurgedFull)
  /\ UNCHANGED <<locked, dueNotices, sent, taken, dropped>>

\* setLockScreenActive(true): what is pending is redacted item by item, each with a
\* write of its own; unlocking reveals nothing again.
LockScreen ==
  LET hidden(k) == [i \in DOMAIN Purged |-> IF i <= k THEN Redacted(Purged[i], TRUE) ELSE Purged[i]] IN
  /\ locked' = TRUE
  /\ Persisted({hidden(i - 1) : i \in {j \in DOMAIN Purged : ~Purged[j].hidden}}, hidden(Len(Purged)), PurgedFull)
  /\ UNCHANGED <<dueNotices, sent, taken, dropped>>
UnlockScreen == locked' = FALSE /\ UNCHANGED <<notices, noticesFull, savedNotices, dueNotices, sent, taken, dropped>>

ClearNotices ==
  /\ Persisted({}, <<>>, FALSE) /\ dropped' = dropped \cup taken
  /\ UNCHANGED <<locked, dueNotices, sent, taken>>

NoticeIsDue(n) ==
  /\ n \in sent \cap Expiring /\ n \notin dueNotices /\ dueNotices' = dueNotices \cup {n}
  /\ UNCHANGED <<notices, noticesFull, locked, savedNotices, sent, taken, dropped>>

\* The process dies; loadQueueFromStorage reads what was written last.
NoticesRestart ==
  /\ notices' = savedNotices /\ noticesFull' = FALSE /\ locked' = FALSE
  /\ dropped' = IF noticesFull THEN dropped \cup taken ELSE dropped
  /\ UNCHANGED <<savedNotices, dueNotices, sent, taken>>

NoticesNext ==
  \/ PurgeExpired \/ LockScreen \/ UnlockScreen \/ ClearNotices \/ NoticesRestart
  \/ \E n \in Notices : Notify(n) \/ MarkRead(n) \/ ExecuteNotificationAction(n) \/ NoticeIsDue(n)

NoticesSpec == NoticesInit /\ [][NoticesNext]_noticeVars

-----------------------------------------------------------------------------
(***************************************************************************)
(* What is urgent is kept: an urgent notice that was accepted stays until  *)
(* its time has come, the queue is cleared, or one that is as urgent takes *)
(* its place under the same key; a crash loses it only after the queue     *)
(* reported itself full.  The queue never outgrows its bounds, and only    *)
(* urgent notices go beyond the first.  While the screen is locked the     *)
(* message of a notice is hidden unless it is system information.          *)
(***************************************************************************)
NoticesAreKept ==
  /\ \A n \in (taken \ dropped) \ dueNotices : Urgent(n) =>
       \/ \E i \in DOMAIN notices : notices[i].of = n
       \/ \E m \in taken \ {n} : /\ CoalesceKeyOf[n] # "none" /\ CoalesceKeyOf[m] = CoalesceKeyOf[n]
                                 /\ Weight(m) >= Weight(n)
  /\ Len(notices) <= HardMaxNotices
  /\ Len(notices) > MaxNotices => \A i \in DOMAIN notices : Urgent(notices[i].of)
  /\ locked => \A i \in DOMAIN notices : notices[i].hidden \/ CategoryOf[notices[i].of] = "SYSTEM_INFO"
=============================================================================
