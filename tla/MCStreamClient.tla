---- MODULE MCStreamClient ----
(* Two responses and one client. The view leaves out what cannot matter    *)
(* again: all of a response that has ended and that no attempt waits for,  *)
(* what was written to one that nobody reads any more, and the history of  *)
(* an earlier epoch.                                                       *)
EXTENDS StreamClient, TLC

Symmetry == Permutations(Conns)

Live(c) ==
    CASE task[c] = "idle" /\ conn[c].closed -> Idle
      [] task[c] = "idle" /\ ~conn[c].closed ->
            [conn[c] EXCEPT !.wire = <<>>, !.live = FALSE, !.from = 0,
                            !.cursor = IF conn[c].status = "ok" THEN NoCursor ELSE @]
      [] task[c] = "reading" -> [conn[c] EXCEPT !.live = FALSE, !.from = 0, !.cursor = NoCursor]
      [] OTHER -> conn[c]

History == IF cursor.epoch \in {0, epoch} THEN <<base, got>> ELSE <<0, {}>>

View == <<epoch, log, buffer, [c \in Conns |-> Live(c)], History,
          state, cursor, attempts, stopped, connecting, ctl, timers, task, aborted, calls>>
====
