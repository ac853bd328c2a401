--------------------------- MODULE MCOrchestrator ---------------------------
(* Calls for one task: one that asks a human, its redelivery under the same *)
(* message key when the approval host is gone, and another, for two slots.  *)
(* The replay map holds two records and then loses one.                     *)
EXTENDS Orchestrator

MCTaskOf == [e \in Executions |-> "t"]
MCKeyOf == [e \in Executions |-> IF e = "again" THEN "ask" ELSE e]
MCApproval == [ask |-> "host", again |-> "nohost", plain |-> "none"]

\* The calls that are not made in this behaviour.
Absent == {e \in Executions : pc[e] = "done" /\ result[e] = None}
MCInit == \E coming \in {{"ask", "plain"}, {"ask", "again"}, Executions} : Started(coming)

\* When all three come nobody cancels or decides; a record grows old when the
\* message comes twice and no other does.
MCNext ==
  /\ Next
  /\ Absent = {} => canceled' = {} /\ UNCHANGED submission
  /\ "plain" \notin Absent => lapsed' = 0

MCSpec == MCInit /\ [][MCNext]_vars /\ Fairness
=============================================================================
