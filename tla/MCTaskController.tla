--------------------------- MODULE MCTaskController ---------------------------
(* One single task and one task graph of two nodes.                        *)
EXTENDS TaskController

MCTasks == {"single", "graph"}
MCChecks == [t \in MCTasks |-> IF t = "graph" THEN 3 ELSE 1]
=============================================================================
