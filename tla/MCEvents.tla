------------------------------ MODULE MCEvents ------------------------------
(* Two events of one table, with delays in two and in all three units; and *)
(* two tasks, one of them with a timeout, with an event in each table.     *)
EXTENDS Events

MCAppEvents == [b \in Builds |-> IF b = "tasks" THEN 1 ELSE 2]
MCDelays == [b \in Builds |-> CASE b = "near" -> {0, 1, 4}
                                [] b = "far" -> {1, 4, 15}
                                [] b = "tasks" -> {4}]
MCTasks == [b \in Builds |-> IF b = "tasks" THEN {"discovery", "response"} ELSE {}]
=============================================================================
