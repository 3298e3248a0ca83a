----------------------------- MODULE MCExecutor -----------------------------
(* One plan of four tasks, d after a and b; two executors and two slots.   *)
(* The lexical order separates a from b, so that a batch ends between them. *)
EXTENDS Executor, TLC

CONSTANTS a, b, c, d, p1, e1, e2

MCTasks == {a, b, c, d}
MCTasksOf == p1 :> MCTasks
MCDeps == p1 :> (a :> {} @@ b :> {} @@ c :> {} @@ d :> {a, b})
MCAssignment == p1 :> [t \in MCTasks |-> "m1"]
MCRank == a :> 1 @@ c :> 2 @@ b :> 3 @@ d :> 4
=============================================================================
