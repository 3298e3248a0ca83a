----------------------------- MODULE MCRunStore -----------------------------
(* A run with a plan of two tasks, b after a; a replacement version keeps a, *)
(* drops b and adds c, another turns the dependency round, so that a task    *)
(* provisioned under one version waits for another under the next; a fourth  *)
(* version is rejected by validation.                                        *)
EXTENDS RunStore, TLC

CONSTANTS a, b, c, p1, p2, p3, bad

MCTasks == {a, b, c}
MCPlans == {p1, p2, p3, bad}
MCTasksOf == p1 :> {a, b} @@ p2 :> {a, c} @@ p3 :> {a, b} @@ bad :> {a}
MCDeps == p1 :> (a :> {} @@ b :> {a} @@ c :> {})
          @@ p2 :> (a :> {} @@ b :> {} @@ c :> {a})
          @@ p3 :> (a :> {b} @@ b :> {} @@ c :> {})
          @@ bad :> (a :> {a} @@ b :> {} @@ c :> {})
MCAssignment == p1 :> [t \in MCTasks |-> "m1"]
                @@ p2 :> (a :> "m1" @@ b :> "m1" @@ c :> "m2")
                @@ p3 :> [t \in MCTasks |-> "m1"]
                @@ bad :> [t \in MCTasks |-> "m1"]
MCValidPlans == {p1, p2, p3}
=============================================================================
