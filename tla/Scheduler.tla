----------------------------- MODULE Scheduler -----------------------------
(* The pure selection functions of scheduler.py over the states of the      *)
(* tasks of one plan.  Task IDs are compared only by their lexical Rank.    *)
EXTENDS Naturals, FiniteSets

CONSTANTS
  Rank,   \* Rank[t]: position of task t in lexical order
  Slots   \* max_parallel_workers

ASSUME SlotsAssumption == Slots \in Nat \ {0}

Unsuccessful == {"FAILED", "BLOCKED", "CANCELLED", "INTERRUPTED"}

\* Faulty variant: any dependency that succeeded is enough.
EligibleByOne(tasks, deps, states) ==
  {t \in tasks : /\ states[t] = "PENDING"
                 /\ deps[t] = {} \/ \E d \in deps[t] : states[d] = "SUCCEEDED"}

\* The pending tasks of the plan whose dependencies have all succeeded.
Eligible(tasks, deps, states) ==
  {t \in tasks : /\ states[t] = "PENDING"
                 /\ \A d \in deps[t] : states[d] = "SUCCEEDED"}

\* Faulty variant: an off-by-one in the slice.
ReadyTasksOneMore(tasks, deps, states) ==
  LET ready == Eligible(tasks, deps, states)
  IN {t \in ready : Cardinality({u \in ready : Rank[u] < Rank[t]}) <= Slots}

\* The first Slots of them in lexical order.
ReadyTasks(tasks, deps, states) ==
  LET ready == Eligible(tasks, deps, states)
  IN {t \in ready : Cardinality({u \in ready : Rank[u] < Rank[t]}) < Slots}

\* The pending tasks that can no longer run.
BlockedDependents(tasks, deps, states) ==
  {t \in tasks : /\ states[t] = "PENDING"
                 /\ \E d \in deps[t] : states[d] \in Unsuccessful}
=============================================================================
