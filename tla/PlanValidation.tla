-------------------------- MODULE PlanValidation --------------------------
(***************************************************************************)
(* validate_plan (validation.py): what a proposed plan must satisfy before *)
(* it may become a run.  Task IDs are numbers, in lexical order.  Roles    *)
(* and paths are abstracted to whether they are what they should be, and   *)
(* issues to whether there is one.  PlanSearch has the search for cycles   *)
(* step by step.                                                           *)
(***************************************************************************)
EXTENDS Naturals, Sequences, FiniteSets, SequencesExt

CONSTANT Plans  \* the plans that may be proposed

Tasks == [id : Nat, deps : SUBSET Nat, roles : BOOLEAN, paths : BOOLEAN]

ASSUME PlansAssumption == Plans \subseteq [roles : BOOLEAN, tasks : Seq(Tasks)]

Ids(tasks) == {t.id : t \in ToSet(tasks)}

Distinct(tasks) == \A n, m \in DOMAIN tasks : tasks[n].id = tasks[m].id => n = m

\* dependencies.setdefault: the first task of an ID counts.
DependenciesOf(tasks) ==
    [i \in Ids(tasks) |-> tasks[Min({n \in DOMAIN tasks : tasks[n].id = i})].deps]

\* Some tasks wait for each other: each of them depends on one of them.  This
\* is what _dependency_cycle decides, by SearchIsSound.
Cyclic(dependencies) ==
    \E S \in SUBSET DOMAIN dependencies : S # {} /\ \A t \in S : dependencies[t] \cap S # {}

\* Every assignment has its role, and every path is safe.
WellAssigned(plan) == plan.roles /\ \A t \in ToSet(plan.tasks) : t.roles /\ t.paths

\* No issue but, perhaps, a cycle.
Checked(plan) ==
    /\ plan.tasks # <<>>
    /\ WellAssigned(plan)
    /\ Distinct(plan.tasks)
    /\ \A t \in ToSet(plan.tasks) : t.id \notin t.deps /\ t.deps \subseteq Ids(plan.tasks)

\* What validate_plan lets pass, without the search: PlansSound of PlanSearch
\* says that the search decides this.
Valid(plan) == Checked(plan) /\ ~Cyclic(DependenciesOf(plan.tasks))

\* The tasks can be carried out one after the other.
Runnable(tasks) ==
    \E order \in Bijection(DOMAIN tasks, DOMAIN tasks) : \A n \in DOMAIN tasks :
        tasks[order[n]].deps \subseteq {tasks[order[m]].id : m \in 1..n - 1}
=============================================================================
