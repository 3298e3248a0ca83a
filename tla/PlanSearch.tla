---------------------------- MODULE PlanSearch ----------------------------
(***************************************************************************)
(* validate_plan with _dependency_cycle, its depth-first search for cycles *)
(* in lexical order, one step per task entered or left.  The path holds    *)
(* the tasks under visit; a task that is done leaves it but stays visited. *)
(***************************************************************************)
EXTENDS PlanValidation

VARIABLES
    plan,    \* the plan under validation
    phase,   \* checks, search, done
    path,    \* active: the tasks under visit, each a dependency of the last
    visited, \* the tasks entered so far
    cycle    \* the cycle found

search == <<plan, phase, path, visited, cycle>>

deps == DependenciesOf(plan.tasks)

\* Faulty variant: only what the first task depends on is searched
FirstRoot == IF visited = {} THEN DOMAIN deps ELSE {}

\* the tasks a search may still start from
Roots == DOMAIN deps \ visited

\* The dependencies of the task under visit that are not done with: those the
\* loop of visit() has before it, and those under visit themselves.
Ahead == {d \in deps[Last(path)] \cap DOMAIN deps : d \in ToSet(path) \/ d \notin visited}

\* Everything but a cycle; cycles are only looked for when IDs are unique.
Check ==
    /\ phase = "checks"
    /\ phase' = IF plan.tasks # <<>> /\ Distinct(plan.tasks) THEN "search" ELSE "done"
    /\ UNCHANGED <<plan, path, visited, cycle>>

Visit(t) ==
    /\ path' = Append(path, t)
    /\ visited' = visited \cup {t}
    /\ UNCHANGED <<plan, phase, cycle>>

Enter ==
    /\ phase = "search" /\ path = <<>> /\ Roots # {}
    /\ Visit(Min(Roots))

Descend ==
    /\ phase = "search" /\ path # <<>> /\ Ahead # {}
    /\ Min(Ahead) \notin ToSet(path)
    /\ Visit(Min(Ahead))

\* The path from a task back to itself
Close ==
    /\ phase = "search" /\ path # <<>> /\ Ahead # {}
    /\ \E n \in DOMAIN path :
          /\ path[n] = Min(Ahead)
          /\ cycle' = Append(SubSeq(path, n, Len(path)), path[n])
    /\ phase' = "done"
    /\ UNCHANGED <<plan, path, visited>>

Leave ==
    /\ phase = "search" /\ path # <<>> /\ Ahead = {}
    /\ path' = Front(path)
    /\ UNCHANGED <<plan, phase, visited, cycle>>

Finish ==
    /\ phase = "search" /\ path = <<>> /\ Roots = {}
    /\ phase' = "done"
    /\ UNCHANGED <<plan, path, visited, cycle>>

SearchInit == plan \in Plans /\ phase = "checks" /\ path = <<>> /\ visited = {} /\ cycle = <<>>
SearchNext == Check \/ Enter \/ Descend \/ Close \/ Leave \/ Finish
SearchSpec == SearchInit /\ [][SearchNext]_search
----------------------------------------------------------------------------
(* Properties.                                                             *)

Accepted == Checked(plan) /\ cycle = <<>>

\* A plan whose roles and paths are right is accepted exactly when its tasks
\* are distinct and can all be carried out, and a cycle that is reported is
\* one: the search neither takes a task two others wait for as a cycle nor
\* misses a cycle behind tasks it has left.  The other modules know of the
\* search only that it accepts the plans that are Valid.
PlansSound ==
    phase = "done" =>
      /\ Accepted <=> /\ plan.tasks # <<>> /\ WellAssigned(plan)
                      /\ Distinct(plan.tasks) /\ Runnable(plan.tasks)
      /\ Accepted <=> Valid(plan)
      /\ cycle # <<>> =>
           /\ Len(cycle) > 1 /\ cycle[1] = Last(cycle)
           /\ \A n \in 1..Len(cycle) - 1 : cycle[n + 1] \in deps[cycle[n]]
=============================================================================
