------------------------------ MODULE FleetRun ------------------------------
(* What starting a run promises, told without processes, locks, worktrees or *)
(* database rows: one plan is carried out once, its tasks are taken in       *)
(* dependency order and no more than Slots at a time, a task taken is never  *)
(* taken again, and the verdict says truly what became of the tasks.  The    *)
(* executor may be lost at any time; what it was doing is then lost with it. *)
EXTENDS Naturals, FiniteSets

CONSTANTS Tasks, Plans, TasksOf, Deps, Slots, NoPlan

VARIABLES
  phase,   \* waiting, open, or how it closed
  chosen,  \* the plan that is carried out, NoPlan before there is one
  fate     \* none, todo, doing, ok, bad, skipped, lost

runVars == <<phase, chosen, fate>>

Closed == {"verified", "failed", "stopped", "cancelled"}
OfFate(f) == {t \in Tasks : fate[t] = f}
SetFate(t, f) == fate' = [fate EXCEPT ![t] = f]

Init ==
  /\ phase = "waiting" /\ chosen = NoPlan
  /\ fate = [t \in Tasks |-> "none"]

\* The plan is chosen once, before the run is started.
ChoosePlan(p) ==
  /\ phase = "waiting" /\ chosen = NoPlan /\ chosen' = p
  /\ UNCHANGED <<phase, fate>>

Open ==
  /\ phase = "waiting" /\ phase' = "open" /\ chosen # NoPlan
  /\ fate' = [t \in Tasks |-> IF t \in TasksOf[chosen] THEN "todo" ELSE "none"]
  /\ UNCHANGED chosen

Take(t) ==
  /\ phase = "open" /\ fate[t] = "todo"
  /\ \A d \in Deps[chosen][t] : fate[d] = "ok"
  /\ Cardinality(OfFate("doing")) < Slots
  /\ SetFate(t, "doing")
  /\ UNCHANGED <<phase, chosen>>

Settle(t, f) ==
  /\ phase = "open" /\ fate[t] = "doing"
  /\ f \in {"ok", "bad"} /\ SetFate(t, f)
  /\ UNCHANGED <<phase, chosen>>

Skip(t) ==
  /\ phase = "open" /\ fate[t] = "todo" /\ SetFate(t, "skipped")
  /\ UNCHANGED <<phase, chosen>>

\* A later executor finds what an earlier one was doing.
Lose ==
  /\ OfFate("doing") # {}
  /\ fate' = [t \in Tasks |-> IF fate[t] = "doing" THEN "lost" ELSE fate[t]]
  /\ phase' = IF phase = "open" THEN "stopped" ELSE phase
  /\ UNCHANGED chosen

Settled == OfFate("todo") \cup OfFate("doing") = {}

Close(verdict) ==
  /\ phase = "open" /\ phase' = verdict
  /\ verdict = "verified" => \A t \in TasksOf[chosen] : fate[t] = "ok"
  /\ verdict = "failed" => Settled /\ OfFate("bad") # {}
  /\ verdict = "stopped" => Settled /\ OfFate("bad") = {} /\ OfFate("skipped") # {}
  /\ UNCHANGED <<chosen, fate>>

Next ==
  \/ (\E p \in Plans : ChoosePlan(p)) \/ Open \/ Lose
  \/ \E t \in Tasks : Take(t) \/ Skip(t) \/ \E f \in {"ok", "bad"} : Settle(t, f)
  \/ \E verdict \in Closed : Close(verdict)

Spec == Init /\ [][Next]_runVars
=============================================================================
