------------------------------ MODULE RunStore ------------------------------
(***************************************************************************)
(* The durable record of one run: the rows SQLiteStore (storage.py) keeps  *)
(* for it and the guarded transition function (state.py) every change of   *)
(* its state goes through.  One action per mutating method; each method is *)
(* one BEGIN IMMEDIATE transaction, so each action is atomic and callers   *)
(* in several threads or processes interleave between actions only.        *)
(*                                                                         *)
(* Abstractions.  A plan version is its fingerprint, and Plans are the     *)
(* versions that carry the run's plan ID (other IDs are refused).  Wall    *)
(* clocks, actors, pids, byte counts and reasons are left out.  The events *)
(* a method inserts are kept as the state a reader of the log rebuilds by  *)
(* folding them in sequence order (loggedRun, loggedTask); the JSONL copy of the *)
(* log is the subject of EventMirror.                                      *)
(***************************************************************************)
EXTENDS Naturals, Sequences

CONSTANTS
  Tasks,         \* task IDs
  Plans,         \* plan versions (fingerprints) sharing the run's plan ID
  TasksOf,       \* TasksOf[p]: the tasks of version p
  Deps,          \* Deps[p][t]: the dependencies of task t in version p
  Assignment,    \* Assignment[p][t]: provider and model chosen for t in p
  ValidPlans,    \* the versions validate_plan accepts
  Results,       \* fingerprints of reviewed results
  NoPlan, NoResult,
  MaxRevision,   \* bound: replans explored
  MaxApprovals   \* bound: approval rows explored

ASSUME ConstantsAssumption ==
  /\ TasksOf \in [Plans -> SUBSET Tasks]
  /\ Deps \in [Plans -> [Tasks -> SUBSET Tasks]]
  /\ ValidPlans \subseteq Plans
  /\ NoPlan \notin Plans
  /\ NoResult \notin Results
  /\ MaxRevision \in Nat /\ MaxRevision >= 1
  /\ MaxApprovals \in Nat

VARIABLES
  state,      \* runs.state, "ABSENT" before the row exists
  plan,       \* runs.plan_fingerprint
  revision,   \* runs.plan_revision
  reviewed,   \* runs.reviewed_result_fingerprint
  approvals,  \* the approvals table, in approval_sequence order
  targeted,   \* a run_targets row exists
  taskState,  \* task_runs.state, "ABSENT" where there is no row
  assigned,   \* task_runs.provider and model
  worktrees,  \* the tasks whose row has a worktree_path
  attempts,   \* worker_attempts.status of each task, oldest attempt first
  startedBy,  \* history: the plan version each task's Worker started under,
  startedAt,  \* and the revision of the run then (NoPlan and 0 for none)
  loggedRun,  \* the fold of the run's events: what they say of the run,
  loggedTask  \* and of each task

runVars   == <<state, plan, revision, reviewed>>
taskVars  == <<targeted, taskState, assigned, worktrees, attempts, startedBy,
               startedAt>>
storeVars == <<state, plan, revision, reviewed, approvals, targeted, taskState,
               assigned, worktrees, attempts, startedBy, startedAt, loggedRun,
               loggedTask>>

LegalTransitions ==
  [ABSENT |-> {},
   DRAFT |-> {"PLANNED", "CANCELLED"},
   PLANNED |-> {"VALIDATED", "REPLAN_REQUIRED", "CANCELLED"},
   VALIDATED |-> {"WAITING_FOR_APPROVAL", "REPLAN_REQUIRED", "CANCELLED"},
   WAITING_FOR_APPROVAL |-> {"PROVISIONING", "REPLAN_REQUIRED", "CANCELLED"},
   PROVISIONING |-> {"RUNNING", "BLOCKED", "FAILED", "REPLAN_REQUIRED",
                     "CANCELLED"},
   RUNNING |-> {"VERIFYING", "BLOCKED", "FAILED", "REPLAN_REQUIRED",
                "CANCELLED"},
   VERIFYING |-> {"REVIEWING", "FAILED", "REPLAN_REQUIRED", "CANCELLED"},
   REVIEWING |-> {"WAITING_FOR_APPLY_APPROVAL", "FAILED", "REPLAN_REQUIRED",
                  "CANCELLED"},
   WAITING_FOR_APPLY_APPROVAL |-> {"APPLIED", "REPLAN_REQUIRED", "CANCELLED"},
   BLOCKED |-> {"REPLAN_REQUIRED", "CANCELLED"},
   FAILED |-> {"REPLAN_REQUIRED", "CANCELLED"},
   REPLAN_REQUIRED |-> {"PLANNED", "CANCELLED"},
   CANCELLED |-> {},
   APPLIED |-> {}]

RunStates == {"DRAFT", "PLANNED", "VALIDATED", "WAITING_FOR_APPROVAL",
              "PROVISIONING", "RUNNING", "VERIFYING", "REVIEWING",
              "WAITING_FOR_APPLY_APPROVAL", "BLOCKED", "FAILED",
              "REPLAN_REQUIRED", "CANCELLED", "APPLIED"}

TaskStates == {"PENDING", "PROVISIONED", "RUNNING", "SUCCEEDED", "FAILED",
               "BLOCKED", "INTERRUPTED", "CANCELLED"}

AttemptStates == {"RUNNING", "SUCCEEDED", "FAILED", "CANCELLED", "INTERRUPTED"}
Outcomes == {"SUCCEEDED", "FAILED", "CANCELLED"}

Assignments == {Assignment[p][t] : p \in Plans, t \in Tasks}
NoAssignment == "none"

-----------------------------------------------------------------------------
(* Approvals. *)

ApprovalTypes == {"PLAN_EXECUTION", "RESULT_APPLICATION"}
Decisions == {"APPROVED", "REJECTED"}

Matches(a, type, rev, subject) ==
  a.type = type /\ a.revision = rev /\ a.subject = subject

\* The latest decision on exactly this subject at this revision is APPROVED.
ApprovedIn(log, type, rev, subject) ==
  \E i \in DOMAIN log :
    /\ Matches(log[i], type, rev, subject)
    /\ log[i].decision = "APPROVED"
    /\ \A j \in DOMAIN log : j > i => ~ Matches(log[j], type, rev, subject)

HasPlanExecutionApproval == ApprovedIn(approvals, "PLAN_EXECUTION", revision, plan)

-----------------------------------------------------------------------------
(* The guarded transition function. *)

TransitionAllowed(target) ==
  /\ target \in LegalTransitions[state]
  /\ target = "VALIDATED" => plan \in ValidPlans
  /\ target \in {"PROVISIONING", "RUNNING"} => HasPlanExecutionApproval
  /\ target = "WAITING_FOR_APPLY_APPROVAL" => reviewed # NoResult
  /\ target = "APPLIED" =>
       /\ reviewed # NoResult
       /\ ApprovedIn(approvals, "RESULT_APPLICATION", revision, reviewed)

\* Faulty variant: replanning forgets to bump the revision.
NextRevisionKept(target) == revision

NextRevision(target) ==
  IF target = "REPLAN_REQUIRED" THEN revision + 1 ELSE revision

MoveRun(target) ==
  /\ TransitionAllowed(target)
  /\ state' = target
  /\ revision' = NextRevision(target)
  /\ revision' <= MaxRevision
  /\ reviewed' = IF target = "REPLAN_REQUIRED" THEN NoResult ELSE reviewed

\* The effect on the fold of one event about the run, or about a task.
LogRun(s, r, p) == loggedRun' = [state |-> s, revision |-> r, plan |-> p]
LogTask(t, s) == loggedTask' = [loggedTask EXCEPT ![t] = s]

-----------------------------------------------------------------------------
(* Operations on the run row. *)

\* Faulty variant: the run row is written before its plan version is saved.
CreateRunUnpinned(p) ==
  /\ state = "ABSENT"
  /\ state' = "DRAFT"
  /\ revision' = 1
  /\ LogRun("DRAFT", 1, p)
  /\ UNCHANGED <<plan, reviewed, approvals, taskVars, loggedTask>>

CreateRun(p) ==
  /\ state = "ABSENT"
  /\ state' = "DRAFT"
  /\ plan' = p
  /\ revision' = 1
  /\ LogRun("DRAFT", 1, p)
  /\ UNCHANGED <<reviewed, approvals, taskVars, loggedTask>>

TransitionRun(target) ==
  /\ MoveRun(target)
  /\ LogRun(target, revision', loggedRun.plan)
  /\ UNCHANGED <<plan, approvals, taskVars, loggedTask>>

ReplacePlan(p) ==
  /\ state = "REPLAN_REQUIRED"
  /\ MoveRun("PLANNED")
  /\ plan' = p
  /\ LogRun("PLANNED", revision, p)
  /\ UNCHANGED <<approvals, taskVars, loggedTask>>

ExpectedGate(type) ==
  IF type = "PLAN_EXECUTION" THEN "WAITING_FOR_APPROVAL"
                             ELSE "WAITING_FOR_APPLY_APPROVAL"
ExpectedSubject(type) == IF type = "PLAN_EXECUTION" THEN plan ELSE reviewed

\* A decision is written by a caller who read the run earlier: the revision
\* and subject it names may be stale, and are checked in the transaction.
\* Faulty variant, used below: a decision is accepted in every state.
RecordApprovalAnywhere(type, rev, subject, decision) ==
  /\ rev = revision
  /\ subject = ExpectedSubject(type) /\ subject # NoResult
  /\ Len(approvals) < MaxApprovals
  /\ approvals' = Append(approvals, [type |-> type, revision |-> rev,
                                     subject |-> subject, decision |-> decision])
  /\ UNCHANGED <<runVars, taskVars, loggedRun, loggedTask>>

RecordApproval(type, rev, subject, decision) ==
  /\ state # "ABSENT"
  /\ rev = revision
  /\ state = ExpectedGate(type)
  /\ subject = ExpectedSubject(type) /\ subject # NoResult
  /\ Len(approvals) < MaxApprovals
  /\ approvals' = Append(approvals, [type |-> type, revision |-> rev,
                                     subject |-> subject, decision |-> decision])
  /\ UNCHANGED <<runVars, taskVars, loggedRun, loggedTask>>

SetReviewedResult(r) ==
  /\ state = "REVIEWING"
  /\ reviewed' = r
  /\ UNCHANGED <<state, plan, revision, approvals, taskVars, loggedRun,
                 loggedTask>>

-----------------------------------------------------------------------------
(* Operations on the task rows. *)

\* The primary key of run_targets lets this succeed once in a run's life.  It
\* is the one operation that changes task rows and inserts no event.
InitializeExecution ==
  /\ state = "WAITING_FOR_APPROVAL"
  /\ ~ targeted
  /\ targeted' = TRUE
  /\ taskState' = [t \in Tasks |->
                     IF t \in TasksOf[plan] THEN "PENDING" ELSE taskState[t]]
  /\ assigned' = [t \in Tasks |-> IF t \in TasksOf[plan]
                                  THEN Assignment[plan][t] ELSE assigned[t]]
  /\ UNCHANGED <<runVars, approvals, worktrees, attempts, startedBy, startedAt,
                 loggedRun, loggedTask>>

RequireReadyTask(t) ==
  /\ t \in TasksOf[plan]
  /\ assigned[t] = Assignment[plan][t]
  /\ \A d \in Deps[plan][t] : taskState[d] = "SUCCEEDED"

SetTask(t, s) ==
  /\ taskState' = [taskState EXCEPT ![t] = s]
  /\ LogTask(t, s)

RecordWorktree(t) ==
  /\ state \in {"PROVISIONING", "RUNNING"} /\ HasPlanExecutionApproval
  /\ taskState[t] = "PENDING"
  /\ RequireReadyTask(t)
  /\ SetTask(t, "PROVISIONED")
  /\ worktrees' = worktrees \cup {t}
  /\ UNCHANGED <<runVars, approvals, targeted, assigned, attempts, startedBy,
                 startedAt, loggedRun>>

\* Faulty variant: the check made when the worktree was recorded is trusted.
BeginAttemptUnchecked(t) ==
  /\ state = "RUNNING" /\ HasPlanExecutionApproval
  /\ taskState[t] = "PROVISIONED" /\ t \in worktrees
  /\ attempts[t] = <<>>
  /\ attempts' = [attempts EXCEPT ![t] = <<"RUNNING">>]
  /\ startedBy' = [startedBy EXCEPT ![t] = plan]
  /\ startedAt' = [startedAt EXCEPT ![t] = revision]
  /\ SetTask(t, "RUNNING")
  /\ UNCHANGED <<runVars, approvals, targeted, assigned, worktrees, loggedRun>>

BeginAttempt(t) ==
  /\ state = "RUNNING" /\ HasPlanExecutionApproval
  /\ taskState[t] = "PROVISIONED" /\ t \in worktrees
  /\ RequireReadyTask(t)
  /\ attempts[t] = <<>>
  /\ attempts' = [attempts EXCEPT ![t] = <<"RUNNING">>]
  /\ startedBy' = [startedBy EXCEPT ![t] = plan]
  /\ startedAt' = [startedAt EXCEPT ![t] = revision]
  /\ SetTask(t, "RUNNING")
  /\ UNCHANGED <<runVars, approvals, targeted, assigned, worktrees, loggedRun>>

\* outcome is CANCELLED for a cancelled Worker, SUCCEEDED for a clean exit
\* with no violation and no reason, FAILED otherwise.  The state of the run
\* is not consulted.
FinishAttempt(t, i, outcome) ==
  /\ taskState[t] = "RUNNING"
  /\ i \in DOMAIN attempts[t] /\ attempts[t][i] = "RUNNING"
  /\ attempts' = [attempts EXCEPT ![t] = [attempts[t] EXCEPT ![i] = outcome]]
  /\ SetTask(t, outcome)
  /\ UNCHANGED <<runVars, approvals, targeted, assigned, worktrees, startedBy,
                 startedAt, loggedRun>>

\* Faulty variant: blocking does not look at the state of the task.
BlockTaskBlindly(t) ==
  /\ taskState[t] # "ABSENT"
  /\ SetTask(t, "BLOCKED")
  /\ UNCHANGED <<runVars, approvals, targeted, assigned, worktrees, attempts,
                 startedBy, startedAt, loggedRun>>

BlockTask(t) ==
  /\ taskState[t] \in {"PENDING", "PROVISIONED"}
  /\ SetTask(t, "BLOCKED")
  /\ UNCHANGED <<runVars, approvals, targeted, assigned, worktrees, attempts,
                 startedBy, startedAt, loggedRun>>

Orphaned == {t \in Tasks : \E i \in DOMAIN attempts[t] :
                              attempts[t][i] = "RUNNING"}
Interrupted(status) == IF status = "RUNNING" THEN "INTERRUPTED" ELSE status

\* Faulty variants: recovery forgets the task rows, or the run's own event.
RecoverAttemptsOnly ==
  /\ state # "ABSENT"
  /\ Orphaned # {}
  /\ attempts' = [t \in Tasks |->
                    [i \in DOMAIN attempts[t] |-> Interrupted(attempts[t][i])]]
  /\ UNCHANGED <<runVars, approvals, targeted, taskState, assigned, worktrees,
                 startedBy, startedAt, loggedRun, loggedTask>>
RecoverSilently ==
  /\ state # "ABSENT"
  /\ Orphaned # {}
  /\ attempts' = [t \in Tasks |->
                    [i \in DOMAIN attempts[t] |-> Interrupted(attempts[t][i])]]
  /\ taskState' = [t \in Tasks |->
                     IF t \in Orphaned THEN "INTERRUPTED" ELSE taskState[t]]
  /\ loggedTask' = [t \in Tasks |->
                      IF t \in Orphaned THEN "INTERRUPTED" ELSE loggedTask[t]]
  /\ state' = IF state = "RUNNING" THEN "BLOCKED" ELSE state
  /\ UNCHANGED <<plan, revision, reviewed, approvals, targeted, assigned,
                 worktrees, startedBy, startedAt, loggedRun>>

\* Every RUNNING attempt and its task become INTERRUPTED; a RUNNING run that
\* had one becomes BLOCKED in the same transaction.
RecoverInterrupted ==
  /\ state # "ABSENT"
  /\ Orphaned # {}
  /\ attempts' = [t \in Tasks |->
                    [i \in DOMAIN attempts[t] |-> Interrupted(attempts[t][i])]]
  /\ taskState' = [t \in Tasks |->
                     IF t \in Orphaned THEN "INTERRUPTED" ELSE taskState[t]]
  /\ loggedTask' = [t \in Tasks |->
                      IF t \in Orphaned THEN "INTERRUPTED" ELSE loggedTask[t]]
  /\ state' = IF state = "RUNNING" THEN "BLOCKED" ELSE state
  /\ IF state = "RUNNING" THEN LogRun("BLOCKED", revision, loggedRun.plan)
                           ELSE UNCHANGED loggedRun
  /\ UNCHANGED <<plan, revision, reviewed, approvals, targeted, assigned,
                 worktrees, startedBy, startedAt>>

-----------------------------------------------------------------------------

StoreInit ==
  /\ state = "ABSENT" /\ plan = NoPlan /\ revision = 0 /\ reviewed = NoResult
  /\ approvals = <<>>
  /\ targeted = FALSE
  /\ taskState = [t \in Tasks |-> "ABSENT"]
  /\ assigned = [t \in Tasks |-> NoAssignment]
  /\ worktrees = {}
  /\ attempts = [t \in Tasks |-> <<>>]
  /\ startedBy = [t \in Tasks |-> NoPlan]
  /\ startedAt = [t \in Tasks |-> 0]
  /\ loggedRun = [state |-> "ABSENT", revision |-> 0, plan |-> NoPlan]
  /\ loggedTask = [t \in Tasks |-> "UNSEEN"]

StoreNext ==
  \/ \E p \in Plans : CreateRun(p)
  \/ \E target \in RunStates : TransitionRun(target)
  \/ \E p \in Plans : ReplacePlan(p)
  \/ \E type \in ApprovalTypes, rev \in 1..MaxRevision,
        subject \in Plans \cup Results, decision \in Decisions :
       RecordApproval(type, rev, subject, decision)
  \/ \E r \in Results : SetReviewedResult(r)
  \/ InitializeExecution
  \/ \E t \in Tasks : RecordWorktree(t)
  \/ \E t \in Tasks : BeginAttempt(t)
  \/ \E t \in Tasks, outcome \in Outcomes :
       \E i \in DOMAIN attempts[t] : FinishAttempt(t, i, outcome)
  \/ \E t \in Tasks : BlockTask(t)
  \/ RecoverInterrupted

StoreSpec == StoreInit /\ [][StoreNext]_storeVars

-----------------------------------------------------------------------------
(* Correctness. *)

ApprovalRows == [type : ApprovalTypes, revision : Nat,
                 subject : Plans \cup Results, decision : Decisions]

\* Every column holds a value of its type, and a run row names a plan version.
TypeOK ==
  /\ state \in RunStates \cup {"ABSENT"}
  /\ plan \in Plans \cup {NoPlan}
  /\ plan = NoPlan <=> state = "ABSENT"
  /\ revision \in Nat /\ (state = "ABSENT" => revision = 0)
  /\ reviewed \in Results \cup {NoResult}
  /\ approvals \in Seq(ApprovalRows)
  /\ targeted \in BOOLEAN
  /\ taskState \in [Tasks -> TaskStates \cup {"ABSENT"}]
  /\ assigned \in [Tasks -> Assignments \cup {NoAssignment}]
  /\ worktrees \subseteq Tasks
  /\ attempts \in [Tasks -> Seq(AttemptStates)]
  /\ startedBy \in [Tasks -> Plans \cup {NoPlan}]
  /\ startedAt \in [Tasks -> Nat]
  /\ loggedRun \in [state : RunStates \cup {"ABSENT"}, revision : Nat,
                    plan : Plans \cup {NoPlan}]
  /\ loggedTask \in [Tasks -> TaskStates \cup {"UNSEEN"}]

Executing == {"PROVISIONING", "RUNNING", "VERIFYING", "REVIEWING",
              "WAITING_FOR_APPLY_APPROVAL", "APPLIED", "BLOCKED", "FAILED"}
BeforeGate == {"ABSENT", "DRAFT", "PLANNED", "VALIDATED", "REPLAN_REQUIRED"}

\* A run that got past the execution gate is one whose current plan version,
\* at its current revision, has an execution approval that no later decision
\* withdrew (state.py transition and storage.py record_approval together).
ExecutionApproved == state \in Executing => HasPlanExecutionApproval

\* A run that has not reached the gate of its current revision carries no
\* decision for that revision: an approval given before a replan can never be
\* picked up again, even when the same plan content comes back.
NoStaleApproval ==
  /\ \A i \in DOMAIN approvals : approvals[i].revision <= revision
  /\ state \in BeforeGate =>
       \A i \in DOMAIN approvals : approvals[i].revision # revision

\* A task is attempted at most once in the life of a run, replans included,
\* and an attempt and its task row always tell the same story.
OneAttempt ==
  \A t \in Tasks :
    /\ Len(attempts[t]) <= 1
    /\ attempts[t] # <<>> => taskState[t] = attempts[t][1]
    /\ attempts[t] = <<>> =>
         taskState[t] \in {"ABSENT", "PENDING", "PROVISIONED", "BLOCKED"}

\* A Worker was only ever started after everything its plan version made it
\* depend on had succeeded, and those successes still stand.
DependenciesFirst ==
  \A t \in Tasks : attempts[t] # <<>> =>
    \A d \in Deps[startedBy[t]][t] : taskState[d] = "SUCCEEDED"

\* Every Worker was started under the plan version approved for the revision
\* at which it began.
AttemptsApproved ==
  \A t \in Tasks : attempts[t] # <<>> =>
    ApprovedIn(approvals, "PLAN_EXECUTION", startedAt[t], startedBy[t])

\* storage.py promises that every mutation commits its event.  For the state
\* of the run and of its tasks one breaks the promise and no other does, not
\* even recovery, which writes several rows at once: pinning a run to its
\* target (initialize_execution) makes PENDING rows and no event.  So a task
\* the log is silent about has no row or a PENDING one, and of every other
\* task, and of the run, the log tells the state the tables hold.
LogSilentOnlyOnPinning ==
  /\ loggedRun = [state |-> state, revision |-> revision, plan |-> plan]
  /\ \A t \in Tasks :
       IF loggedTask[t] = "UNSEEN" THEN taskState[t] \in {"ABSENT", "PENDING"}
                                   ELSE taskState[t] = loggedTask[t]

\* A task row that settled is never rewritten, whatever happens to the run.
SettledForGood ==
  [][\A t \in Tasks :
       taskState[t] \in {"SUCCEEDED", "FAILED", "CANCELLED", "INTERRUPTED",
                           "BLOCKED"}
         => taskState'[t] = taskState[t] /\ attempts'[t] = attempts[t]]_storeVars

-----------------------------------------------------------------------------
(* What the proofs need besides the properties: no task has a row before the *)
(* target is pinned, and an attempt belongs to a revision whose gate the run *)
(* has passed and cannot come back to.                                       *)

RowsNeedTarget == targeted \/ \A t \in Tasks : taskState[t] = "ABSENT"

AttemptsBehind ==
  \A t \in Tasks : attempts[t] # <<>> =>
    /\ startedBy[t] \in Plans
    /\ startedAt[t] <= revision
    /\ state \in BeforeGate \cup {"WAITING_FOR_APPROVAL"} =>
         startedAt[t] < revision

GateInv == ExecutionApproved /\ NoStaleApproval /\ AttemptsApproved /\ AttemptsBehind
TaskInv == RowsNeedTarget /\ OneAttempt /\ DependenciesFirst
=============================================================================
