--------------------------- MODULE ExecutorProofs ---------------------------
(***************************************************************************)
(* Machine-checked proofs about RunStore and Executor, for every value of  *)
(* their constants: first the store by itself, then its executors.         *)
(***************************************************************************)
EXTENDS Executor, FiniteSetTheorems, WellFoundedInduction, TLAPS

-----------------------------------------------------------------------------
(* The store: typing. *)

\* A store without the run is well typed.
LEMMA TypeInit == StoreInit => TypeOK
<1> SUFFICES ASSUME StoreInit PROVE TypeOK
  OBVIOUS
<1>1. /\ approvals \in Seq(ApprovalRows)
      /\ attempts \in [Tasks -> Seq(AttemptStates)]
  BY DEF StoreInit
<1>2. loggedRun \in [state : RunStates \cup {"ABSENT"}, revision : Nat,
                    plan : Plans \cup {NoPlan}]
  BY DEF StoreInit
<1>3. QED
  BY <1>1, <1>2 DEF StoreInit, TypeOK

\* Marking attempts interrupted keeps their number and their type.
LEMMA InterruptedType ==
  ASSUME NEW s \in Seq(AttemptStates)
  PROVE  /\ [i \in DOMAIN s |-> Interrupted(s[i])] \in Seq(AttemptStates)
         /\ Len([i \in DOMAIN s |-> Interrupted(s[i])]) = Len(s)
<1>1. /\ DOMAIN s = 1..Len(s) /\ Len(s) \in Nat
      /\ \A i \in 1..Len(s) : s[i] \in AttemptStates
  OBVIOUS
<1>2. \A i \in 1..Len(s) : Interrupted(s[i]) \in AttemptStates
  BY <1>1 DEF Interrupted, AttemptStates
<1>3. QED
  BY <1>1, <1>2

\* A legal move keeps the columns of the run row well typed.
LEMMA MoveRunType ==
  ASSUME TypeOK, NEW target \in RunStates, MoveRun(target)
  PROVE  /\ state' \in RunStates /\ state' # "ABSENT" /\ state # "ABSENT"
         /\ revision' \in Nat
         /\ reviewed' \in Results \cup {NoResult}
<1>1. state # "ABSENT"
  BY DEF MoveRun, TransitionAllowed, LegalTransitions
<1>2. QED
  BY <1>1 DEF MoveRun, NextRevision, TypeOK, RunStates

\* Every operation of the store keeps its rows well typed.
LEMMA TypeStep == TypeOK /\ [StoreNext]_storeVars => TypeOK'
<1> SUFFICES ASSUME TypeOK, [StoreNext]_storeVars PROVE TypeOK'
  OBVIOUS
<1> USE DEF TypeOK, runVars, taskVars, LogRun, LogTask, SetTask
<1>1. ASSUME NEW p \in Plans, CreateRun(p) PROVE TypeOK'
  BY <1>1, ConstantsAssumption DEF CreateRun, RunStates
<1>2. ASSUME NEW target \in RunStates, TransitionRun(target) PROVE TypeOK'
  BY <1>2, MoveRunType DEF TransitionRun
<1>3. ASSUME NEW p \in Plans, ReplacePlan(p) PROVE TypeOK'
  BY <1>3, MoveRunType, ConstantsAssumption DEF ReplacePlan, RunStates
<1>4. ASSUME NEW type \in ApprovalTypes, NEW rev \in 1..MaxRevision,
             NEW subject \in Plans \cup Results, NEW decision \in Decisions,
             RecordApproval(type, rev, subject, decision)
      PROVE  TypeOK'
  BY <1>4 DEF RecordApproval, ApprovalRows
<1>5. ASSUME NEW r \in Results, SetReviewedResult(r) PROVE TypeOK'
  BY <1>5 DEF SetReviewedResult
<1>6. CASE InitializeExecution
  <2>1. plan \in Plans
    BY <1>6 DEF InitializeExecution
  <2>2. \A t \in Tasks : Assignment[plan][t] \in Assignments
    BY <2>1 DEF Assignments
  <2>3. QED
    BY <1>6, <2>2 DEF InitializeExecution, TaskStates
<1>7. ASSUME NEW t \in Tasks, RecordWorktree(t) PROVE TypeOK'
  BY <1>7 DEF RecordWorktree, TaskStates
<1>8. ASSUME NEW t \in Tasks, BeginAttempt(t) PROVE TypeOK'
  <2>1. <<"RUNNING">> \in Seq(AttemptStates)
    BY DEF AttemptStates
  <2>2. QED
    BY <1>8, <2>1 DEF BeginAttempt, TaskStates
<1>9. ASSUME NEW t \in Tasks, NEW outcome \in Outcomes,
             NEW i \in DOMAIN attempts[t], FinishAttempt(t, i, outcome)
      PROVE  TypeOK'
  <2>1. [attempts[t] EXCEPT ![i] = outcome] \in Seq(AttemptStates)
    BY DEF AttemptStates, Outcomes
  <2>2. QED
    BY <1>9, <2>1 DEF FinishAttempt, TaskStates, Outcomes
<1>10. ASSUME NEW t \in Tasks, BlockTask(t) PROVE TypeOK'
  BY <1>10 DEF BlockTask, TaskStates
<1>11. CASE RecoverInterrupted
  <2>1. ASSUME NEW t \in Tasks
        PROVE  [i \in DOMAIN attempts[t] |-> Interrupted(attempts[t][i])]
                 \in Seq(AttemptStates)
    BY InterruptedType
  <2>2. QED
    BY <1>11, <2>1 DEF RecoverInterrupted, TaskStates, RunStates
<1>12. CASE UNCHANGED storeVars
  BY <1>12 DEF storeVars
<1>13. QED
  BY <1>1, <1>2, <1>3, <1>4, <1>5, <1>6, <1>7, <1>8, <1>9, <1>10, <1>11, <1>12
     DEF StoreNext

\* Every column of the store always holds a value of its declared type.
THEOREM TypeCorrect == StoreSpec => []TypeOK
BY TypeInit, TypeStep, PTL DEF StoreSpec

-----------------------------------------------------------------------------
(* The execution gate. *)

\* A decision about something else leaves an approval standing, and is the
\* only thing a later row may be for the approval to stand.
LEMMA ApprovedAppend ==
  ASSUME NEW log \in Seq(ApprovalRows), NEW x \in ApprovalRows,
         NEW type, NEW rev, NEW subject,
         ~ Matches(x, type, rev, subject),
         ApprovedIn(log, type, rev, subject)
  PROVE  ApprovedIn(Append(log, x), type, rev, subject)
<1>1. PICK i \in DOMAIN log :
        /\ Matches(log[i], type, rev, subject)
        /\ log[i].decision = "APPROVED"
        /\ \A j \in DOMAIN log : j > i => ~ Matches(log[j], type, rev, subject)
  BY DEF ApprovedIn
<1>2. /\ DOMAIN Append(log, x) = 1..(Len(log) + 1)
      /\ DOMAIN log = 1..Len(log) /\ Len(log) \in Nat
      /\ \A j \in DOMAIN log : Append(log, x)[j] = log[j]
      /\ Append(log, x)[Len(log) + 1] = x
  OBVIOUS
<1>3. /\ i \in DOMAIN Append(log, x)
      /\ Matches(Append(log, x)[i], type, rev, subject)
      /\ Append(log, x)[i].decision = "APPROVED"
  BY <1>1, <1>2
<1>4. ASSUME NEW j \in DOMAIN Append(log, x), j > i
      PROVE  ~ Matches(Append(log, x)[j], type, rev, subject)
  BY <1>1, <1>2, <1>4
<1>5. QED
  BY <1>3, <1>4 DEF ApprovedIn

\* Without a run there is no approval to be stale and no attempt to be unapproved.
LEMMA GateInit == StoreInit => GateInv
BY DEF StoreInit, GateInv, ExecutionApproved, NoStaleApproval,
       AttemptsApproved, AttemptsBehind, Executing, BeforeGate

\* An approval row names a revision that is a number.
LEMMA ApprovalRevisions ==
  ASSUME TypeOK, NEW i \in DOMAIN approvals
  PROVE  approvals[i].revision \in Nat
<1>1. approvals[i] \in ApprovalRows
  BY DEF TypeOK
<1>2. QED
  BY <1>1 DEF ApprovalRows

\* Where the transition table can come from: past the gate only from past the
\* gate, and before it only from before it, from DRAFT on, or by replanning.
LEMMA LegalSources ==
  ASSUME NEW s \in RunStates \cup {"ABSENT"}, NEW target \in LegalTransitions[s]
  PROVE  /\ target \in Executing \ {"PROVISIONING", "RUNNING"} => s \in Executing
         /\ target \in BeforeGate \cup {"WAITING_FOR_APPROVAL"} =>
              target = "REPLAN_REQUIRED" \/ s \in BeforeGate
<1> USE DEF LegalTransitions, Executing, BeforeGate
<1>1. CASE s \in {"ABSENT", "DRAFT", "PLANNED", "VALIDATED", "REPLAN_REQUIRED"}
  BY <1>1
<1>2. CASE s = "WAITING_FOR_APPROVAL"
  BY <1>2
<1>3. CASE s = "PROVISIONING"
  BY <1>3
<1>4. CASE s = "RUNNING"
  BY <1>4
<1>5. CASE s \in {"VERIFYING", "REVIEWING", "WAITING_FOR_APPLY_APPROVAL"}
  BY <1>5
<1>6. CASE s \in {"BLOCKED", "FAILED"}
  BY <1>6
<1>7. CASE s \in {"CANCELLED", "APPLIED"}
  BY <1>7
<1>8. QED
  BY <1>1, <1>2, <1>3, <1>4, <1>5, <1>6, <1>7 DEF RunStates

\* Moving the run row is the only way past the gate, and it asks for the
\* approval of the revision it moves.
LEMMA GateMove ==
  ASSUME TypeOK, GateInv, NEW target \in RunStates, MoveRun(target),
         approvals' = approvals, attempts' = attempts,
         startedBy' = startedBy, startedAt' = startedAt,
         plan' = plan \/ (state = "REPLAN_REQUIRED" /\ target = "PLANNED")
  PROVE  GateInv'
<1> USE DEF GateInv, TypeOK
<1>1. /\ state' = target
      /\ revision' = IF target = "REPLAN_REQUIRED" THEN revision + 1 ELSE revision
      /\ target \in LegalTransitions[state]
      /\ target \in {"PROVISIONING", "RUNNING"} => HasPlanExecutionApproval
  BY DEF MoveRun, TransitionAllowed, NextRevision
<1>2. /\ target \in Executing \ {"PROVISIONING", "RUNNING"} => state \in Executing
      /\ target \in BeforeGate \cup {"WAITING_FOR_APPROVAL"} =>
           target = "REPLAN_REQUIRED" \/ state \in BeforeGate
  BY <1>1, LegalSources
<1>3. ExecutionApproved'
  <2> SUFFICES ASSUME target \in Executing PROVE HasPlanExecutionApproval'
    BY <1>1 DEF ExecutionApproved
  <2>1. HasPlanExecutionApproval
    BY <1>1, <1>2 DEF ExecutionApproved
  <2>2. plan' = plan /\ revision' = revision
    BY <1>1 DEF Executing
  <2>3. QED
    BY <2>1, <2>2 DEF HasPlanExecutionApproval
<1>4. NoStaleApproval'
  <2>1. ASSUME NEW i \in DOMAIN approvals
        PROVE  /\ approvals[i].revision \in Nat
               /\ approvals[i].revision <= revision
    BY ApprovalRevisions DEF NoStaleApproval
  <2>2. CASE target = "REPLAN_REQUIRED"
    BY <1>1, <2>1, <2>2 DEF NoStaleApproval
  <2>3. CASE target # "REPLAN_REQUIRED"
    BY <1>1, <1>2, <2>1, <2>3 DEF NoStaleApproval
  <2>4. QED
    BY <2>2, <2>3
<1>5. AttemptsApproved'
  BY DEF AttemptsApproved
<1>6. AttemptsBehind'
  BY <1>1, <1>2 DEF AttemptsBehind
<1>7. QED
  BY <1>3, <1>4, <1>5, <1>6

\* A step that leaves the run row and the approvals alone, except for the
\* recovery of a RUNNING run, and starts no attempt, keeps the gate closed.
LEMMA GateFrame ==
  ASSUME TypeOK, GateInv,
         plan' = plan, revision' = revision, approvals' = approvals,
         startedBy' = startedBy, startedAt' = startedAt,
         state' = state \/ (state = "RUNNING" /\ state' = "BLOCKED"),
         \A t \in Tasks : attempts[t] = <<>> => attempts'[t] = <<>>
  PROVE  GateInv'
<1> USE DEF GateInv, TypeOK
<1>1. ExecutionApproved'
  BY DEF ExecutionApproved, Executing, HasPlanExecutionApproval
<1>2. NoStaleApproval'
  BY DEF NoStaleApproval, BeforeGate
<1>3. AttemptsApproved'
  BY DEF AttemptsApproved
<1>4. AttemptsBehind'
  BY DEF AttemptsBehind, BeforeGate
<1>5. QED
  BY <1>1, <1>2, <1>3, <1>4

\* Every operation keeps the execution gate and the approvals it rests on.
LEMMA GateStep == TypeOK /\ GateInv /\ [StoreNext]_storeVars => GateInv'
<1> SUFFICES ASSUME TypeOK, GateInv, [StoreNext]_storeVars PROVE GateInv'
  OBVIOUS
<1>1. ASSUME NEW p \in Plans, CreateRun(p) PROVE GateInv'
  <2>1. attempts' = attempts /\ startedAt' = startedAt /\ startedBy' = startedBy
    BY <1>1 DEF CreateRun, taskVars
  <2>2. \A i \in DOMAIN approvals : FALSE
    <3>1. \A i \in DOMAIN approvals : approvals[i].revision \in Nat
      BY ApprovalRevisions
    <3>2. state = "ABSENT" /\ revision = 0
      BY <1>1 DEF CreateRun, TypeOK
    <3>. QED
      BY <3>1, <3>2 DEF GateInv, NoStaleApproval, BeforeGate
  <2>. QED
    <3>1. /\ approvals' = approvals /\ state' = "DRAFT" /\ revision' = 1
          /\ state = "ABSENT" /\ revision = 0
      BY <1>1 DEF CreateRun, TypeOK
    <3>2. \A t \in Tasks : attempts[t] = <<>>
      BY <3>1 DEF GateInv, AttemptsBehind, BeforeGate, TypeOK
    <3>3. ExecutionApproved' /\ NoStaleApproval'
      BY <2>2, <3>1 DEF ExecutionApproved, Executing, NoStaleApproval
    <3>4. AttemptsApproved' /\ AttemptsBehind'
      BY <2>1, <3>2 DEF AttemptsApproved, AttemptsBehind
    <3>. QED
      BY <3>3, <3>4 DEF GateInv
<1>2. ASSUME NEW target \in RunStates, TransitionRun(target) PROVE GateInv'
  BY <1>2, GateMove DEF TransitionRun, taskVars
<1>3. ASSUME NEW p \in Plans, ReplacePlan(p) PROVE GateInv'
  BY <1>3, GateMove DEF ReplacePlan, taskVars, RunStates
<1>4. ASSUME NEW type \in ApprovalTypes, NEW rev \in 1..MaxRevision,
             NEW subject \in Plans \cup Results, NEW decision \in Decisions,
             RecordApproval(type, rev, subject, decision)
      PROVE  GateInv'
  <2> DEFINE x == [type |-> type, revision |-> rev, subject |-> subject,
                   decision |-> decision]
  <2>1. /\ x \in ApprovalRows /\ approvals \in Seq(ApprovalRows)
        /\ approvals' = Append(approvals, x) /\ rev = revision
        /\ UNCHANGED <<state, plan, revision, attempts, startedBy, startedAt>>
        /\ state \in {"WAITING_FOR_APPROVAL", "WAITING_FOR_APPLY_APPROVAL"}
        /\ state = "WAITING_FOR_APPLY_APPROVAL" => type # "PLAN_EXECUTION"
    BY <1>4 DEF RecordApproval, ApprovalRows, TypeOK, runVars, taskVars,
                ExpectedGate
  <2> HIDE DEF x
  <2>2. ASSUME state = "WAITING_FOR_APPLY_APPROVAL",
               NEW r, NEW s, ApprovedIn(approvals, "PLAN_EXECUTION", r, s)
        PROVE  ApprovedIn(approvals', "PLAN_EXECUTION", r, s)
    <3>1. ~ Matches(x, "PLAN_EXECUTION", r, s)
      BY <2>1, <2>2 DEF Matches, x
    <3>2. QED
      BY <2>1, <2>2, <3>1, ApprovedAppend
  <2>3. ExecutionApproved'
    BY <2>1, <2>2 DEF ExecutionApproved, Executing, HasPlanExecutionApproval,
                      GateInv
  <2>4. NoStaleApproval'
    <3>1. \A i \in DOMAIN approvals' :
             \/ i \in DOMAIN approvals /\ approvals'[i] = approvals[i]
             \/ approvals'[i].revision = revision
      BY <2>1 DEF x
    <3>2. QED
      BY <2>1, <3>1 DEF GateInv, NoStaleApproval, BeforeGate, TypeOK
  <2>5. AttemptsApproved'
    <3> SUFFICES ASSUME NEW t \in Tasks, attempts[t] # <<>>
                 PROVE  ApprovedIn(approvals', "PLAN_EXECUTION", startedAt[t],
                                   startedBy[t])
      BY <2>1 DEF AttemptsApproved
    <3>1. ApprovedIn(approvals, "PLAN_EXECUTION", startedAt[t], startedBy[t])
      BY DEF GateInv, AttemptsApproved
    <3>2. CASE state = "WAITING_FOR_APPLY_APPROVAL"
      BY <2>2, <3>1, <3>2
    <3>3. CASE state = "WAITING_FOR_APPROVAL"
      <4>1. startedAt[t] # revision
        BY <3>3 DEF GateInv, AttemptsBehind, TypeOK
      <4>2. ~ Matches(x, "PLAN_EXECUTION", startedAt[t], startedBy[t])
        BY <2>1, <4>1 DEF Matches, x
      <4>3. QED
        BY <2>1, <3>1, <4>2, ApprovedAppend
    <3>4. QED
      BY <2>1, <3>2, <3>3
  <2>6. AttemptsBehind'
    BY <2>1 DEF GateInv, AttemptsBehind
  <2>7. QED
    BY <2>3, <2>4, <2>5, <2>6 DEF GateInv
<1>5. ASSUME NEW r \in Results, SetReviewedResult(r) PROVE GateInv'
  BY <1>5, GateFrame DEF SetReviewedResult, taskVars
<1>6. CASE InitializeExecution
  BY <1>6, GateFrame DEF InitializeExecution, runVars
<1>7. ASSUME NEW t \in Tasks, RecordWorktree(t) PROVE GateInv'
  BY <1>7, GateFrame DEF RecordWorktree, runVars
<1>8. ASSUME NEW t \in Tasks, BeginAttempt(t) PROVE GateInv'
  <2>1. /\ UNCHANGED <<state, plan, revision, approvals>>
        /\ state = "RUNNING" /\ HasPlanExecutionApproval /\ plan \in Plans
        /\ \A u \in Tasks : u # t =>
             /\ attempts'[u] = attempts[u] /\ startedBy'[u] = startedBy[u]
             /\ startedAt'[u] = startedAt[u]
        /\ startedBy'[t] = plan /\ startedAt'[t] = revision
    BY <1>8 DEF BeginAttempt, runVars, TypeOK
  <2>2. ExecutionApproved' /\ NoStaleApproval'
    BY <2>1 DEF GateInv, ExecutionApproved, NoStaleApproval,
                HasPlanExecutionApproval
  <2>3. AttemptsApproved'
    BY <2>1 DEF GateInv, AttemptsApproved, HasPlanExecutionApproval
  <2>4. AttemptsBehind'
    <3>1. revision <= revision /\ state' = "RUNNING"
      BY <2>1 DEF TypeOK
    <3>2. state' \notin BeforeGate \cup {"WAITING_FOR_APPROVAL"}
      BY <3>1 DEF BeforeGate
    <3>3. ASSUME NEW u \in Tasks, attempts'[u] # <<>>
          PROVE  startedBy'[u] \in Plans /\ startedAt'[u] <= revision
      BY <2>1, <3>1, <3>3 DEF GateInv, AttemptsBehind
    <3>4. QED
      BY <2>1, <3>2, <3>3 DEF AttemptsBehind
  <2>5. QED
    BY <2>2, <2>3, <2>4 DEF GateInv
<1>9. ASSUME NEW t \in Tasks, NEW outcome \in Outcomes,
             NEW i \in DOMAIN attempts[t], FinishAttempt(t, i, outcome)
      PROVE  GateInv'
  <2>1. \A u \in Tasks : attempts[u] = <<>> => attempts'[u] = <<>>
    BY <1>9 DEF FinishAttempt, TypeOK
  <2>2. QED
    BY <1>9, <2>1, GateFrame DEF FinishAttempt, runVars
<1>10. ASSUME NEW t \in Tasks, BlockTask(t) PROVE GateInv'
  BY <1>10, GateFrame DEF BlockTask, runVars
<1>11. CASE RecoverInterrupted
  <2>1. \A u \in Tasks : attempts[u] = <<>> => attempts'[u] = <<>>
    BY <1>11 DEF RecoverInterrupted
  <2>2. state' = state \/ (state = "RUNNING" /\ state' = "BLOCKED")
    BY <1>11 DEF RecoverInterrupted
  <2>3. QED
    BY <1>11, <2>1, <2>2, GateFrame DEF RecoverInterrupted
<1>12. CASE UNCHANGED storeVars
  BY <1>12, GateFrame DEF storeVars
<1>13. QED
  BY <1>1, <1>2, <1>3, <1>4, <1>5, <1>6, <1>7, <1>8, <1>9, <1>10, <1>11, <1>12
     DEF StoreNext

\* The gate holds in every reachable state: the execution approval, its
\* freshness, and the approval behind every attempt, with the revisions
\* attempts belong to, which is what makes it inductive.
THEOREM GateCorrect == StoreSpec => []GateInv
BY TypeCorrect, GateInit, GateStep, PTL DEF StoreSpec

\* No run is ever past the execution gate without the standing approval of
\* exactly its current plan version at its current revision.
THEOREM ExecutionIsApproved == StoreSpec => []ExecutionApproved
BY GateCorrect, PTL DEF GateInv

\* Replanning discards every approval for good.
THEOREM ApprovalsNeverStale == StoreSpec => []NoStaleApproval
BY GateCorrect, PTL DEF GateInv

\* Every Worker that was ever started had its plan version approved, and no
\* later decision took that approval back.
THEOREM AttemptsAreApproved == StoreSpec => []AttemptsApproved
BY GateCorrect, PTL DEF GateInv

-----------------------------------------------------------------------------
(* Attempts and task rows. *)

\* Without a run there are no task rows and no attempts.
LEMMA TaskInit == StoreInit => TaskInv
BY DEF StoreInit, TaskInv, RowsNeedTarget, OneAttempt, DependenciesFirst

\* A task has no attempt, or exactly one whose status its row repeats.
LEMMA AttemptShape ==
  ASSUME TypeOK, TaskInv, NEW t \in Tasks
  PROVE  \/ attempts[t] = <<>> /\ taskState[t] \notin AttemptStates
         \/ /\ attempts[t] # <<>> /\ Len(attempts[t]) = 1
            /\ attempts[t] \in Seq(AttemptStates) /\ DOMAIN attempts[t] = {1}
            /\ taskState[t] = attempts[t][1] /\ taskState[t] \in AttemptStates
<1>1. attempts[t] \in Seq(AttemptStates)
  BY DEF TypeOK
<1>2. CASE attempts[t] = <<>>
  BY <1>2 DEF TaskInv, OneAttempt, AttemptStates
<1>3. CASE attempts[t] # <<>>
  <2>1. Len(attempts[t]) \in Nat /\ Len(attempts[t]) # 0
        /\ DOMAIN attempts[t] = 1..Len(attempts[t])
    BY <1>1, <1>3
  <2>2. Len(attempts[t]) <= 1
    BY DEF TaskInv, OneAttempt
  <2>3. Len(attempts[t]) = 1
    <3>1. \A n \in Nat : n # 0 /\ n <= 1 => n = 1
      OBVIOUS
    <3>2. QED
      BY <2>1, <2>2, <3>1
  <2>4. DOMAIN attempts[t] = {1}
    BY <2>1, <2>3
  <2>5. attempts[t][1] \in AttemptStates
    BY <1>1, <2>4
  <2>6. QED
    BY <1>1, <1>3, <2>3, <2>4, <2>5 DEF TaskInv, OneAttempt
<1>4. QED
  BY <1>2, <1>3

\* A dependency of a started Worker is one of the tasks.
LEMMA DependenciesAreTasks ==
  ASSUME NEW p \in Plans, NEW t \in Tasks
  PROVE  Deps[p][t] \subseteq Tasks
BY ConstantsAssumption

\* A task row that settled keeps its state in every step.
LEMMA SettledStep ==
  ASSUME TypeOK, TaskInv, [StoreNext]_storeVars, NEW u \in Tasks,
         taskState[u] \in {"SUCCEEDED", "FAILED", "CANCELLED", "INTERRUPTED",
                          "BLOCKED"}
  PROVE  taskState'[u] = taskState[u] /\ attempts'[u] = attempts[u]
<1> USE DEF TypeOK, runVars, taskVars, SetTask
<1>1. CASE \/ \E p \in Plans : CreateRun(p) \/ ReplacePlan(p)
           \/ \E target \in RunStates : TransitionRun(target)
           \/ \E r \in Results : SetReviewedResult(r)
  BY <1>1 DEF CreateRun, ReplacePlan, TransitionRun, SetReviewedResult
<1>2. CASE \E type \in ApprovalTypes, rev \in 1..MaxRevision,
              subject \in Plans \cup Results, decision \in Decisions :
             RecordApproval(type, rev, subject, decision)
  BY <1>2 DEF RecordApproval
<1>3. CASE InitializeExecution
  BY <1>3 DEF InitializeExecution, TaskInv, RowsNeedTarget
<1>4. CASE \E t \in Tasks : RecordWorktree(t) \/ BeginAttempt(t) \/ BlockTask(t)
  BY <1>4 DEF RecordWorktree, BeginAttempt, BlockTask
<1>5. CASE \E t \in Tasks, outcome \in Outcomes :
             \E i \in DOMAIN attempts[t] : FinishAttempt(t, i, outcome)
  BY <1>5 DEF FinishAttempt
<1>6. CASE RecoverInterrupted
  <2>1. u \notin Orphaned
    BY DEF TaskInv, OneAttempt, Orphaned
  <2>2. attempts'[u] = [i \in DOMAIN attempts[u] |-> Interrupted(attempts[u][i])]
    BY <1>6 DEF RecoverInterrupted
  <2>3. \A i \in DOMAIN attempts[u] : Interrupted(attempts[u][i]) = attempts[u][i]
    BY <2>1 DEF Orphaned, Interrupted
  <2>4. attempts'[u] = attempts[u]
    BY <2>2, <2>3
  <2>5. QED
    BY <1>6, <2>1, <2>4 DEF RecoverInterrupted
<1>7. CASE UNCHANGED storeVars
  BY <1>7 DEF storeVars
<1>8. QED
  BY <1>1, <1>2, <1>3, <1>4, <1>5, <1>6, <1>7 DEF StoreNext

\* Every operation keeps attempts, task rows and dependencies consistent.
LEMMA TaskStep ==
  TypeOK /\ GateInv /\ TaskInv /\ [StoreNext]_storeVars => TaskInv'
<1> SUFFICES ASSUME TypeOK, GateInv, TaskInv, [StoreNext]_storeVars PROVE TaskInv'
  OBVIOUS
<1>1. \A t \in Tasks : attempts[t] # <<>> =>
        /\ startedBy[t] \in Plans /\ Deps[startedBy[t]][t] \subseteq Tasks
        /\ \A d \in Deps[startedBy[t]][t] : taskState'[d] = "SUCCEEDED"
  BY SettledStep, DependenciesAreTasks
     DEF GateInv, AttemptsBehind, TaskInv, DependenciesFirst
<1>2. CASE UNCHANGED taskVars
  BY <1>2 DEF taskVars, TaskInv, RowsNeedTarget, OneAttempt, DependenciesFirst
<1>3. CASE InitializeExecution
  <2>1. \A t \in Tasks : taskState[t] = "ABSENT"
    BY <1>3 DEF InitializeExecution, TaskInv, RowsNeedTarget
  <2>2. \A t \in Tasks : attempts[t] = <<>>
    BY <2>1, AttemptShape DEF AttemptStates
  <2>3. /\ attempts' = attempts /\ targeted'
        /\ \A t \in Tasks : taskState'[t] \in {"PENDING", "ABSENT"}
    BY <1>3, <2>1 DEF InitializeExecution
  <2>4. QED
    BY <2>2, <2>3 DEF TaskInv, RowsNeedTarget, OneAttempt, DependenciesFirst
<1>4. ASSUME NEW t \in Tasks, RecordWorktree(t) \/ BlockTask(t) PROVE TaskInv'
  <2>1. /\ taskState[t] \in {"PENDING", "PROVISIONED"}
        /\ taskState' = [taskState EXCEPT ![t] = taskState'[t]]
        /\ taskState'[t] \in {"PROVISIONED", "BLOCKED"}
        /\ UNCHANGED <<targeted, attempts, startedBy>>
    BY <1>4 DEF RecordWorktree, BlockTask, SetTask, TypeOK
  <2>2. attempts[t] = <<>>
    BY <2>1, AttemptShape DEF AttemptStates
  <2>3. RowsNeedTarget'
    BY <2>1 DEF TaskInv, RowsNeedTarget
  <2>4. OneAttempt'
    BY <2>1, <2>2 DEF TaskInv, OneAttempt, TypeOK
  <2>5. DependenciesFirst'
    BY <1>1, <2>1 DEF DependenciesFirst
  <2>6. QED
    BY <2>3, <2>4, <2>5 DEF TaskInv
<1>5. ASSUME NEW t \in Tasks, BeginAttempt(t) PROVE TaskInv'
  <2>1. /\ taskState[t] = "PROVISIONED" /\ attempts[t] = <<>> /\ plan \in Plans
        /\ taskState' = [taskState EXCEPT ![t] = "RUNNING"]
        /\ attempts' = [attempts EXCEPT ![t] = <<"RUNNING">>]
        /\ startedBy' = [startedBy EXCEPT ![t] = plan]
        /\ targeted' = targeted
        /\ \A d \in Deps[plan][t] : taskState[d] = "SUCCEEDED"
    BY <1>5 DEF BeginAttempt, SetTask, RequireReadyTask, TypeOK
  <2>2. RowsNeedTarget'
    BY <2>1 DEF TaskInv, RowsNeedTarget
  <2>3. OneAttempt'
    BY <2>1 DEF TaskInv, OneAttempt, TypeOK
  <2>4. \A d \in Deps[plan][t] : taskState'[d] = "SUCCEEDED"
    BY <2>1, SettledStep, DependenciesAreTasks
  <2>5. DependenciesFirst'
    BY <1>1, <2>1, <2>4 DEF DependenciesFirst, TypeOK
  <2>6. QED
    BY <2>2, <2>3, <2>5 DEF TaskInv
<1>6. ASSUME NEW t \in Tasks, NEW outcome \in Outcomes,
             NEW i \in DOMAIN attempts[t], FinishAttempt(t, i, outcome)
      PROVE  TaskInv'
  <2>1. /\ taskState[t] = "RUNNING"
        /\ taskState' = [taskState EXCEPT ![t] = outcome]
        /\ attempts' = [attempts EXCEPT ![t] = [attempts[t] EXCEPT ![i] = outcome]]
        /\ UNCHANGED <<targeted, startedBy>>
    BY <1>6 DEF FinishAttempt, SetTask
  <2>2. /\ attempts[t] \in Seq(AttemptStates) /\ Len(attempts[t]) = 1 /\ i = 1
        /\ attempts[t] # <<>>
    BY <1>6, AttemptShape DEF FinishAttempt
  <2>3. attempts'[t] # <<>> /\ Len(attempts'[t]) = 1 /\ attempts'[t][1] = outcome
    <3>1. attempts'[t] = [attempts[t] EXCEPT ![1] = outcome]
      BY <2>1, <2>2 DEF TypeOK
    <3>2. Len(attempts'[t]) = 1 /\ attempts'[t][1] = outcome
      BY <2>2, <3>1
    <3>3. QED
      BY <3>2
  <2>4. RowsNeedTarget'
    BY <2>1 DEF TaskInv, RowsNeedTarget
  <2>5. OneAttempt'
    BY <2>1, <2>3 DEF TaskInv, OneAttempt, TypeOK
  <2>6. DependenciesFirst'
    BY <1>1, <2>1, <2>2 DEF DependenciesFirst, TypeOK
  <2>7. QED
    BY <2>4, <2>5, <2>6 DEF TaskInv
<1>7. CASE RecoverInterrupted
  <2>1. ASSUME NEW t \in Tasks
        PROVE  /\ Len(attempts'[t]) = Len(attempts[t])
               /\ attempts'[t] = <<>> <=> attempts[t] = <<>>
               /\ attempts[t] = <<>> => t \notin Orphaned
               /\ t \notin Orphaned => attempts'[t] = attempts[t]
               /\ t \in Orphaned => Len(attempts[t]) = 1
                                   /\ attempts'[t][1] = "INTERRUPTED"
    <3>1. attempts[t] \in Seq(AttemptStates)
      BY DEF TypeOK
    <3>2. attempts'[t] = [i \in DOMAIN attempts[t] |-> Interrupted(attempts[t][i])]
      BY <1>7 DEF RecoverInterrupted
    <3>3. Len(attempts'[t]) = Len(attempts[t])
      BY <3>1, <3>2, InterruptedType
    <3>4. attempts'[t] \in Seq(AttemptStates)
      BY <3>1, <3>2, InterruptedType
    <3>5. attempts'[t] = <<>> <=> attempts[t] = <<>>
      BY <3>1, <3>3, <3>4
    <3>6. attempts[t] = <<>> => t \notin Orphaned
      BY DEF Orphaned
    <3>7. t \notin Orphaned => attempts'[t] = attempts[t]
      <4> SUFFICES ASSUME t \notin Orphaned PROVE attempts'[t] = attempts[t]
        OBVIOUS
      <4>1. \A i \in DOMAIN attempts[t] :
              Interrupted(attempts[t][i]) = attempts[t][i]
        BY DEF Orphaned, Interrupted
      <4>2. QED
        BY <3>1, <3>2, <4>1
    <3>8. t \in Orphaned => Len(attempts[t]) = 1 /\ attempts'[t][1] = "INTERRUPTED"
      <4> SUFFICES ASSUME t \in Orphaned
                   PROVE  Len(attempts[t]) = 1 /\ attempts'[t][1] = "INTERRUPTED"
        OBVIOUS
      <4>1. PICK i \in DOMAIN attempts[t] : attempts[t][i] = "RUNNING"
        BY DEF Orphaned
      <4>2. Len(attempts[t]) = 1 /\ i = 1
        BY <4>1, AttemptShape
      <4>3. QED
        BY <3>2, <4>1, <4>2 DEF Interrupted
    <3>9. QED
      BY <3>3, <3>5, <3>6, <3>7, <3>8
  <2>2. /\ taskState' = [t \in Tasks |->
                     IF t \in Orphaned THEN "INTERRUPTED" ELSE taskState[t]]
        /\ UNCHANGED <<targeted, startedBy>>
    BY <1>7 DEF RecoverInterrupted
  <2>3. RowsNeedTarget'
    <3>1. \A t \in Orphaned : t \in Tasks /\ taskState[t] # "ABSENT"
      <4> SUFFICES ASSUME NEW t \in Tasks, t \in Orphaned
                   PROVE  taskState[t] # "ABSENT"
        BY DEF Orphaned
      <4>1. attempts[t] # <<>> /\ attempts[t] \in Seq(AttemptStates)
        BY <2>1 DEF TypeOK
      <4>2. taskState[t] \in AttemptStates
        BY <4>1 DEF TaskInv, OneAttempt
      <4>3. QED
        BY <4>2 DEF AttemptStates
    <3>2. QED
      BY <2>2, <3>1 DEF TaskInv, RowsNeedTarget
  <2>4. OneAttempt'
    BY <2>1, <2>2 DEF TaskInv, OneAttempt
  <2>5. DependenciesFirst'
    BY <1>1, <2>1, <2>2 DEF DependenciesFirst
  <2>6. QED
    BY <2>3, <2>4, <2>5 DEF TaskInv
<1>8. CASE UNCHANGED storeVars
  BY <1>2, <1>8 DEF storeVars, taskVars
<1>9. CASE \/ \E p \in Plans : CreateRun(p) \/ ReplacePlan(p)
           \/ \E target \in RunStates : TransitionRun(target)
           \/ \E r \in Results : SetReviewedResult(r)
  BY <1>2, <1>9 DEF CreateRun, ReplacePlan, TransitionRun, SetReviewedResult
<1>10. CASE \E type \in ApprovalTypes, rev \in 1..MaxRevision,
              subject \in Plans \cup Results, decision \in Decisions :
             RecordApproval(type, rev, subject, decision)
  BY <1>2, <1>10 DEF RecordApproval
<1>11. QED
  BY <1>3, <1>4, <1>5, <1>6, <1>7, <1>8, <1>9, <1>10 DEF StoreNext

\* Attempts, task rows and dependencies agree in every reachable state.
THEOREM TaskCorrect == StoreSpec => []TaskInv
BY TypeCorrect, GateCorrect, TaskInit, TaskStep, PTL DEF StoreSpec

\* In the whole life of a run, replans included, no task is attempted twice,
\* and each task row agrees with its attempt.
THEOREM AttemptedOnce == StoreSpec => []OneAttempt
BY TaskCorrect, PTL DEF TaskInv

\* No Worker ever started before all it depends on had succeeded for good.
THEOREM DependenciesComeFirst == StoreSpec => []DependenciesFirst
BY TaskCorrect, PTL DEF TaskInv

\* A settled task row is never rewritten.
THEOREM TasksSettleForGood == StoreSpec => SettledForGood
<1>1. TypeOK /\ TaskInv /\ [StoreNext]_storeVars =>
        [\A t \in Tasks :
           taskState[t] \in {"SUCCEEDED", "FAILED", "CANCELLED", "INTERRUPTED",
                            "BLOCKED"}
             => taskState'[t] = taskState[t] /\ attempts'[t] = attempts[t]]_storeVars
  BY SettledStep
<1>2. QED
  BY <1>1, TypeCorrect, TaskCorrect, PTL DEF StoreSpec, SettledForGood

-----------------------------------------------------------------------------
(* The event log. *)

\* Every operation but the pinning inserts the events its change of the rows
\* calls for, and the pinning makes PENDING rows only.
LEMMA LogStep ==
  TypeOK /\ TaskInv /\ LogSilentOnlyOnPinning /\ [StoreNext]_storeVars
    => LogSilentOnlyOnPinning'
<1> SUFFICES ASSUME TypeOK, TaskInv, LogSilentOnlyOnPinning, [StoreNext]_storeVars
             PROVE  LogSilentOnlyOnPinning'
  OBVIOUS
<1> USE DEF LogSilentOnlyOnPinning, TypeOK, LogRun, LogTask, SetTask, runVars, taskVars
<1>1. CASE \E p \in Plans : CreateRun(p) \/ ReplacePlan(p)
  BY <1>1 DEF CreateRun, ReplacePlan, MoveRun, NextRevision
<1>2. CASE \E target \in RunStates : TransitionRun(target)
  BY <1>2 DEF TransitionRun, MoveRun
<1>3. CASE \/ \E r \in Results : SetReviewedResult(r)
           \/ \E type \in ApprovalTypes, rev \in 1..MaxRevision,
                 subject \in Plans \cup Results, decision \in Decisions :
                RecordApproval(type, rev, subject, decision)
  BY <1>3 DEF SetReviewedResult, RecordApproval
<1>4. CASE InitializeExecution
  BY <1>4 DEF InitializeExecution, TaskInv, RowsNeedTarget, TaskStates
<1>5. CASE \E t \in Tasks : RecordWorktree(t) \/ BeginAttempt(t) \/ BlockTask(t)
  <2>1. PICK t \in Tasks : RecordWorktree(t) \/ BeginAttempt(t) \/ BlockTask(t)
    BY <1>5
  <2>2. PICK s \in {"PROVISIONED", "RUNNING", "BLOCKED"} :
          /\ taskState' = [taskState EXCEPT ![t] = s]
          /\ loggedTask' = [loggedTask EXCEPT ![t] = s]
    BY <2>1 DEF RecordWorktree, BeginAttempt, BlockTask
  <2>3. UNCHANGED <<state, revision, plan, loggedRun>>
    BY <2>1 DEF RecordWorktree, BeginAttempt, BlockTask
  <2>4. QED
    BY <2>2, <2>3
<1>6. CASE \E t \in Tasks, outcome \in Outcomes :
             \E i \in DOMAIN attempts[t] : FinishAttempt(t, i, outcome)
  BY <1>6 DEF FinishAttempt, Outcomes
<1>7. CASE RecoverInterrupted
  BY <1>7 DEF RecoverInterrupted
<1>8. CASE UNCHANGED storeVars
  BY <1>8 DEF storeVars
<1>9. QED
  BY <1>1, <1>2, <1>3, <1>4, <1>5, <1>6, <1>7, <1>8 DEF StoreNext

\* Whoever folds the events of a run gets the stored state of the run and of
\* every task, except that the rows the pinning made are unknown to the log
\* until their first change.
THEOREM LogMissesOnlyThePinning == StoreSpec => []LogSilentOnlyOnPinning
<1>1. StoreInit => LogSilentOnlyOnPinning
  BY DEF StoreInit, LogSilentOnlyOnPinning
<1>2. QED
  BY <1>1, TypeCorrect, TaskCorrect, LogStep, PTL DEF StoreSpec
-----------------------------------------------------------------------------
(* Every step of the executors is a step of the store. *)

RevisionInRange == revision \in 0..MaxRevision /\ (state # "ABSENT" => revision >= 1)

\* The store keeps the revision between 1 and its bound.
LEMMA RevisionStep ==
  TypeOK /\ RevisionInRange /\ [StoreNext]_storeVars => RevisionInRange'
<1> SUFFICES ASSUME TypeOK, RevisionInRange, [StoreNext]_storeVars
             PROVE  RevisionInRange'
  OBVIOUS
<1> USE DEF RevisionInRange, runVars
<1>1. ASSUME NEW p \in Plans, CreateRun(p) PROVE RevisionInRange'
  BY <1>1, ConstantsAssumption DEF CreateRun
<1>2. ASSUME NEW target \in RunStates, MoveRun(target) PROVE RevisionInRange'
  <2>1. state # "ABSENT"
    BY <1>2, MoveRunType
  <2>2. QED
    BY <1>2, <2>1, ConstantsAssumption DEF MoveRun, NextRevision
<1>3. ASSUME state' = state \/ (state = "RUNNING" /\ state' = "BLOCKED"),
             revision' = revision
      PROVE  RevisionInRange'
  BY <1>3
<1>4. "PLANNED" \in RunStates
  BY DEF RunStates
<1>5. QED
  BY <1>1, <1>2, <1>3, <1>4 DEF StoreNext, storeVars, TransitionRun, ReplacePlan,
     RecordApproval, SetReviewedResult, InitializeExecution, RecordWorktree,
     BeginAttempt, FinishAttempt, BlockTask, RecoverInterrupted

\* An executor only ever works on a run that exists.
RunExists == \A e \in Execs : pc[e] # "idle" => state # "ABSENT"

ExecInv == TypeOK /\ RevisionInRange /\ ExecTypeOK /\ RunExists

\* The tasks of the plan of a run that exists are tasks.
LEMMA PlanTasksAreTasks ==
  ASSUME TypeOK, state # "ABSENT"
  PROVE  PlanTasks \subseteq Tasks
BY ConstantsAssumption DEF TypeOK, PlanTasks

\* The operations the executors call are operations of the store.
LEMMA StoreCalls ==
  /\ \A p \in Plans : CreateRun(p) => StoreNext
  /\ \A target \in RunStates : TransitionRun(target) => StoreNext
  /\ InitializeExecution => StoreNext
  /\ \A t \in Tasks : RecordWorktree(t) \/ BeginAttempt(t) \/ BlockTask(t) => StoreNext
  /\ RecoverInterrupted => StoreNext
BY DEF StoreNext

\* Each step of the executors, or of the world around them, is a call to the
\* store or leaves it alone.
LEMMA StoreStep ==
  ExecInv /\ [Next]_vars => [StoreNext]_storeVars
<1> SUFFICES ASSUME TypeOK, RevisionInRange, ExecTypeOK, RunExists, [Next]_vars
             PROVE  StoreNext \/ UNCHANGED storeVars
  BY DEF storeVars, ExecInv
<1> USE StoreCalls
<1>1. CASE UNCHANGED vars
  BY <1>1 DEF vars
<1>2. CASE Create
  <2>1. creator \in DOMAIN AfterStep => creator \in RunStates
    BY DEF AfterStep, RunStates
  <2>2. QED
    BY <1>2, <2>1 DEF Create, NewRun, AdvanceRun, PinTarget
<1>3. CASE ApproveRun
  <2>1. plan \in Plans
    BY <1>3 DEF ApproveRun, RecordApproval, TypeOK
  <2>2. revision \in 1..MaxRevision
    BY <1>3, ConstantsAssumption DEF ApproveRun, RecordApproval, RevisionInRange
  <2>3. QED
    BY <1>3, <2>1, <2>2 DEF ApproveRun, StoreNext, ApprovalTypes, Decisions
<1>4. ASSUME NEW e \in Execs, Run(e) PROVE StoreNext \/ UNCHANGED storeVars
  <2>1. /\ {"PROVISIONING", "BLOCKED", "RUNNING", "CANCELLED"} \subseteq RunStates
        /\ Verdict(e) \in RunStates
    BY DEF RunStates, Verdict
  <2>2. CASE Acquire(e) \/ Capabilities(e) \/ TakeBaseline(e) \/ Choose(e) \/ Gather(e)
    BY <2>2 DEF Acquire, Capabilities, TakeBaseline, Choose, Gather
  <2>3. CASE Recover(e) \/ Check(e) \/ BeginRunning(e) \/ EndBatch(e) \/ Finish(e)
    BY <2>3, <2>1 DEF Recover, Check, BeginRunning, EndBatch, Finish
  <2>4. CASE BlockAll(e) \/ BlockDependent(e) \/ \E t \in Tasks : ProvisionNext(e, t)
    <3>1. Hopeless \subseteq Tasks /\ queue \subseteq Tasks
      BY <2>4, PlanTasksAreTasks DEF ExecTypeOK, Hopeless, BlockedDependents,
         BlockAll, BlockDependent, ProvisionNext, Holds, RunExists
    <3>2. QED
      BY <2>4, <2>1, <3>1 DEF BlockAll, BlockDependent, ProvisionNext
  <2>5. QED
    BY <1>4, <2>2, <2>3, <2>4 DEF Run
<1>5. ASSUME NEW e \in Execs, NEW t \in Tasks, Work(e, t) \/ Abandon(e, t)
      PROVE  StoreNext \/ UNCHANGED storeVars
  <2>1. ASSUME Collect(e, t) PROVE StoreNext
    <3>1. Outcome(worker[t]) \in Outcomes
      BY DEF Outcome, Outcomes
    <3>2. FinishAttempt(t, 1, Outcome(worker[t])) /\ 1 \in DOMAIN attempts[t]
      BY <2>1 DEF Collect, FinishAttempt
    <3>3. QED
      BY <3>1, <3>2 DEF StoreNext
  <2>2. QED
    BY <1>5, <2>1 DEF Work, Begin, Spawn, Supervised, Abandon
<1>6. CASE UserChanges \/ \E e \in Execs : Start(e) \/ Crash(e) \/ RequestStop(e)
  BY <1>6 DEF UserChanges, Start, Crash, RequestStop
<1>7. CASE \E t \in Tasks : StrayExits(t)
  BY <1>7 DEF StrayExits
<1>8. QED
  BY <1>1, <1>2, <1>3, <1>4, <1>5, <1>6, <1>7 DEF Next

\* Before anything runs all variables are well typed.
LEMMA ExecInit == Init => ExecInv
<1> SUFFICES ASSUME Init PROVE ExecInv
  OBVIOUS
<1>1. TypeOK /\ RevisionInRange
  BY TypeInit, ConstantsAssumption DEF Init, StoreInit, RevisionInRange
<1>2. ExecTypeOK
  BY <1>1, ExecAssumption DEF Init, ExecTypeOK, Points, WorkerStates
<1>3. QED
  BY <1>1, <1>2 DEF ExecInv, RunExists, Init

\* No step deletes the run.
LEMMA RunStays ==
  ASSUME TypeOK, [StoreNext]_storeVars, state # "ABSENT"
  PROVE  state' # "ABSENT"
<1>1. \A target \in RunStates : MoveRun(target) => state' # "ABSENT"
  BY MoveRunType
<1>2. "PLANNED" \in RunStates
  BY DEF RunStates
<1>3. QED
  BY <1>1, <1>2 DEF StoreNext, storeVars, runVars, CreateRun, TransitionRun,
     ReplacePlan, RecordApproval, SetReviewedResult, InitializeExecution,
     RecordWorktree, BeginAttempt, FinishAttempt, BlockTask, RecoverInterrupted

\* The executors' own variables keep their types, and only the holder of the
\* lock gets past it.
LEMMA ExecTypeStep == ExecInv /\ [Next]_vars => ExecTypeOK'
<1> SUFFICES ASSUME ExecInv, [Next]_vars PROVE ExecTypeOK'
  OBVIOUS
<1>0. /\ TypeOK /\ RevisionInRange /\ ExecTypeOK /\ RunExists
      /\ TypeOK'
  BY StoreStep, TypeStep DEF ExecInv
<1> USE <1>0 DEF ExecTypeOK, ctlVars, userVars, pastVars
<1>1. CASE UNCHANGED vars
  BY <1>1 DEF vars
<1>2. CASE Create \/ ApproveRun \/ UserChanges
  <2>1. CASE Create \/ ApproveRun
    BY <2>1, ExecAssumption DEF Create, NewRun, AdvanceRun, PinTarget, ApproveRun, AfterStep
  <2>2. CASE UserChanges
    <3>a. head' \in 0..MaxCommits /\ MaxCommits \in Nat
      BY <2>2, ExecAssumption DEF UserChanges
    <3>1. head' \in Nat
      BY <3>a
    <3>2. back' \in BOOLEAN
      BY <2>2, Zenon DEF UserChanges
    <3>3. QED
      BY <2>2, <3>1, <3>2 DEF UserChanges
  <2>3. QED
    BY <1>2, <2>1, <2>2
<1>3. ASSUME NEW e \in Execs, Start(e) \/ RequestStop(e) PROVE ExecTypeOK'
  BY <1>3, ExecAssumption DEF Start, RequestStop, At, Goto, Points
<1>4. ASSUME NEW e \in Execs, Crash(e) PROVE ExecTypeOK'
  BY <1>4, ExecAssumption DEF Crash, Return, Goto, Points, WorkerStates
<1>5. ASSUME NEW e \in Execs, Acquire(e) PROVE ExecTypeOK'
  BY <1>5, ExecAssumption DEF Acquire, At, Goto, Points
<1>r. ASSUME NEW e \in Execs, lock = e, Return(e), UNCHANGED <<worker, userVars>>
      PROVE  ExecTypeOK'
  <2>1. seen' \in [Execs -> Nat] /\ pc' \in [Execs -> Points]
    BY <1>r DEF Return, Goto, Points
  <2>2. lock' = NoExec /\ queue' = {} /\ baseline' = 0
    BY <1>r DEF Return
  <2>3. \A x \in Execs : pc'[x] \in {"idle", "locking"} \/ (x # e /\ pc'[x] = pc[x])
    BY <1>r DEF Return, Goto
  <2>4. QED
    BY <1>r, <2>1, <2>2, <2>3, ExecAssumption DEF Return, Goto
<1>6. ASSUME NEW e \in Execs, Recover(e) \/ EndBatch(e) \/ Finish(e) PROVE ExecTypeOK'
  BY <1>6, <1>r, ExecAssumption DEF Recover, EndBatch, Finish, Holds, Goto, Points, Move
<1>7. ASSUME NEW e \in Execs, Check(e) \/ Capabilities(e) \/ BlockAll(e)
      PROVE ExecTypeOK'
  <2>1. PlanTasks \subseteq Tasks
    BY <1>7, PlanTasksAreTasks DEF Check, Capabilities, BlockAll, Holds, RunExists
  <2>2. QED
    BY <1>7, <1>r, <2>1, ExecAssumption DEF Check, Capabilities, BlockAll, Holds, Goto,
       Points, Move
<1>8. ASSUME NEW e \in Execs, BeginRunning(e) \/ TakeBaseline(e) \/ BlockDependent(e)
      PROVE ExecTypeOK'
  BY <1>8, ExecAssumption DEF BeginRunning, TakeBaseline, BlockDependent, Holds,
     Goto, Points, Move
<1>9. ASSUME NEW e \in Execs, Choose(e) \/ Gather(e) PROVE ExecTypeOK'
  <2>1. Ready \subseteq Tasks
    BY <1>9, PlanTasksAreTasks DEF Choose, Gather, Holds, RunExists, Ready,
       ReadyTasks, Eligible
  <2>2. QED
    BY <1>9, <2>1, ExecAssumption DEF Choose, Gather, Holds, Goto, Points, Move
<1>10. ASSUME NEW e \in Execs, NEW t \in Tasks, ProvisionNext(e, t) PROVE ExecTypeOK'
  BY <1>10, ExecAssumption DEF ProvisionNext, Holds, Goto, Points, Move, WorkerStates
<1>11. ASSUME NEW e \in Execs, NEW t \in Tasks, Work(e, t) \/ Abandon(e, t)
       PROVE  ExecTypeOK'
  <2>1. \E s \in WorkerStates : SetWorker(t, s)
    BY <1>11 DEF Work, Begin, Spawn, Supervised, Collect, Abandon, WorkerStates, Ended
  <2>2. worker' \in [Tasks -> WorkerStates]
    BY <2>1 DEF SetWorker
  <2>3. UNCHANGED <<ctlVars, creator, base, head, stop, faults, back>>
    BY <1>11 DEF Work, Begin, Spawn, Supervised, Collect, Abandon
  <2>4. compared' \subseteq Tasks \X Nat
    BY <1>11 DEF Work, Begin, Spawn, Supervised, Collect, Abandon
  <2>5. QED
    BY <2>2, <2>3, <2>4
<1>12. ASSUME NEW t \in Tasks, StrayExits(t) PROVE ExecTypeOK'
  BY <1>12 DEF StrayExits, SetWorker, WorkerStates
<1>13. QED
  BY <1>1, <1>2, <1>3, <1>4, <1>5, <1>6, <1>7, <1>8, <1>9, <1>10, <1>11, <1>12
     DEF Next, Run

\* Every step keeps all variables well typed, and the run that is worked on.
LEMMA ExecStep == ExecInv /\ [Next]_vars => ExecInv'
<1> SUFFICES ASSUME ExecInv, [Next]_vars PROVE ExecInv'
  OBVIOUS
<1>1. TypeOK' /\ RevisionInRange' /\ ExecTypeOK'
  BY StoreStep, TypeStep, RevisionStep, ExecTypeStep DEF ExecInv
<1>2. state # "ABSENT" => state' # "ABSENT"
  BY StoreStep, RunStays DEF ExecInv
<1>3. ASSUME NEW e \in Execs, pc'[e] # "idle" PROVE pc[e] # "idle" \/ state # "ABSENT"
  BY <1>3 DEF Next, vars, ctlVars, userVars, Create, NewRun, AdvanceRun, PinTarget,
     ApproveRun, UserChanges, Start, RequestStop, Crash, Run, Acquire, Recover,
     Check, Capabilities, BlockAll, BeginRunning, TakeBaseline, BlockDependent,
     Choose, ProvisionNext, Gather, EndBatch, Finish, Work, Begin, Spawn,
     Supervised, Collect, Abandon, StrayExits, At, Holds, Goto, Move, Return,
     ExecInv, ExecTypeOK
<1>4. QED
  BY <1>1, <1>2, <1>3 DEF ExecInv, RunExists

\* The inductive core: store and executors are well typed, revisions stay in
\* range, and only a run that exists is started.
THEOREM ExecutorCorrect == ExecSpec => []ExecInv
BY ExecInit, ExecStep, PTL DEF ExecSpec

\* Store and executors are well typed in every reachable state, and whoever is
\* past the lock in start_run is its only holder.
THEOREM ExecutorTypeCorrect == ExecSpec => []ExecTypeOK
<1>1. ExecInv => ExecTypeOK
  BY DEF ExecInv
<1>2. QED
  BY <1>1, ExecutorCorrect, PTL

\* Whatever the executors do, with crashes, stops and two of them at once, is
\* a behaviour of the store: all that is proved of RunStore holds of it.
THEOREM ExecutorUsesTheStore == ExecSpec => StoreSpec
<1>1. Init => StoreInit
  BY DEF Init
<1>2. QED
  BY <1>1, ExecutorCorrect, StoreStep, PTL DEF ExecSpec, StoreSpec

-----------------------------------------------------------------------------
(* Workers and the lock. *)

\* At first there is no Worker.
LEMMA BusyInit == Init => BusyUnderLock
BY DEF Init, BusyUnderLock, Busy, Ended

\* A batch is prepared, run and waited for under the lock.
LEMMA BusyStep == ExecInv /\ BusyUnderLock /\ [Next]_vars => BusyUnderLock'
<1> SUFFICES ASSUME ExecInv, BusyUnderLock, [Next]_vars PROVE BusyUnderLock'
  OBVIOUS
<1>0. ExecTypeOK
  BY DEF ExecInv
<1> USE <1>0, ExecAssumption DEF ExecTypeOK, BusyUnderLock, Busy, Ended, ctlVars, userVars,
        Driving
<1>1. CASE UNCHANGED vars
  BY <1>1 DEF vars
<1>2. CASE Create \/ ApproveRun \/ UserChanges
  BY <1>2 DEF Create, NewRun, AdvanceRun, PinTarget, ApproveRun, UserChanges
<1>3. ASSUME NEW e \in Execs, Start(e) \/ RequestStop(e) \/ Acquire(e) PROVE BusyUnderLock'
  BY <1>3 DEF Start, RequestStop, Acquire, At, Goto
<1>4. ASSUME NEW e \in Execs, Crash(e) PROVE BusyUnderLock'
  BY <1>4 DEF Crash, Return, Goto
<1>5. ASSUME NEW e \in Execs, Recover(e) \/ Check(e) \/ Capabilities(e) \/ BlockAll(e)
                              \/ BeginRunning(e) \/ TakeBaseline(e) \/ BlockDependent(e)
                              \/ Choose(e) \/ Finish(e)
      PROVE  BusyUnderLock'
  <2>1. Busy = {} \/ BlockDependent(e)
    BY <1>5 DEF Recover, Check, Capabilities, BlockAll, BeginRunning, TakeBaseline,
       Choose, Finish, Holds
  <2>2. worker' = worker
    BY <1>5 DEF Recover, Check, Capabilities, BlockAll, BeginRunning, TakeBaseline,
       BlockDependent, Choose, Finish
  <2>3. QED
    BY <2>1, <2>2 DEF BlockDependent
<1>6. ASSUME NEW e \in Execs, Gather(e) \/ EndBatch(e) PROVE BusyUnderLock'
  BY <1>6 DEF Gather, EndBatch, Holds, Move, Goto
<1>7. ASSUME NEW e \in Execs, NEW t \in Tasks, ProvisionNext(e, t) PROVE BusyUnderLock'
  BY <1>7 DEF ProvisionNext, Holds, Move, Goto
<1>8. ASSUME NEW e \in Execs, NEW t \in Tasks, Work(e, t) \/ Abandon(e, t)
      PROVE  BusyUnderLock'
  BY <1>8 DEF Work, Begin, Spawn, Supervised, Collect, Abandon, Holds
<1>9. ASSUME NEW t \in Tasks, StrayExits(t) PROVE BusyUnderLock'
  BY <1>9 DEF StrayExits, SetWorker
<1>10. QED
  BY <1>1, <1>2, <1>3, <1>4, <1>5, <1>6, <1>7, <1>8, <1>9 DEF Next, Run

\* A prepared, running or uncollected Worker always has an executor that holds
\* the lock and is in its scheduling loop.
THEOREM WorkersHaveAnExecutor == ExecSpec => []BusyUnderLock
BY ExecutorCorrect, BusyInit, BusyStep, PTL DEF ExecSpec

\* Only recovery writes INTERRUPTED.
LEMMA OnlyRecoveryInterrupts ==
  ASSUME ExecInv, [Next]_vars, NEW t \in Tasks,
         taskState'[t] = "INTERRUPTED", taskState[t] # "INTERRUPTED"
  PROVE  \E e \in Execs : Holds(e, "recover") /\ worker' = worker
<1> USE DEF ExecInv, TypeOK
<1>1. \A s : \A u \in Tasks : SetTask(u, s) /\ taskState'[t] # taskState[t] => taskState'[t] = s
  BY DEF SetTask
<1>2. CASE \E e \in Execs : Recover(e)
  BY <1>2 DEF Recover, userVars
<1>3. \A u \in Tasks : RecordWorktree(u) \/ BeginAttempt(u) \/ BlockTask(u)
                          => taskState'[t] # "INTERRUPTED"
  BY <1>1 DEF RecordWorktree, BeginAttempt, BlockTask
<1>4. \A u \in Tasks, o \in Outcomes : FinishAttempt(u, 1, o) => taskState'[t] # "INTERRUPTED"
  BY <1>1 DEF FinishAttempt, Outcomes
<1>5. ASSUME NEW e \in Execs, NEW u \in Tasks, Collect(e, u)
      PROVE  taskState'[t] # "INTERRUPTED"
  BY <1>4, <1>5 DEF Collect, Outcome, Outcomes
<1>6. InitializeExecution => taskState'[t] # "INTERRUPTED"
  BY DEF InitializeExecution
<1>7. \A s \in RunStates : TransitionRun(s) => taskState' = taskState
  BY DEF TransitionRun, taskVars
<1>8. ASSUME NEW e \in Execs, Run(e) PROVE Recover(e) \/ taskState'[t] # "INTERRUPTED"
  <2>1. (Hopeless \subseteq Tasks /\ queue \subseteq Tasks) \/ pc[e] = "idle"
    BY PlanTasksAreTasks DEF RunExists, ExecTypeOK, Hopeless, BlockedDependents
  <2>2. ASSUME BlockAll(e) \/ BlockDependent(e) PROVE taskState'[t] # "INTERRUPTED"
    BY <2>1, <2>2, <1>3 DEF BlockAll, BlockDependent, Holds, TransitionRun, taskVars,
       ExecTypeOK
  <2>3. QED
    BY <1>8, <2>2, <1>3, <1>7 DEF Run, Acquire, Check, Capabilities,
       BeginRunning, TakeBaseline, Choose, ProvisionNext, Gather, EndBatch, Finish,
       storeVars, TransitionRun, taskVars
<1>9. ASSUME NEW e \in Execs, NEW u \in Tasks, Work(e, u) \/ Abandon(e, u)
      PROVE  taskState'[t] # "INTERRUPTED"
  BY <1>9, <1>5, <1>3 DEF Work, Begin, Spawn, Supervised, Abandon, storeVars
<1>10. CASE Create \/ ApproveRun \/ UserChanges \/ UNCHANGED vars
  BY <1>10, <1>6 DEF Create, NewRun, AdvanceRun, PinTarget, CreateRun, TransitionRun,
     ApproveRun, RecordApproval, UserChanges, taskVars, storeVars, vars
<1>11. ASSUME NEW e \in Execs, Start(e) \/ Crash(e) \/ RequestStop(e)
       PROVE  taskState'[t] # "INTERRUPTED"
  BY <1>11 DEF Start, Crash, RequestStop, storeVars
<1>12. ASSUME NEW u \in Tasks, StrayExits(u) PROVE taskState'[t] # "INTERRUPTED"
  BY <1>12 DEF StrayExits, storeVars
<1>13. QED
  BY <1>2, <1>8, <1>9, <1>10, <1>11, <1>12 DEF Next

\* execution_lock makes restart recovery unambiguous: what it declares
\* interrupted has no executor any more, however many are started.
THEOREM RecoveryIsUnambiguous == ExecSpec => RecoversOnlyTheDead
<1>1. ASSUME ExecInv, BusyUnderLock, [Next]_vars, NEW t \in Tasks,
             taskState'[t] = "INTERRUPTED", taskState[t] # "INTERRUPTED"
      PROVE  worker[t] \in {"none", "stray"}
  <2>1. PICK e \in Execs : Holds(e, "recover")
    BY <1>1, OnlyRecoveryInterrupts
  <2>2. Busy = {}
    BY <1>1, <2>1 DEF Holds, BusyUnderLock
  <2>3. QED
    BY <1>1, <2>2 DEF Busy, ExecInv, ExecTypeOK, WorkerStates
<1>2. ExecInv /\ BusyUnderLock /\ [Next]_vars =>
        [\A t \in Tasks : taskState'[t] = "INTERRUPTED" /\ taskState[t] # "INTERRUPTED"
                             => worker[t] \in {"none", "stray"}]_vars
  BY <1>1
<1>3. QED
  BY <1>2, ExecutorCorrect, WorkersHaveAnExecutor, PTL DEF ExecSpec, RecoversOnlyTheDead

-----------------------------------------------------------------------------
(* The commit Workers run on. *)

\* At first nobody has read HEAD.
LEMMA HeadInit == Init => HeadInv
BY DEF Init, StoreInit, HeadInv, Driving, Driven, Busy, Ended

\* The rows of a run come from create_run's first transaction alone.
LEMMA OnlyNewRunCreates ==
  ASSUME ExecInv, creator = "NEW" <=> state = "ABSENT", [Next]_vars
  PROVE  creator' = "NEW" <=> state' = "ABSENT"
<1>1. state # "ABSENT" => state' # "ABSENT"
  BY StoreStep, RunStays DEF ExecInv
<1>2. ASSUME NEW p \in Plans, NewRun(p) PROVE creator' # "NEW" /\ state' # "ABSENT"
  BY <1>2 DEF NewRun, CreateRun
<1>3. AdvanceRun \/ PinTarget => creator # "NEW" /\ creator' # "NEW"
  BY DEF AdvanceRun, PinTarget, AfterStep
<1>4. ASSUME ApproveRun \/ UserChanges \/ UNCHANGED vars
      PROVE  creator' = creator /\ state' = state
  BY <1>4 DEF ApproveRun, RecordApproval, UserChanges, vars, userVars, storeVars, runVars
<1>5. ASSUME NEW e \in Execs, Start(e) \/ Run(e) \/ Crash(e) \/ RequestStop(e)
      PROVE  creator' = creator /\ (state = "ABSENT" => state' = "ABSENT")
  <2>1. creator' = creator
    BY <1>5 DEF Start, Run, Crash, RequestStop, Acquire, Recover, Check, Capabilities,
       BlockAll, BeginRunning, TakeBaseline, BlockDependent, Choose, ProvisionNext,
       Gather, EndBatch, Finish, userVars
  <2>2. CASE state = "ABSENT"
    <3>1. \A x \in Execs : pc[x] = "idle"
      BY <2>2 DEF ExecInv, RunExists
    <3>2. CASE Run(e)
      BY <3>1, <3>2 DEF Run, Acquire, Recover, Check, Capabilities, BlockAll,
         BeginRunning, TakeBaseline, BlockDependent, Choose, ProvisionNext,
         Gather, EndBatch, Finish, Holds, At
    <3>3. QED
      BY <1>5, <2>2, <3>2 DEF Start, Crash, RequestStop, storeVars
  <2>3. QED
    BY <2>1, <2>2
<1>6. ASSUME NEW e \in Execs, NEW t \in Tasks, Work(e, t) \/ Abandon(e, t)
      PROVE  creator' = creator /\ state # "ABSENT"
  BY <1>6 DEF Work, Begin, Spawn, Supervised, Collect, Abandon, userVars, Holds,
     ExecInv, RunExists
<1>7. ASSUME NEW t \in Tasks, StrayExits(t) PROVE creator' = creator /\ state' = state
  BY <1>7 DEF StrayExits, userVars, storeVars
<1>8. QED
  BY <1>1, <1>2, <1>3, <1>4, <1>5, <1>6, <1>7 DEF Next, Create

\* Unless HEAD came back in the loop: an executor that read the base commit
\* before the lock, and finds it when it provisions, had it as its baseline too.
LEMMA HeadStep == ExecInv /\ BusyUnderLock /\ HeadInv /\ [Next]_vars => HeadInv'
<1> SUFFICES ASSUME ExecInv, BusyUnderLock, HeadInv, [Next]_vars PROVE HeadInv'
  OBVIOUS
<1>0. creator' = "NEW" <=> state' = "ABSENT"
  BY OnlyNewRunCreates DEF HeadInv
<1>x. ExecTypeOK /\ RunExists
  BY DEF ExecInv
<1>y. (\E e \in Execs : pc[e] \in Driving) => creator # "NEW"
  BY <1>x DEF RunExists, Driving, HeadInv
<1> USE <1>0, <1>x, ExecAssumption DEF ExecTypeOK, HeadInv, Driving, Driven, Points,
        Busy, Ended, ctlVars, userVars, pastVars
<1>1. CASE UNCHANGED vars
  BY <1>1 DEF vars
<1>2. ASSUME NEW p \in Plans, NewRun(p) PROVE HeadInv'
  <2>1. \A e \in Execs : pc[e] = "idle"
    BY <1>2 DEF NewRun, CreateRun, RunExists
  <2>2. Busy = {}
    BY <2>1 DEF BusyUnderLock
  <2>3. QED
    BY <1>2, <2>1, <2>2 DEF NewRun
<1>3. CASE AdvanceRun \/ PinTarget \/ ApproveRun
  <2>1. creator # "NEW" \/ creator' = creator
    BY <1>3 DEF AdvanceRun, PinTarget, ApproveRun, AfterStep
  <2>2. UNCHANGED <<base, head, back, compared, pc, seen, baseline, worker>>
    BY <1>3 DEF AdvanceRun, PinTarget, ApproveRun
  <2>3. QED
    BY <2>1, <2>2
<1>4. ASSUME NEW e \in Execs, Start(e) \/ RequestStop(e) \/ Acquire(e) PROVE HeadInv'
  BY <1>4 DEF Start, RequestStop, Acquire, At, Goto
<1>5. ASSUME NEW e \in Execs, Crash(e) PROVE HeadInv'
  BY <1>5 DEF Crash, Return, Goto
<1>r. ASSUME NEW e \in Execs, lock = e, Return(e),
             pc[e] \notin {"provision", "gather"} \/ Busy = {}, worker' = worker,
             UNCHANGED <<creator, base, head, back, compared>>
      PROVE  HeadInv'
  <2>1. Busy = {} /\ Busy' = {}
    BY <1>r DEF BusyUnderLock
  <2>2. pc'[e] = "idle" /\ \A x \in Execs : x # e => pc'[x] \in {"idle", "locking"}
    BY <1>r DEF Return, Goto
  <2>3. QED
    BY <1>r, <2>1, <2>2
<1>6. ASSUME NEW e \in Execs, Recover(e) \/ Check(e) \/ Capabilities(e) \/ BlockAll(e)
      PROVE  HeadInv'
  <2>1. /\ lock = e /\ pc[e] \notin {"provision", "gather"} /\ worker' = worker
        /\ UNCHANGED <<creator, base, head, back, compared>>
    BY <1>6 DEF Recover, Check, Capabilities, BlockAll, Holds
  <2>2. CASE Return(e)
    BY <1>r, <2>1, <2>2
  <2>3. CASE ~Return(e)
    BY <1>6, <2>1, <2>3 DEF Recover, Check, Startable, Capabilities, BlockAll, Holds, Goto, Move
  <2>4. QED
    BY <2>2, <2>3
<1>7. ASSUME NEW e \in Execs, TakeBaseline(e) PROVE HeadInv'
  <2>1. Busy = {}
    BY <1>7 DEF TakeBaseline, Holds, BusyUnderLock
  <2>2. lock = e /\ pc[e] = "baseline" /\ seen[e] = base /\ creator # "NEW"
    BY <1>7, <1>y DEF TakeBaseline, Holds
  <2>3. \A x \in Execs : x # e => pc[x] \in {"idle", "locking"}
    BY <2>2
  <2>4. QED
    BY <1>7, <2>1, <2>2, <2>3 DEF TakeBaseline, Goto
<1>8. ASSUME NEW e \in Execs, BeginRunning(e) \/ BlockDependent(e) \/ Choose(e)
                              \/ Gather(e) \/ EndBatch(e) \/ Finish(e)
      PROVE  HeadInv'
  <2>1. /\ lock = e /\ worker' = worker
        /\ UNCHANGED <<creator, base, head, back, compared>>
    BY <1>8 DEF BeginRunning, BlockDependent, Choose, Gather, EndBatch, Finish, Holds
  <2>2. CASE Return(e) /\ (EndBatch(e) \/ Finish(e))
    <3>1. pc[e] \notin {"provision", "gather"} \/ Busy = {}
      BY <2>2 DEF EndBatch, Finish, Holds
    <3>2. QED
      BY <1>r, <2>1, <2>2, <3>1
  <2>3. CASE ~(Return(e) /\ (EndBatch(e) \/ Finish(e)))
    BY <1>8, <2>1, <2>3 DEF BeginRunning, BlockDependent, Choose, Gather, EndBatch, Finish,
       Holds, Goto, Move
  <2>4. QED
    BY <2>2, <2>3
<1>9. ASSUME NEW e \in Execs, NEW t \in Tasks, ProvisionNext(e, t) PROVE HeadInv'
  <2>1. seen[e] = base /\ creator # "NEW"
    BY <1>9, <1>y DEF ProvisionNext, Holds
  <2>2. head = seen[e] /\ ~back => baseline = base
    BY <1>9, <2>1 DEF ProvisionNext, Holds
  <2>3. QED
    BY <1>9, <2>2 DEF ProvisionNext, Holds, Goto, Move
<1>10. ASSUME NEW e \in Execs, NEW t \in Tasks, Work(e, t) \/ Abandon(e, t)
       PROVE  HeadInv'
  <2>1. CASE Supervised(e, t)
    <3>1. ~back => baseline = base
      BY <2>1 DEF Supervised
    <3>2. UNCHANGED <<creator, base, head, back, pc, seen, baseline, state>>
      BY <2>1 DEF Supervised, storeVars, runVars
    <3>3. compared \subseteq compared' /\ (worker'[t] = "good" => <<t, base>> \in compared' \/ back)
      BY <2>1, <3>1 DEF Supervised, SetWorker
    <3>4. \A u \in Tasks : u # t => worker'[u] = worker[u]
      BY <2>1 DEF Supervised, SetWorker
    <3>5. Busy' # {} => Busy # {}
      BY <2>1 DEF Supervised, SetWorker
    <3>6. QED
      BY <3>1, <3>2, <3>3, <3>4, <3>5
  <2>2. CASE ~Supervised(e, t)
    BY <1>10, <2>2 DEF Work, Begin, Spawn, Collect, Abandon, SetWorker
  <2>3. QED
    BY <2>1, <2>2
<1>11. ASSUME NEW t \in Tasks, StrayExits(t) PROVE HeadInv'
  BY <1>11 DEF StrayExits, SetWorker
<1>12. CASE UserChanges
  <2>1. UNCHANGED <<creator, base, pc, seen, baseline, worker, compared>> /\ state' = state
    BY <1>12 DEF UserChanges, storeVars, runVars
  <2>2. /\ back => back'
        /\ \A e \in Execs : pc[e] \in Driven /\ baseline # base /\ head' = base => back'
    BY <1>12, Zenon DEF UserChanges
  <2>3. QED
    BY <2>1, <2>2
<1>13. QED
  BY <1>1, <1>2, <1>3, <1>4, <1>5, <1>6, <1>7, <1>8, <1>9, <1>10, <1>11, <1>12
     DEF Next, Create, Run

\* A batch runs with the base commit of the run as its baseline, and only a
\* comparison with that commit makes a result good, unless HEAD was away when
\* the baseline was taken and came back in the loop.
THEOREM HeadCorrect == ExecSpec => []HeadInv
BY ExecutorCorrect, WorkersHaveAnExecutor, HeadInit, HeadStep, PTL DEF ExecSpec

\* Only a Worker whose result is collected succeeds.
LEMMA OnlyCollectSucceeds ==
  ASSUME ExecInv, [Next]_vars, NEW t \in Tasks,
         taskState'[t] = "SUCCEEDED", taskState[t] # "SUCCEEDED"
  PROVE  \E e \in Execs, u \in Tasks :
           Collect(e, u) /\ Outcome(worker[u]) = "SUCCEEDED" /\ u = t
<1> USE DEF ExecInv, TypeOK
<1>1. \A s : \A u \in Tasks : SetTask(u, s) /\ taskState'[t] # taskState[t] => taskState'[t] = s
  BY DEF SetTask
<1>2. \A u \in Tasks : RecordWorktree(u) \/ BeginAttempt(u) \/ BlockTask(u)
                          => taskState'[t] # "SUCCEEDED"
  BY <1>1 DEF RecordWorktree, BeginAttempt, BlockTask
<1>3. RecoverInterrupted \/ InitializeExecution => taskState'[t] # "SUCCEEDED"
  BY DEF RecoverInterrupted, InitializeExecution
<1>4. \A s : TransitionRun(s) => taskState' = taskState
  BY DEF TransitionRun, taskVars
<1>5. ASSUME NEW e \in Execs, NEW u \in Tasks, Collect(e, u)
      PROVE  Outcome(worker[u]) = "SUCCEEDED" /\ u = t
  <2>1. SetTask(u, Outcome(worker[u]))
    BY <1>5 DEF Collect, FinishAttempt
  <2>2. QED
    BY <1>1, <2>1 DEF SetTask
<1>6. ASSUME NEW e \in Execs, Run(e) PROVE FALSE
  <2>1. (Hopeless \subseteq Tasks /\ queue \subseteq Tasks) \/ pc[e] = "idle"
    BY PlanTasksAreTasks DEF RunExists, ExecTypeOK, Hopeless, BlockedDependents
  <2>2. ASSUME BlockAll(e) \/ BlockDependent(e) PROVE FALSE
    BY <2>1, <2>2, <1>2, <1>4 DEF BlockAll, BlockDependent, Holds, ExecTypeOK
  <2>3. QED
    BY <1>6, <2>2, <1>2, <1>3, <1>4 DEF Run, Acquire, Recover, Check, Capabilities,
       BeginRunning, TakeBaseline, Choose, ProvisionNext, Gather, EndBatch, Finish,
       storeVars
<1>7. CASE Create \/ ApproveRun \/ UserChanges \/ UNCHANGED vars
  BY <1>7, <1>3 DEF Create, NewRun, AdvanceRun, PinTarget, CreateRun, TransitionRun,
     ApproveRun, RecordApproval, UserChanges, taskVars, storeVars, vars
<1>8. ASSUME NEW e \in Execs, Start(e) \/ Crash(e) \/ RequestStop(e) PROVE FALSE
  BY <1>8 DEF Start, Crash, RequestStop, storeVars
<1>9. ASSUME NEW e \in Execs, NEW u \in Tasks, Work(e, u) \/ Abandon(e, u)
      PROVE  Collect(e, u)
  BY <1>9, <1>2 DEF Work, Begin, Spawn, Supervised, Abandon, storeVars
<1>10. ASSUME NEW u \in Tasks, StrayExits(u) PROVE FALSE
  BY <1>10 DEF StrayExits, storeVars
<1>11. QED
  BY <1>5, <1>6, <1>7, <1>8, <1>9, <1>10 DEF Next

\* What was compared stays so, once the run exists.
LEMMA ComparisonsStay ==
  ASSUME ExecInv, HeadInv, [Next]_vars, state # "ABSENT"
  PROVE  compared \subseteq compared' /\ base' = base /\ (back => back')
<1>1. creator # "NEW"
  BY DEF HeadInv
<1>2. \A p \in Plans : ~NewRun(p)
  BY <1>1 DEF NewRun
<1> DEFINE Stay == compared \subseteq compared' /\ base' = base /\ (back => back')
<1>3. CASE AdvanceRun \/ PinTarget \/ ApproveRun \/ UNCHANGED vars
  BY <1>3 DEF vars, userVars, pastVars, AdvanceRun, PinTarget, ApproveRun
<1>c. CASE UserChanges
  <2>1. compared' = compared /\ base' = base /\ (back => back')
    BY <1>c, Zenon DEF UserChanges
  <2>2. QED
    BY <2>1
<1>4. ASSUME NEW e \in Execs, Start(e) \/ Crash(e) \/ RequestStop(e) PROVE Stay
  BY <1>4 DEF Start, RequestStop, Crash, pastVars
<1>5. ASSUME NEW e \in Execs, Run(e) PROVE Stay
  BY <1>5 DEF Run, Acquire, Recover, Check, Capabilities, BlockAll, BeginRunning, TakeBaseline,
     BlockDependent, Choose, ProvisionNext, Gather, EndBatch, Finish, userVars, pastVars
<1>6. ASSUME NEW e \in Execs, NEW t \in Tasks, Work(e, t) \/ Abandon(e, t) PROVE Stay
  BY <1>6 DEF Work, Begin, Spawn, Supervised, Collect, Abandon, userVars, pastVars
<1>7. ASSUME NEW t \in Tasks, StrayExits(t) PROVE Stay
  BY <1>7 DEF StrayExits, userVars, pastVars
<1>8. QED
  BY <1>2, <1>3, <1>c, <1>4, <1>5, <1>6, <1>7 DEF Next, Create

\* Only a run that exists has a target, and with it task rows.
TargetOfRun == state = "ABSENT" => ~ targeted

LEMMA TargetHasRun == StoreSpec => []TargetOfRun
<1>1. StoreInit => TargetOfRun
  BY DEF StoreInit, TargetOfRun
<1>2. ASSUME TypeOK, TargetOfRun, [StoreNext]_storeVars PROVE TargetOfRun'
  <2>1. state # "ABSENT" => state' # "ABSENT"
    BY <1>2, RunStays
  <2>2. InitializeExecution => state # "ABSENT"
    BY DEF InitializeExecution
  <2>3. InitializeExecution \/ targeted' = targeted
    BY <1>2 DEF StoreNext, storeVars, taskVars, CreateRun, TransitionRun, ReplacePlan,
       RecordApproval, SetReviewedResult, RecordWorktree, BeginAttempt, FinishAttempt,
       BlockTask, RecoverInterrupted
  <2>4. QED
    BY <1>2, <2>1, <2>2, <2>3, Zenon DEF TargetOfRun
<1>3. QED
  BY <1>1, <1>2, TypeCorrect, PTL DEF StoreSpec

\* A task only succeeds when its result was compared with a checkout at the
\* commit the run was created for, whenever the user commits and however often
\* it is started, unless HEAD was away when the baseline was taken and came
\* back in the loop.
THEOREM SuccessIsOnBase == ExecSpec => []SucceedsOnBase
<1>1. Init => SucceedsOnBase
  BY DEF Init, StoreInit, SucceedsOnBase
<1>2. ASSUME ExecInv, HeadInv, TaskInv, TargetOfRun, [Next]_vars, SucceedsOnBase
      PROVE  SucceedsOnBase'
  <2>1. SUFFICES ASSUME NEW t \in Tasks, taskState'[t] = "SUCCEEDED"
                 PROVE  <<t, base'>> \in compared' \/ back'
    BY DEF SucceedsOnBase
  <2>2. CASE taskState[t] = "SUCCEEDED"
    <3>1. state # "ABSENT"
      BY <2>2, <1>2 DEF TaskInv, RowsNeedTarget, TargetOfRun
    <3>2. QED
      BY <1>2, <2>2, <3>1, ComparisonsStay DEF SucceedsOnBase
  <2>3. CASE taskState[t] # "SUCCEEDED"
    <3>1. PICK e \in Execs, u \in Tasks : Collect(e, u) /\ Outcome(worker[u]) = "SUCCEEDED" /\ u = t
      BY <1>2, <2>1, <2>3, OnlyCollectSucceeds
    <3>2. worker[t] = "good"
      BY <3>1 DEF Outcome
    <3>3. UNCHANGED userVars
      BY <3>1 DEF Collect
    <3>4. QED
      BY <1>2, <3>2, <3>3 DEF HeadInv, userVars, pastVars
  <2>4. QED
    BY <2>2, <2>3
<1>3. QED
  BY <1>1, <1>2, ExecutorCorrect, HeadCorrect, ExecutorUsesTheStore, TaskCorrect,
     TargetHasRun, PTL DEF ExecSpec

-----------------------------------------------------------------------------
(* While start_run drives the run, the rows are what it believes they are: *)
(* no store call it makes is refused half-way, for any plan, any number of *)
(* executors and any crashes, stops and commits.                           *)

(* The inductive invariant, in the order in which its parts are proved.    *)

Provisioning == {"capabilities", "starting", "blocking"}
Running == {"baseline", "loop", "provision", "gather", "finish"}

\* The state of the run follows the place of the driver.
StateInv ==
  \A e \in Execs : lock = e =>
    /\ pc[e] \in Provisioning => state = "PROVISIONING"
    /\ pc[e] \in Running => state = "RUNNING"

\* The rows of the Workers: a prepared one can begin, an attended one has.
WorkerRow(t) ==
  /\ worker[t] = "ready" =>
       taskState[t] = "PROVISIONED" /\ t \in worktrees /\ RequireReadyTask(t)
  /\ worker[t] \in Attended => attempts[t] = <<"RUNNING">>
WorkerRows == \A t \in Tasks : WorkerRow(t)

\* The rows of the driven plan: they are those of the approved version, none
\* is touched before the loop, and those queued are as they were chosen.
Untouched == {"capabilities", "starting", "baseline"}
PlanRows(e) ==
  /\ \A t \in PlanTasks : assigned[t] = Assignment[plan][t]
  /\ pc[e] \in Untouched =>
       \A t \in Tasks : taskState[t] = IF t \in PlanTasks THEN "PENDING" ELSE "ABSENT"
QueuedRows(e) ==
  /\ pc[e] \in {"blocking", "provision"} => \A t \in queue : taskState[t] = "PENDING"
  /\ pc[e] = "provision" => \A t \in queue : RequireReadyTask(t)
RunningRows(e) ==
  e \notin stop \ Fleet => \A t \in Tasks : taskState[t] = "RUNNING" => worker[t] \in Attended

DriverRows ==
  \A e \in Execs : lock = e /\ pc[e] \in Driving =>
    PlanRows(e) /\ QueuedRows(e) /\ RunningRows(e)

RowInv == WorkerRows /\ DriverRows

\* What is known already of every reachable state.
Known == ExecInv /\ TaskInv /\ BusyUnderLock /\ ExecutionApproved

LEMMA KnownAlways == ExecSpec => []Known
BY ExecutorCorrect, WorkersHaveAnExecutor, ExecutorUsesTheStore, TaskCorrect,
   ExecutionIsApproved, PTL DEF Known

-----------------------------------------------------------------------------
(* Who moves what.                                                         *)

\* A driver is past the check of the lock.
LEMMA Places ==
  /\ Driving = Provisioning \cup Running
  /\ "recover" \notin Driving /\ "check" \notin Driving /\ "idle" \notin Driving
  /\ "locking" \notin Driving
BY DEF Driving, Provisioning, Running, Points

\* A step that is not the driver's leaves the driver where it is.
Aside ==
  \/ Create \/ ApproveRun \/ UserChanges
  \/ \E e \in Execs : Start(e) \/ RequestStop(e) \/ Acquire(e) \/ Crash(e)
  \/ \E t \in Tasks : StrayExits(t)

LEMMA AsideLeavesDriver ==
  ASSUME Known, Aside, NEW e \in Execs, lock' = e, pc'[e] \in Driving
  PROVE  /\ lock = e /\ pc'[e] = pc[e] /\ queue' = queue
         /\ e \notin stop' \ Fleet => e \notin stop \ Fleet
<1> USE DEF Known, ExecInv, ExecTypeOK
<1>1. CASE Create \/ ApproveRun \/ UserChanges \/ \E t \in Tasks : StrayExits(t)
  BY <1>1 DEF Create, NewRun, AdvanceRun, PinTarget, ApproveRun, UserChanges, StrayExits,
     ctlVars, userVars
<1>2. ASSUME NEW x \in Execs, Start(x) \/ RequestStop(x)
      PROVE  /\ lock = e /\ pc'[e] = pc[e] /\ queue' = queue
             /\ e \notin stop' \ Fleet => e \notin stop \ Fleet
  BY <1>2, Places DEF Start, RequestStop, At, Goto, ctlVars
<1>3. ASSUME NEW x \in Execs, Acquire(x) \/ Crash(x)
      PROVE  /\ lock = e /\ pc'[e] = pc[e] /\ queue' = queue
             /\ e \notin stop' \ Fleet => e \notin stop \ Fleet
  BY <1>3, Places, ExecAssumption DEF Acquire, Crash, Return, At, Goto, ctlVars, userVars
<1> QED
  BY <1>1, <1>2, <1>3 DEF Aside

\* It leaves the run and its rows alone, too.
LEMMA AsideLeavesRows ==
  ASSUME Known, StateInv, Aside, NEW e \in Execs, lock = e, pc[e] \in Driving
  PROVE  UNCHANGED <<state, plan, taskVars>>
<1> USE DEF Known, ExecInv, ExecTypeOK
<1>1. state \in {"PROVISIONING", "RUNNING"}
  BY Places DEF StateInv
<1>2. CASE Create
  <2>1. ~ \E p \in Plans : NewRun(p)
    BY <1>1 DEF NewRun, CreateRun
  <2>2. ~ AdvanceRun
    BY <1>1 DEF AdvanceRun, AfterStep, TransitionRun, MoveRun, TransitionAllowed,
       LegalTransitions
  <2>3. ~ PinTarget
    BY <1>1 DEF PinTarget, InitializeExecution
  <2> QED
    BY <1>2, <2>1, <2>2, <2>3 DEF Create
<1>3. CASE ApproveRun
  BY <1>3 DEF ApproveRun, RecordApproval, runVars
<1>4. CASE UserChanges \/ (\E x \in Execs : Start(x) \/ RequestStop(x) \/ Acquire(x) \/ Crash(x))
             \/ \E t \in Tasks : StrayExits(t)
  BY <1>4 DEF UserChanges, Start, RequestStop, Acquire, Crash, StrayExits, storeVars, taskVars
<1> QED
  BY <1>2, <1>3, <1>4 DEF Aside

-----------------------------------------------------------------------------
(* The state of the run follows the driver.                                *)

LEMMA StateInit == Init => StateInv
BY ExecAssumption DEF Init, StateInv

LEMMA StateStep == Known /\ StateInv /\ [Next]_vars => StateInv'
<1> SUFFICES ASSUME Known, StateInv, [Next]_vars PROVE StateInv'
  OBVIOUS
<1>0. ExecTypeOK
  BY DEF Known, ExecInv
<1> USE <1>0, ExecAssumption DEF ExecTypeOK, StateInv, Provisioning, Running
<1>1. CASE Aside
  <2> SUFFICES ASSUME NEW e \in Execs, lock' = e, pc'[e] \in Driving
               PROVE  /\ pc'[e] \in Provisioning => state' = "PROVISIONING"
                      /\ pc'[e] \in Running => state' = "RUNNING"
    BY Places
  <2>1. lock = e /\ pc'[e] = pc[e]
    BY <1>1, AsideLeavesDriver
  <2>2. state' = state
    BY <1>1, <2>1, AsideLeavesRows
  <2> QED BY <2>1, <2>2
<1>2. ASSUME NEW e \in Execs, NEW t \in Tasks, ProvisionNext(e, t) \/ Work(e, t) \/ Abandon(e, t)
      PROVE  StateInv'
  <2>1. UNCHANGED <<state, lock, pc>>
    BY <1>2 DEF ProvisionNext, Work, Begin, Spawn, Supervised, Collect, Abandon, Holds, Move, Goto,
       RecordWorktree, BlockTask, BeginAttempt, FinishAttempt, runVars, storeVars, ctlVars
  <2> QED BY <2>1
<1>3. ASSUME NEW e \in Execs, Recover(e) \/ EndBatch(e) \/ Finish(e) \/ Capabilities(e)
      PROVE  StateInv'
  BY <1>3 DEF Recover, EndBatch, Finish, Capabilities, Holds, Return, Move, Goto, storeVars
<1>4. ASSUME NEW e \in Execs, Check(e) \/ BeginRunning(e) \/ BlockAll(e)
      PROVE  StateInv'
  BY <1>4 DEF Check, BeginRunning, BlockAll, Holds, Return, Move, Goto, TransitionRun, MoveRun,
     BlockTask, runVars
<1>5. ASSUME NEW e \in Execs, TakeBaseline(e) \/ BlockDependent(e) \/ Choose(e) \/ Gather(e)
      PROVE  StateInv'
  BY <1>5 DEF TakeBaseline, BlockDependent, Choose, Gather, Holds, Move, Goto, BlockTask, runVars,
     storeVars, ctlVars
<1>6. CASE UNCHANGED vars
  BY <1>6 DEF vars, ctlVars, storeVars
<1> QED
  BY <1>1, <1>2, <1>3, <1>4, <1>5, <1>6 DEF Next, Run, Aside

\* The run is in the state its driver left it in, whatever others do.
THEOREM StateFollowsDriver == ExecSpec => []StateInv
BY KnownAlways, StateInit, StateStep, PTL DEF ExecSpec

-----------------------------------------------------------------------------
(* Rows that a step leaves alone.                                          *)

\* A task that can begin stays so while plan and assignments stay: what it
\* waited for has succeeded for good.
LEMMA StaysReady ==
  ASSUME Known, [Next]_vars, NEW t \in Tasks, RequireReadyTask(t), state # "ABSENT",
         UNCHANGED <<plan, assigned>>
  PROVE  RequireReadyTask(t)'
<1>1. plan \in Plans
  BY DEF Known, ExecInv, TypeOK
<1>2. ASSUME NEW d \in Deps[plan][t] PROVE taskState'[d] = "SUCCEEDED"
  <2>1. d \in Tasks /\ taskState[d] = "SUCCEEDED"
    BY <1>1, <1>2, DependenciesAreTasks DEF RequireReadyTask
  <2>2. [StoreNext]_storeVars
    BY StoreStep DEF Known
  <2> QED BY <2>1, <2>2, SettledStep DEF Known, ExecInv
<1> QED BY <1>2 DEF RequireReadyTask

\* A task whose row a step changes is the one it is about.
LEMMA OneRow ==
  ASSUME Known, NEW t \in Tasks, NEW s, SetTask(t, s)
  PROVE  taskState'[t] = s /\ \A u \in Tasks \ {t} : taskState'[u] = taskState[u]
BY DEF Known, ExecInv, TypeOK, SetTask

-----------------------------------------------------------------------------
(* The rows of the Workers.                                                *)

LEMMA WorkersInit == Init => WorkerRows
BY DEF Init, WorkerRows, WorkerRow, Attended, Ended

\* A prepared or attended Worker has a driver at one of two places.
LEMMA BusyHasDriver ==
  ASSUME Known, NEW t \in Tasks, worker[t] = "ready" \/ worker[t] \in Attended
  PROVE  /\ lock \in Execs /\ pc[lock] \in {"provision", "gather"} /\ state # "ABSENT"
         /\ pc[lock] \in Driving
<1>1. Busy # {}
  BY DEF Busy, Attended
<1> QED
  BY <1>1 DEF Known, BusyUnderLock, ExecInv, ExecTypeOK, RunExists, Driving, Points

\* A step that leaves a Worker and its row alone keeps what is said of them.
LEMMA WorkerFrame ==
  ASSUME Known, WorkerRows, [Next]_vars, NEW t \in Tasks,
         UNCHANGED <<plan, assigned>>, worktrees \subseteq worktrees',
         worker'[t] = worker[t], taskState'[t] = taskState[t], attempts'[t] = attempts[t]
  PROVE  WorkerRow(t)'
<1>1. WorkerRow(t)
  BY DEF WorkerRows
<1>2. ASSUME worker[t] = "ready" PROVE RequireReadyTask(t)'
  BY <1>1, <1>2, BusyHasDriver, StaysReady DEF WorkerRow
<1> QED BY <1>1, <1>2 DEF WorkerRow

LEMMA WorkersStep == Known /\ StateInv /\ RowInv /\ [Next]_vars => WorkerRows'
<1> SUFFICES ASSUME Known, StateInv, WorkerRows, DriverRows, [Next]_vars, NEW u \in Tasks
             PROVE  WorkerRow(u)'
  BY DEF RowInv, WorkerRows
<1>0. TypeOK /\ ExecTypeOK
  BY DEF Known, ExecInv
<1>1. CASE Aside
  <2>1. worker'[u] = "ready" \/ worker'[u] \in Attended => worker'[u] = worker[u]
    BY <1>1, <1>0 DEF Aside, Create, NewRun, AdvanceRun, PinTarget, ApproveRun, UserChanges, Start,
       RequestStop, Acquire, Crash, StrayExits, SetWorker, Attended, Ended, ExecTypeOK
  <2>2. CASE worker'[u] = worker[u] /\ (worker[u] = "ready" \/ worker[u] \in Attended)
    <3>1. UNCHANGED <<plan, taskVars>>
      BY <1>1, <2>2, BusyHasDriver, AsideLeavesRows
    <3> QED BY <2>2, <3>1, WorkerFrame DEF taskVars
  <2> QED BY <2>1, <2>2 DEF WorkerRow
<1>2. ASSUME NEW e \in Execs, Recover(e) \/ Check(e) \/ Capabilities(e) \/ BlockAll(e)
               \/ BeginRunning(e) \/ TakeBaseline(e) \/ BlockDependent(e) \/ Choose(e)
               \/ EndBatch(e) \/ Finish(e)
      PROVE  WorkerRow(u)'
  <2>1. worker' = worker /\ (Busy = {} \/ (lock = e /\ pc[e] \notin {"provision", "gather"}))
    BY <1>2 DEF Recover, Check, Capabilities, BlockAll, BeginRunning, TakeBaseline, BlockDependent,
       Choose, EndBatch, Finish, Holds
  <2>2. Busy = {}
    BY <2>1 DEF Known, BusyUnderLock
  <2> QED BY <2>1, <2>2 DEF Busy, WorkerRow, Attended
<1>3. ASSUME NEW e \in Execs, NEW t \in Tasks, ProvisionNext(e, t) PROVE WorkerRow(u)'
  <2>1. /\ taskState[t] = "PENDING" /\ RequireReadyTask(t)
        /\ state # "ABSENT"
    BY <1>3, Places, <1>0 DEF ProvisionNext, IsFirst, Holds, DriverRows, QueuedRows, Running,
       Known, ExecInv, RunExists
  <2>2. CASE BlockTask(t) /\ worker' = worker
    <3>1. u # t => taskState'[u] = taskState[u]
      BY <2>2, OneRow DEF BlockTask
    <3>2. UNCHANGED <<plan, assigned, worktrees, attempts>>
      BY <2>2 DEF BlockTask, runVars
    <3>3. CASE u # t
      BY <3>1, <3>2, <3>3, <2>2, WorkerFrame
    <3>4. CASE u = t
      BY <3>2, <3>4, <2>1, <2>2 DEF WorkerRows, WorkerRow
    <3> QED BY <3>3, <3>4
  <2>3. CASE RecordWorktree(t) /\ worker' = [worker EXCEPT ![t] = "ready"]
    <3>1. taskState'[t] = "PROVISIONED" /\ (u # t => taskState'[u] = taskState[u])
      BY <2>3, OneRow DEF RecordWorktree
    <3>2. UNCHANGED <<plan, assigned, attempts>> /\ worktrees' = worktrees \cup {t}
      BY <2>3 DEF RecordWorktree, runVars
    <3>3. worker'[t] = "ready" /\ (u # t => worker'[u] = worker[u])
      BY <2>3, <1>0 DEF ExecTypeOK
    <3>4. CASE u # t
      BY <3>1, <3>2, <3>3, <3>4, WorkerFrame
    <3>5. RequireReadyTask(t)'
      BY <2>1, <3>2, StaysReady
    <3>6. CASE u = t
      BY <3>1, <3>2, <3>3, <3>5, <3>6 DEF WorkerRow, Attended, Ended
    <3> QED BY <3>4, <3>6
  <2> QED BY <1>3, <2>2, <2>3 DEF ProvisionNext
<1>4. ASSUME NEW e \in Execs, Gather(e) PROVE WorkerRow(u)'
  BY <1>4, WorkerFrame DEF Gather, storeVars
<1>5. ASSUME NEW e \in Execs, NEW t \in Tasks, Begin(e, t) PROVE WorkerRow(u)'
  <2>1. /\ attempts'[t] = <<"RUNNING">> /\ (u # t => attempts'[u] = attempts[u])
        /\ UNCHANGED <<plan, assigned, worktrees>>
    BY <1>5, <1>0 DEF Begin, BeginAttempt, runVars, TypeOK
  <2>2. worker'[t] = "begun" /\ (u # t => worker'[u] = worker[u])
    BY <1>5, <1>0 DEF Begin, SetWorker, ExecTypeOK
  <2>3. u # t => taskState'[u] = taskState[u]
    BY <1>5, OneRow DEF Begin, BeginAttempt
  <2>4. CASE u # t
    BY <2>1, <2>2, <2>3, <2>4, WorkerFrame
  <2>5. CASE u = t
    BY <2>1, <2>2, <2>5 DEF WorkerRow
  <2> QED BY <2>4, <2>5
<1>6. ASSUME NEW e \in Execs, NEW t \in Tasks,
             Spawn(e, t) \/ Supervised(e, t) \/ Abandon(e, t)
      PROVE  WorkerRow(u)'
  <2>1. UNCHANGED storeVars
    BY <1>6 DEF Spawn, Supervised, Abandon
  <2>2. u # t => worker'[u] = worker[u]
    BY <1>6, <1>0 DEF Spawn, Supervised, Abandon, SetWorker, ExecTypeOK
  <2>3. worker'[t] = "none" \/ (worker[t] \in Attended /\ worker'[t] \in Attended)
    BY <1>6, <1>0 DEF Spawn, Supervised, Abandon, SetWorker, ExecTypeOK, Attended, Ended
  <2>4. CASE u # t
    BY <2>1, <2>2, <2>4, WorkerFrame DEF storeVars
  <2>5. CASE u = t
    BY <2>1, <2>3, <2>5 DEF WorkerRows, WorkerRow, storeVars, Attended, Ended
  <2> QED BY <2>4, <2>5
<1>7. ASSUME NEW e \in Execs, NEW t \in Tasks, Collect(e, t) PROVE WorkerRow(u)'
  <2>1. /\ UNCHANGED <<plan, assigned, worktrees>>
        /\ u # t => attempts'[u] = attempts[u]
    BY <1>7, <1>0 DEF Collect, FinishAttempt, runVars, TypeOK
  <2>2. worker'[t] = "none" /\ (u # t => worker'[u] = worker[u])
    BY <1>7, <1>0 DEF Collect, SetWorker, ExecTypeOK
  <2>3. u # t => taskState'[u] = taskState[u]
    BY <1>7, OneRow DEF Collect, FinishAttempt
  <2>4. CASE u # t
    BY <2>1, <2>2, <2>3, <2>4, WorkerFrame
  <2>5. CASE u = t
    BY <2>2, <2>5 DEF WorkerRow, Attended, Ended
  <2> QED BY <2>4, <2>5
<1>8. CASE UNCHANGED vars
  BY <1>8, WorkerFrame DEF vars, storeVars
<1> QED
  BY <1>1, <1>2, <1>3, <1>4, <1>5, <1>6, <1>7, <1>8 DEF Next, Run, Work, Aside

-----------------------------------------------------------------------------
(* The rows of the driven plan.                                            *)

LEMMA DriverInit == Init => DriverRows
BY ExecAssumption DEF Init, DriverRows

\* A step that touches one row at most, and that not into RUNNING, keeps what
\* is said of the RUNNING rows if it leaves the attended Workers attended.
LEMMA RunningFrame ==
  ASSUME NEW e \in Execs, RunningRows(e), e \notin stop' \ Fleet => e \notin stop \ Fleet,
         \A t \in Tasks : worker[t] \in Attended =>
           worker'[t] \in Attended \/ taskState'[t] # "RUNNING",
         \A t \in Tasks : taskState'[t] = "RUNNING" =>
           taskState[t] = "RUNNING" \/ worker'[t] \in Attended
  PROVE  RunningRows(e)'
BY DEF RunningRows

LEMMA DriverStep == Known /\ StateInv /\ RowInv /\ [Next]_vars => DriverRows'
<1> SUFFICES ASSUME Known, StateInv, WorkerRows, DriverRows, [Next]_vars,
                    NEW e \in Execs, lock' = e, pc'[e] \in Driving
             PROVE  PlanRows(e)' /\ QueuedRows(e)' /\ RunningRows(e)'
  BY DEF RowInv, DriverRows
<1>0. TypeOK /\ ExecTypeOK /\ RunExists
  BY DEF Known, ExecInv
<1>a. lock = e /\ pc[e] \in Driving => PlanRows(e) /\ QueuedRows(e) /\ RunningRows(e)
  BY DEF DriverRows
<1>1. CASE Aside
  <2>1. /\ lock = e /\ pc'[e] = pc[e] /\ queue' = queue
        /\ e \notin stop' \ Fleet => e \notin stop \ Fleet
    BY <1>1, AsideLeavesDriver
  <2>2. UNCHANGED <<plan, taskVars>>
    BY <1>1, <2>1, AsideLeavesRows
  <2>3. PlanRows(e) /\ QueuedRows(e) /\ RunningRows(e)
    BY <1>a, <2>1
  <2>4. \A t \in Tasks : worker[t] \in Attended => worker'[t] \in Attended
    BY <1>1, <1>0, <2>1, ExecAssumption
       DEF Aside, Create, NewRun, AdvanceRun, PinTarget, ApproveRun, UserChanges, Start,
       RequestStop, Acquire, Crash, Return, StrayExits, SetWorker, Attended, Ended, ExecTypeOK
  <2>5. RunningRows(e)'
    BY <2>1, <2>2, <2>3, <2>4, RunningFrame DEF taskVars
  <2>6. PlanRows(e)' /\ QueuedRows(e)'
    BY <2>1, <2>2, <2>3 DEF PlanRows, QueuedRows, PlanTasks, RequireReadyTask, taskVars
  <2> QED BY <2>5, <2>6
<1>2. ASSUME NEW x \in Execs, Check(x)
      PROVE  PlanRows(e)' /\ QueuedRows(e)' /\ RunningRows(e)'
  <2>1. Startable(x) /\ TransitionRun("PROVISIONING") /\ x = e /\ pc'[e] = "capabilities"
    BY <1>2, <1>0, ExecAssumption DEF Check, Holds, Return, Move, Goto, ExecTypeOK
  <2>2. UNCHANGED <<plan, taskVars>>
    BY <2>1 DEF TransitionRun
  <2>3. PlanRows(e)' /\ QueuedRows(e)'
    <3>1. PlanTasks \subseteq Tasks
      BY <1>2, <1>0, PlanTasksAreTasks DEF Check, Holds, RunExists
    <3>2. \A t \in Tasks : IF t \in PlanTasks
                          THEN taskState[t] = "PENDING" /\ assigned[t] = Assignment[plan][t]
                          ELSE taskState[t] = "ABSENT"
      BY <2>1 DEF Startable
    <3> QED BY <2>1, <2>2, <3>1, <3>2 DEF PlanRows, QueuedRows, PlanTasks, taskVars
  <2>4. \A t \in Tasks : taskState'[t] # "RUNNING"
    BY <2>1, <2>2 DEF Startable, taskVars
  <2> QED BY <2>3, <2>4 DEF RunningRows
<1>3. ASSUME NEW x \in Execs, Recover(x) \/ Finish(x)
      PROVE  FALSE
  BY <1>3, <1>0, Places, ExecAssumption DEF Recover, Finish, Holds, Return, Move, Goto, ExecTypeOK
<1>4. ASSUME NEW x \in Execs, Capabilities(x) \/ BeginRunning(x) \/ TakeBaseline(x)
               \/ Choose(x) \/ Gather(x) \/ EndBatch(x)
      PROVE  PlanRows(e)' /\ QueuedRows(e)' /\ RunningRows(e)'
  <2>1. /\ x = e /\ lock = e /\ pc[e] \in Driving
        /\ UNCHANGED <<plan, taskVars, worker, stop>>
        /\ pc'[e] \in Untouched => pc[e] \in Untouched
        /\ pc'[e] \in {"blocking", "provision"} =>
             \/ pc[e] = "capabilities" /\ pc'[e] = "blocking" /\ queue' = PlanTasks
             \/ pc[e] = "loop" /\ queue' = Ready
    BY <1>4, <1>0, Places, ExecAssumption DEF Capabilities, BeginRunning, TakeBaseline, Choose,
       Gather, EndBatch, Holds, Return, Move, Goto, Untouched, ExecTypeOK, storeVars, taskVars,
       TransitionRun, userVars, Provisioning, Running
  <2>2. PlanRows(e) /\ RunningRows(e)
    BY <1>a, <2>1
  <2>3. RunningRows(e)'
    BY <2>1, <2>2, RunningFrame DEF taskVars
  <2>4. PlanRows(e)'
    BY <2>1, <2>2 DEF PlanRows, PlanTasks, taskVars
  <2>5. PlanTasks \subseteq Tasks
    BY <2>1, <1>0, PlanTasksAreTasks, Places DEF RunExists
  <2>6. CASE pc[e] = "capabilities" /\ pc'[e] = "blocking" /\ queue' = PlanTasks
    <3>1. \A t \in PlanTasks : taskState[t] = "PENDING"
      BY <2>2, <2>5, <2>6 DEF PlanRows, Untouched
    <3>2. \A t \in queue' : taskState'[t] = "PENDING"
      BY <2>1, <2>6, <3>1 DEF taskVars
    <3> QED BY <2>3, <2>4, <2>6, <3>2 DEF QueuedRows
  <2>7. CASE queue' = Ready
    <3>1. \A t \in Ready : t \in PlanTasks /\ taskState[t] = "PENDING"
                          /\ \A d \in Deps[plan][t] : taskState[d] = "SUCCEEDED"
      BY DEF Ready, ReadyTasks, Eligible
    <3>2. \A t \in Ready : RequireReadyTask(t)
      BY <3>1, <2>2 DEF RequireReadyTask, PlanRows, PlanTasks
    <3>3. \A t \in queue' : taskState'[t] = "PENDING"
      BY <2>1, <2>7, <3>1 DEF taskVars
    <3>4. \A t \in queue' : RequireReadyTask(t)'
      BY <2>1, <2>7, <3>2 DEF RequireReadyTask, taskVars
    <3> QED BY <2>3, <2>4, <3>3, <3>4 DEF QueuedRows
  <2> QED BY <2>1, <2>3, <2>4, <2>6, <2>7 DEF QueuedRows
<1>5. ASSUME NEW x \in Execs, BlockAll(x) \/ BlockDependent(x)
      PROVE  PlanRows(e)' /\ QueuedRows(e)' /\ RunningRows(e)'
  <2>1. x = e /\ lock = e /\ pc'[e] = pc[e] /\ pc[e] \in {"blocking", "loop"}
        /\ UNCHANGED <<worker, stop>>
    BY <1>5, <1>0, ExecAssumption DEF BlockAll, BlockDependent, Holds, Return, Move, Goto, ctlVars,
       userVars, ExecTypeOK
  <2>2. PlanRows(e) /\ QueuedRows(e) /\ RunningRows(e)
    BY <1>a, <2>1, Places DEF Provisioning, Running
  <2>3. PlanTasks \subseteq Tasks /\ queue \subseteq Tasks
    BY <2>1, <1>0, PlanTasksAreTasks DEF RunExists, ExecTypeOK
  <2>4. PICK t \in Tasks : BlockTask(t) /\ (pc[e] = "blocking" => queue' = queue \ {t})
    BY <1>5, <2>1, <2>3, <1>0, ExecAssumption
       DEF BlockAll, BlockDependent, Holds, Return, Hopeless, BlockedDependents, ExecTypeOK
  <2>5. taskState'[t] = "BLOCKED" /\ \A u \in Tasks \ {t} : taskState'[u] = taskState[u]
    BY <2>4, OneRow DEF BlockTask
  <2>6. RunningRows(e)'
    BY <2>1, <2>2, <2>5, RunningFrame
  <2>7. PlanRows(e)'
    BY <2>1, <2>2, <2>4 DEF PlanRows, PlanTasks, Untouched, BlockTask, runVars
  <2>8. QueuedRows(e)'
    BY <2>1, <2>2, <2>3, <2>4, <2>5 DEF QueuedRows
  <2> QED BY <2>6, <2>7, <2>8
<1>6. ASSUME NEW x \in Execs, NEW t \in Tasks, ProvisionNext(x, t)
      PROVE  PlanRows(e)' /\ QueuedRows(e)' /\ RunningRows(e)'
  <2>1. x = e /\ lock = e /\ pc[e] = "provision" /\ pc'[e] = "provision" /\ stop' = stop
        /\ queue' = queue \ {t} /\ t \in queue /\ queue \subseteq Tasks
    BY <1>6, <1>0 DEF ProvisionNext, IsFirst, Holds, Move, Goto, userVars, ExecTypeOK
  <2>2. PlanRows(e) /\ QueuedRows(e) /\ RunningRows(e) /\ state # "ABSENT"
    BY <1>a, <2>1, <1>0, Places DEF Running, RunExists
  <2>3. /\ UNCHANGED <<plan, assigned>> /\ taskState'[t] # "RUNNING"
        /\ \A u \in Tasks \ {t} : taskState'[u] = taskState[u] /\ worker'[u] = worker[u]
    <3>1. CASE RecordWorktree(t) /\ worker' = [worker EXCEPT ![t] = "ready"]
      BY <3>1, <1>0, OneRow DEF RecordWorktree, runVars, ExecTypeOK
    <3>2. CASE BlockTask(t) /\ UNCHANGED worker
      BY <3>2, OneRow DEF BlockTask, runVars
    <3> QED BY <1>6, <3>1, <3>2 DEF ProvisionNext
  <2>4. RunningRows(e)'
    BY <2>1, <2>2, <2>3, RunningFrame
  <2>5. PlanRows(e)'
    BY <2>1, <2>2, <2>3 DEF PlanRows, PlanTasks, Untouched
  <2>6. \A u \in queue' : RequireReadyTask(u)'
    BY <2>1, <2>2, <2>3, StaysReady DEF QueuedRows
  <2>7. \A u \in queue' : taskState'[u] = "PENDING"
    BY <2>1, <2>2, <2>3 DEF QueuedRows
  <2> QED BY <2>4, <2>5, <2>6, <2>7 DEF QueuedRows
<1>7. ASSUME NEW x \in Execs, NEW t \in Tasks, Work(x, t) \/ Abandon(x, t)
      PROVE  PlanRows(e)' /\ QueuedRows(e)' /\ RunningRows(e)'
  <2>1. x = e /\ lock = e /\ pc[e] = "gather" /\ pc'[e] = "gather" /\ stop' = stop
        /\ UNCHANGED <<plan, assigned>>
    BY <1>7, <1>0 DEF Work, Begin, Spawn, Supervised, Collect, Abandon, Holds, ctlVars, userVars,
       BeginAttempt, FinishAttempt, storeVars, runVars
  <2>2. PlanRows(e) /\ RunningRows(e)
    BY <1>a, <2>1, Places DEF Running
  <2>3. PlanRows(e)' /\ QueuedRows(e)'
    BY <2>1, <2>2 DEF PlanRows, PlanTasks, QueuedRows, Untouched
  <2>4. \A u \in Tasks \ {t} : worker'[u] = worker[u]
    BY <1>7, <1>0 DEF Work, Begin, Spawn, Supervised, Collect, Abandon, SetWorker, ExecTypeOK
  <2>5. CASE Begin(e, t)
    <3>1. worker'[t] \in Attended
      BY <2>5, <1>0 DEF Begin, SetWorker, Attended, ExecTypeOK
    <3>2. \A u \in Tasks \ {t} : taskState'[u] = taskState[u]
      BY <2>5, OneRow DEF Begin, BeginAttempt
    <3> QED BY <2>1, <2>2, <2>3, <2>4, <3>1, <3>2, RunningFrame
  <2>6. CASE Spawn(e, t) \/ Supervised(e, t)
    <3>1. worker'[t] \in Attended /\ taskState' = taskState
      BY <2>6, <1>0 DEF Spawn, Supervised, SetWorker, Attended, Ended, storeVars, ExecTypeOK
    <3> QED BY <2>1, <2>2, <2>3, <2>4, <3>1, RunningFrame
  <2>7. CASE Collect(e, t)
    <3>1. taskState'[t] # "RUNNING" /\ \A u \in Tasks \ {t} : taskState'[u] = taskState[u]
      BY <2>7, OneRow DEF Collect, FinishAttempt, Outcome
    <3> QED BY <2>1, <2>2, <2>3, <2>4, <3>1, RunningFrame
  <2>8. CASE Abandon(e, t)
    BY <2>1, <2>3, <2>8 DEF Abandon, RunningRows
  <2> QED BY <1>7, <2>1, <2>5, <2>6, <2>7, <2>8 DEF Work
<1>8. CASE UNCHANGED vars
  <2>1. UNCHANGED <<plan, assigned, taskState, lock, pc, queue, worker, stop>>
    BY <1>8 DEF vars, storeVars, ctlVars, userVars
  <2> QED BY <1>a, <2>1 DEF PlanRows, PlanTasks, QueuedRows, RunningRows, RequireReadyTask
<1> QED
  BY <1>1, <1>2, <1>3, <1>4, <1>5, <1>6, <1>7, <1>8 DEF Next, Run, Aside

\* The inductive core: rows and Workers as their driver believes them to be.
THEOREM RowsCorrect == ExecSpec => []RowInv
<1>1. Init => RowInv
  BY WorkersInit, DriverInit DEF RowInv
<1>2. Known /\ StateInv /\ RowInv /\ [Next]_vars => RowInv'
  BY WorkersStep, DriverStep DEF RowInv
<1> QED BY <1>1, <1>2, KnownAlways, StateFollowsDriver, PTL DEF ExecSpec

-----------------------------------------------------------------------------
(* What the runs check.                                                    *)

\* While a run is driven, its RUNNING rows are exactly the Workers attended to,
\* and nothing is attended to without a driver.
THEOREM RowsFollowWorkers == ExecSpec => []RowsMatchWorkers
<1>1. ASSUME Known, RowInv PROVE RowsMatchWorkers
  <2>1. \A t \in Tasks : /\ worker[t] = "ready" => taskState[t] = "PROVISIONED"
                         /\ worker[t] \in Attended => attempts[t] = <<"RUNNING">>
    BY <1>1 DEF RowInv, WorkerRows, WorkerRow
  <2>2. ASSUME NEW e \in Execs, lock = e /\ pc[e] \in Driving /\ e \notin stop \ Fleet,
               NEW t \in Tasks, taskState[t] = "RUNNING"
        PROVE  worker[t] \in Attended
    BY <1>1, <2>2 DEF RowInv, DriverRows, RunningRows
  <2>3. BusyUnderLock
    BY <1>1 DEF Known
  <2> QED BY <2>1, <2>2, <2>3 DEF RowsMatchWorkers
<1>2. Known /\ RowInv => RowsMatchWorkers
  BY <1>1
<1> QED BY <1>2, KnownAlways, RowsCorrect, PTL

\* The store refuses none of the calls a driver is about to make: execution_lock
\* and the gates together keep what it read true until it writes.
THEOREM CallsAreAccepted == ExecSpec => []NeverRefused
<1>1. ASSUME Known, StateInv, RowInv, NEW e \in Execs, lock = e
      PROVE  /\ pc[e] = "starting" => TransitionAllowed("RUNNING")
             /\ pc[e] = "blocking" => /\ TransitionAllowed("BLOCKED")
                                      /\ \A t \in queue : taskState[t] = "PENDING"
             /\ pc[e] = "provision" => \A t \in queue :
                  state = "RUNNING" /\ taskState[t] = "PENDING" /\ RequireReadyTask(t)
             /\ pc[e] = "gather" =>
                  /\ TransitionAllowed("CANCELLED")
                  /\ \A t \in Tasks : worker[t] = "ready" =>
                       t \in worktrees /\ attempts[t] = <<>> /\ RequireReadyTask(t)
             /\ pc[e] = "finish" => TransitionAllowed(Verdict(e))
  <2>1. /\ pc[e] \in Provisioning => state = "PROVISIONING"
        /\ pc[e] \in Running => state = "RUNNING"
    BY <1>1 DEF StateInv
  <2>2. pc[e] \in Driving => QueuedRows(e)
    BY <1>1 DEF RowInv, DriverRows
  <2>3. CASE pc[e] = "starting"
    BY <1>1, <2>1, <2>3 DEF Provisioning, TransitionAllowed, LegalTransitions, Known,
       ExecutionApproved, Executing
  <2>4. CASE pc[e] = "blocking"
    BY <2>1, <2>2, <2>4, Places DEF Provisioning, TransitionAllowed, LegalTransitions, QueuedRows
  <2>5. CASE pc[e] = "provision"
    BY <2>1, <2>2, <2>5, Places DEF Running, QueuedRows
  <2>6. CASE pc[e] = "gather"
    <3>1. TransitionAllowed("CANCELLED")
      BY <2>1, <2>6 DEF Running, TransitionAllowed, LegalTransitions
    <3>2. ASSUME NEW t \in Tasks, worker[t] = "ready"
          PROVE  t \in worktrees /\ attempts[t] = <<>> /\ RequireReadyTask(t)
      <4>1. taskState[t] = "PROVISIONED" /\ t \in worktrees /\ RequireReadyTask(t)
        BY <1>1, <3>2 DEF RowInv, WorkerRows, WorkerRow
      <4>2. attempts[t] = <<>>
        BY <1>1, <4>1, AttemptShape DEF Known, ExecInv, AttemptStates
      <4> QED BY <4>1, <4>2
    <3> QED BY <2>6, <3>1, <3>2
  <2>7. CASE pc[e] = "finish"
    BY <2>1, <2>7 DEF Running, TransitionAllowed, LegalTransitions, Verdict
  <2> QED BY <2>3, <2>4, <2>5, <2>6, <2>7
<1>2. Known /\ StateInv /\ RowInv => NeverRefused
  BY <1>1 DEF NeverRefused
<1> QED BY <1>2, KnownAlways, StateFollowsDriver, RowsCorrect, PTL
-----------------------------------------------------------------------------
(* What start_run promises of a run, for any plan, any number of executors, *)
(* tasks and slots, and any crashes, stops and commits: its verdicts are    *)
(* true, no more processes than slots, and every step keeps the promise of  *)
(* FleetRun.                                                                *)
-----------------------------------------------------------------------------
(* The selection functions of the scheduler.                               *)

\* The tasks a set puts before one of its tasks, in lexical order.
Before(set, t) == {u \in set : Rank[u] < Rank[t]}

\* Of two tasks of a finite set, fewer come before the first of them.
LEMMA FewerBefore ==
  ASSUME NEW set \in SUBSET Tasks, IsFiniteSet(set), NEW t \in set, NEW u \in set,
         Rank[t] < Rank[u]
  PROVE  /\ Before(set, t) \subseteq Before(set, u) /\ Before(set, t) # Before(set, u)
         /\ Cardinality(Before(set, t)) < Cardinality(Before(set, u))
<1>1. Rank[t] \in Nat /\ \A x \in set : Rank[x] \in Nat
  BY RankAssumption
<1>2. Before(set, t) \subseteq Before(set, u)
  BY <1>1 DEF Before
<1>3. t \in Before(set, u) /\ t \notin Before(set, t)
  BY <1>1 DEF Before
<1>4. IsFiniteSet(Before(set, u)) /\ IsFiniteSet(Before(set, t))
  BY FS_Subset DEF Before
<1>5. /\ Cardinality(Before(set, t)) <= Cardinality(Before(set, u))
      /\ Cardinality(Before(set, t)) # Cardinality(Before(set, u))
  BY <1>2, <1>3, <1>4, FS_Subset
<1>6. Cardinality(Before(set, t)) \in Nat /\ Cardinality(Before(set, u)) \in Nat
  BY <1>4, FS_CardinalityType
<1> QED BY <1>2, <1>3, <1>5, <1>6

\* No more tasks are chosen for a batch than there are slots: each comes after
\* a different number of others, below Slots.
LEMMA ReadyFitSlots ==
  ASSUME NEW tasks \in SUBSET Tasks, IsFiniteSet(tasks), NEW deps, NEW states
  PROVE  /\ IsFiniteSet(ReadyTasks(tasks, deps, states))
         /\ Cardinality(ReadyTasks(tasks, deps, states)) <= Slots
<1> DEFINE eligible == Eligible(tasks, deps, states)
           chosen == ReadyTasks(tasks, deps, states)
           position == [t \in chosen |-> Cardinality(Before(eligible, t))]
           positions == 0..(Slots - 1)
<1>1. eligible \in SUBSET Tasks /\ IsFiniteSet(eligible) /\ chosen \subseteq eligible
  BY FS_Subset DEF Eligible, ReadyTasks
<1>2. IsFiniteSet(chosen)
  BY <1>1, FS_Subset
<1>3. position \in [chosen -> positions]
  <2>1. ASSUME NEW t \in chosen PROVE Cardinality(Before(eligible, t)) \in positions
    <3>1. Cardinality(Before(eligible, t)) \in Nat
      BY <1>1, FS_Subset, FS_CardinalityType DEF Before
    <3>2. Cardinality(Before(eligible, t)) < Slots
      BY DEF ReadyTasks, Before
    <3> QED BY <3>1, <3>2, SlotsAssumption
  <2> QED BY <2>1
<1>4. IsFiniteSet(positions) /\ Cardinality(positions) = Slots
  BY FS_Interval, SlotsAssumption
<1>5. ASSUME Slots < Cardinality(chosen) PROVE FALSE
  <2>1. PICK t \in chosen, u \in chosen : t # u /\ position[t] = position[u]
    <3> HIDE DEF chosen, position, positions
    <3> QED BY <1>2, <1>3, <1>4, <1>5, FS_PigeonHole
  <2>2. Rank[t] < Rank[u] \/ Rank[u] < Rank[t]
    BY <1>1, <2>1, RankAssumption
  <2>3. Cardinality(Before(eligible, t)) = Cardinality(Before(eligible, u))
    BY <2>1
  <2>4. t \in eligible /\ u \in eligible
    BY <1>1
  <2>5. /\ Cardinality(Before(eligible, t)) \in Nat
        /\ Cardinality(Before(eligible, u)) \in Nat
    BY <1>1, FS_Subset, FS_CardinalityType DEF Before
  <2> HIDE DEF eligible
  <2> QED BY <1>1, <2>2, <2>3, <2>4, <2>5, FewerBefore
<1>6. Cardinality(chosen) \in Nat
  BY <1>2, FS_CardinalityType
<1> QED BY <1>2, <1>5, <1>6, SlotsAssumption

\* Something is chosen when something can be: the first of it.
LEMMA SomeReady ==
  ASSUME NEW tasks \in SUBSET Tasks, IsFiniteSet(tasks), NEW deps, NEW states,
         Eligible(tasks, deps, states) # {}
  PROVE  ReadyTasks(tasks, deps, states) # {}
<1> DEFINE eligible == Eligible(tasks, deps, states)
           befores == {Before(eligible, t) : t \in eligible}
<1>1. eligible \in SUBSET Tasks /\ IsFiniteSet(eligible)
  BY FS_Subset DEF Eligible
<1> HIDE DEF eligible
<1>2. befores # {} /\ befores \subseteq FiniteSubsetsOf(eligible)
  <2>1. \A t \in eligible : Before(eligible, t) \in FiniteSubsetsOf(eligible)
    BY <1>1, FS_Subset DEF Before, FiniteSubsetsOf
  <2>2. eligible # {}
    BY DEF eligible
  <2> QED BY <2>1, <2>2
<1>3. PICK t \in eligible : \A b \in befores :
             <<b, Before(eligible, t)>> \notin StrictSubsetOrdering(eligible)
  <2>1. IsWellFoundedOn(StrictSubsetOrdering(eligible), FiniteSubsetsOf(eligible))
    BY FS_StrictSubsetOrderingWellFounded
  <2>2. \E x \in befores : \A b \in befores :
          ~ (<<b, x>> \in StrictSubsetOrdering(eligible))
    <3> HIDE DEF befores
    <3> QED BY <1>2, <2>1, WFMin
  <2> QED BY <2>2
<1>4. ASSUME NEW u \in eligible, Rank[u] < Rank[t] PROVE FALSE
  <2>1. Before(eligible, u) \subseteq Before(eligible, t)
        /\ Before(eligible, u) # Before(eligible, t)
    BY <1>1, <1>4, FewerBefore
  <2>2. Before(eligible, u) \in befores /\ Before(eligible, t) \subseteq eligible
    BY DEF Before
  <2> QED BY <1>3, <2>1, <2>2 DEF StrictSubsetOrdering
<1>5. {u \in eligible : Rank[u] < Rank[t]} = {}
  BY <1>4
<1>6. Cardinality({u \in eligible : Rank[u] < Rank[t]}) < Slots
  BY <1>5, FS_EmptySet, SlotsAssumption
<1> QED BY <1>6 DEF ReadyTasks, eligible
-----------------------------------------------------------------------------
(* The inductive invariant, on top of RowInv, in named parts.              *)

\* A run that was not started yet has no Worker, and its rows, once they are
\* there, are PENDING, or BLOCKED when no provider was there to start it; a run
\* that was started never waits again.
Waiting == {"ABSENT", "DRAFT", "PLANNED", "VALIDATED", "WAITING_FOR_APPROVAL"}
Started == {"PROVISIONING", "RUNNING", "VERIFYING", "BLOCKED", "FAILED", "CANCELLED"}
WaitInv ==
  /\ state \in Waiting \cup Started
  /\ state \in Waiting =>
       \A t \in Tasks : worker[t] = "none" /\ taskState[t] \in {"ABSENT", "PENDING"}
  /\ state = "PROVISIONING" =>
       \A t \in Tasks : worker[t] = "none" /\ taskState[t] \in {"ABSENT", "PENDING", "BLOCKED"}

\* A run that got to the gate of its revision has a plan validate_plan accepts.
Validated == {"VALIDATED", "WAITING_FOR_APPROVAL"} \cup Executing
PlanInv == state \in Validated => plan \in ValidPlans

\* The rows of the driven run: exactly the tasks of its plan have one, nothing
\* was interrupted, and what a task without a Worker waits for is a decision.
Exactly == \A t \in Tasks : taskState[t] = "ABSENT" <=> t \notin PlanTasks
Fresh == \A t \in Tasks : taskState[t] # "INTERRUPTED" /\ worker[t] # "stray"
ActiveRows(e) ==
  pc[e] # "gather" \/ e \notin stop \ Fleet =>
    \A t \in Tasks : /\ taskState[t] = "PROVISIONED" => worker[t] = "ready"
                     /\ taskState[t] = "RUNNING" => worker[t] \in Attended
DecidedRows(e) ==
  /\ pc[e] = "blocking" => \A t \in PlanTasks \ queue : taskState[t] = "BLOCKED"
  /\ pc[e] = "finish" => \A t \in Tasks : taskState[t] # "PENDING"
SettleInv ==
  \A e \in Execs : lock = e /\ pc[e] \in Driving =>
    Exactly /\ Fresh /\ ActiveRows(e) /\ DecidedRows(e)

\* What takes a slot: a Worker, a row that says RUNNING, and a task chosen for
\* the batch that is being provisioned.
Slotted ==
  {t \in Tasks : worker[t] # "none" \/ taskState[t] = "RUNNING"}
    \cup (IF lock \in Execs /\ pc[lock] = "provision" THEN queue ELSE {})
SlotInv == IsFiniteSet(Slotted) /\ Cardinality(Slotted) <= Slots

\* A run is only RUNNING without a driver after a crash.
LostInv == state = "RUNNING" => faults > 0 \/ \E e \in Execs : lock = e /\ pc[e] \in Running

-----------------------------------------------------------------------------
(* The gate of the plan.                                                   *)

\* Only a move to VALIDATED, which asks for a valid plan, gets a run among
\* those that have one.
LEMMA ValidatedSources ==
  ASSUME NEW s \in RunStates \cup {"ABSENT"}, NEW target \in LegalTransitions[s],
         target \in Validated, target # "VALIDATED"
  PROVE  s \in Validated
<1> USE DEF LegalTransitions, Validated, Executing
<1>1. CASE s \in {"ABSENT", "DRAFT", "PLANNED", "VALIDATED", "REPLAN_REQUIRED"}
  BY <1>1
<1>2. CASE s \in {"WAITING_FOR_APPROVAL", "PROVISIONING", "RUNNING", "VERIFYING", "REVIEWING"}
  BY <1>2
<1>3. CASE s \in {"WAITING_FOR_APPLY_APPROVAL", "BLOCKED", "FAILED", "CANCELLED", "APPLIED"}
  BY <1>3
<1> QED BY <1>1, <1>2, <1>3 DEF RunStates

LEMMA PlanStep == TypeOK /\ PlanInv /\ [StoreNext]_storeVars => PlanInv'
<1> SUFFICES ASSUME TypeOK, PlanInv, [StoreNext]_storeVars, state' \in Validated
             PROVE  plan' \in ValidPlans
  BY DEF PlanInv
<1>0. state \in RunStates \cup {"ABSENT"}
  BY DEF TypeOK
<1>1. ASSUME NEW p \in Plans, CreateRun(p) \/ ReplacePlan(p) PROVE FALSE
  BY <1>1 DEF CreateRun, ReplacePlan, MoveRun, Validated, Executing
<1>2. ASSUME NEW target \in RunStates, TransitionRun(target) PROVE plan' \in ValidPlans
  <2>1. /\ state' = target /\ plan' = plan /\ target \in LegalTransitions[state]
        /\ target = "VALIDATED" => plan \in ValidPlans
    BY <1>2 DEF TransitionRun, MoveRun, TransitionAllowed
  <2> QED BY <1>0, <2>1, ValidatedSources DEF PlanInv
<1>3. ASSUME plan' = plan, state' = state \/ state = "RUNNING" PROVE plan' \in ValidPlans
  BY <1>3 DEF PlanInv, Validated, Executing
<1>4. CASE InitializeExecution \/ RecoverInterrupted \/ UNCHANGED storeVars
  BY <1>3, <1>4 DEF InitializeExecution, RecoverInterrupted, storeVars, runVars
<1>5. ASSUME NEW t \in Tasks, NEW i, NEW outcome,
             RecordWorktree(t) \/ BeginAttempt(t) \/ BlockTask(t) \/ FinishAttempt(t, i, outcome)
      PROVE  plan' \in ValidPlans
  BY <1>3, <1>5 DEF RecordWorktree, BeginAttempt, BlockTask, FinishAttempt, runVars
<1>6. ASSUME NEW type, NEW rev, NEW subject, NEW decision,
             RecordApproval(type, rev, subject, decision)
      PROVE  plan' \in ValidPlans
  BY <1>3, <1>6 DEF RecordApproval, runVars
<1>7. ASSUME NEW r \in Results, SetReviewedResult(r) PROVE plan' \in ValidPlans
  BY <1>3, <1>7 DEF SetReviewedResult
<1> QED BY <1>1, <1>2, <1>4, <1>5, <1>6, <1>7 DEF StoreNext

\* Whatever is replanned and approved: the plan of a run that reached the gate
\* of its revision, is driven or was, is one that validate_plan accepts.
THEOREM GatedPlanIsValid == StoreSpec => []PlanInv
<1>1. StoreInit => PlanInv
  BY DEF StoreInit, PlanInv, Validated, Executing
<1> QED BY <1>1, PlanStep, TypeCorrect, PTL DEF StoreSpec

-----------------------------------------------------------------------------
(* Before and after the start.                                             *)

\* The orphaned tasks are those whose row says RUNNING.
LEMMA OrphansRun ==
  ASSUME Known PROVE Orphaned = {t \in Tasks : taskState[t] = "RUNNING"}
<1>1. ASSUME NEW t \in Tasks
      PROVE  (\E i \in DOMAIN attempts[t] : attempts[t][i] = "RUNNING")
               <=> taskState[t] = "RUNNING"
  BY AttemptShape DEF Known, ExecInv, AttemptStates
<1> QED BY <1>1 DEF Orphaned

\* Who is aside starts no Worker, and writes rows only before the start.
LEMMA AsideMoves ==
  ASSUME Known, StateInv, WaitInv, Aside
  PROVE  /\ \A t \in Tasks : \/ worker'[t] = worker[t] \/ worker'[t] = "none"
                             \/ worker[t] = "live" /\ worker'[t] = "stray"
         /\ \/ UNCHANGED <<state, plan, taskState>>
            \/ /\ state \in Waiting /\ state' \in Waiting /\ worker' = worker
               /\ \A t \in Tasks : taskState'[t] \in {"ABSENT", "PENDING"}
<1>0. ExecTypeOK /\ TypeOK
  BY DEF Known, ExecInv
<1>1. \A t \in Tasks : \/ worker'[t] = worker[t] \/ worker'[t] = "none"
                       \/ worker[t] = "live" /\ worker'[t] = "stray"
  BY <1>0 DEF Aside, Create, NewRun, AdvanceRun, PinTarget, ApproveRun, UserChanges, Start,
     RequestStop, Acquire, Crash, StrayExits, SetWorker, ExecTypeOK, userVars
<1>2. ASSUME NEW p \in Plans, NewRun(p)
      PROVE  state = "ABSENT" /\ state' = "DRAFT" /\ UNCHANGED <<worker, taskState>>
  BY <1>2 DEF NewRun, CreateRun, taskVars
<1>3. ASSUME AdvanceRun
      PROVE  state \in Waiting /\ state' \in Waiting /\ UNCHANGED <<worker, taskState>>
  BY <1>3 DEF AdvanceRun, AfterStep, TransitionRun, MoveRun, TransitionAllowed, LegalTransitions,
     WaitInv, Waiting, Started, taskVars
<1>4. ASSUME PinTarget
      PROVE  /\ state = "WAITING_FOR_APPROVAL" /\ UNCHANGED <<state, worker>>
             /\ \A t \in Tasks : taskState'[t] = "PENDING" \/ taskState'[t] = taskState[t]
  BY <1>4 DEF PinTarget, InitializeExecution, runVars
<1>5. ASSUME ApproveRun \/ UserChanges \/ (\E t \in Tasks : StrayExits(t))
               \/ \E e \in Execs : Start(e) \/ RequestStop(e) \/ Acquire(e) \/ Crash(e)
      PROVE  UNCHANGED <<state, plan, taskState>>
  BY <1>5 DEF ApproveRun, RecordApproval, UserChanges, Start, RequestStop, Acquire, Crash,
     StrayExits, storeVars, runVars, taskVars
<1>6. CASE Create
  <2>1. /\ state \in Waiting /\ state' \in Waiting /\ worker' = worker
        /\ \A t \in Tasks : taskState'[t] = "PENDING" \/ taskState'[t] = taskState[t]
    BY <1>2, <1>3, <1>4, <1>6 DEF Create, Waiting
  <2> QED BY <2>1, <1>1 DEF WaitInv
<1> QED BY <1>1, <1>5, <1>6 DEF Aside

LEMMA WaitStep == Known /\ StateInv /\ WaitInv /\ [Next]_vars => WaitInv'
<1> SUFFICES ASSUME Known, StateInv, WaitInv, [Next]_vars PROVE WaitInv'
  OBVIOUS
<1>0. ExecTypeOK
  BY DEF Known, ExecInv
<1>1. CASE Aside
  <2>1. \A t \in Tasks : worker[t] = "none" => worker'[t] = "none"
    BY <1>1, AsideMoves
  <2>2. CASE UNCHANGED <<state, plan, taskState>>
    BY <2>1, <2>2 DEF WaitInv
  <2>3. CASE /\ state \in Waiting /\ state' \in Waiting /\ worker' = worker
             /\ \A t \in Tasks : taskState'[t] \in {"ABSENT", "PENDING"}
    BY <2>1, <2>3 DEF WaitInv, Waiting
  <2> QED BY <1>1, <2>2, <2>3, AsideMoves
<1>2. ASSUME NEW e \in Execs, Recover(e) PROVE WaitInv'
  <2>1. CASE Orphaned = {}
    BY <1>2, <2>1 DEF Recover, Move, storeVars, userVars, WaitInv
  <2>2. CASE Orphaned # {}
    <3>1. state \in Started \ {"PROVISIONING"}
      BY <2>2, OrphansRun DEF WaitInv
    <3>2. state' = state \/ state' = "BLOCKED"
      BY <1>2, <2>2 DEF Recover, RecoverInterrupted
    <3> QED BY <3>1, <3>2 DEF WaitInv, Waiting, Started
  <2> QED BY <2>1, <2>2
<1>3. ASSUME NEW e \in Execs, Check(e) PROVE WaitInv'
  <2>1. CASE Startable(e)
    <3>1. state' = "PROVISIONING" /\ state = "WAITING_FOR_APPROVAL"
          /\ UNCHANGED <<worker, taskState>>
      BY <1>3, <2>1 DEF Check, Startable, TransitionRun, MoveRun, taskVars
    <3> QED BY <3>1 DEF WaitInv, Waiting, Started
  <2>2. CASE ~ Startable(e)
    BY <1>3, <2>2 DEF Check, storeVars, userVars, WaitInv
  <2> QED BY <2>1, <2>2
<1>4. ASSUME NEW e \in Execs, lock = e, pc[e] \in Driving,
             state' = state \/ state' \in Started \ {"PROVISIONING"},
             state = "PROVISIONING" =>
               worker' = worker
               /\ \A t \in Tasks : taskState'[t] = taskState[t] \/ taskState'[t] = "BLOCKED"
      PROVE  WaitInv'
  <2>1. state \in {"PROVISIONING", "RUNNING"}
    BY <1>4, Places DEF StateInv
  <2> QED BY <1>4, <2>1 DEF WaitInv, Waiting, Started
<1>5. ASSUME NEW e \in Execs, Capabilities(e) \/ BlockAll(e) \/ BeginRunning(e) \/ TakeBaseline(e)
               \/ BlockDependent(e) \/ Choose(e) \/ Gather(e) \/ EndBatch(e) \/ Finish(e)
      PROVE  WaitInv'
  <2>1. lock = e /\ pc[e] \in Driving
    BY <1>5, Places DEF Capabilities, BlockAll, BeginRunning, TakeBaseline, BlockDependent,
       Choose, Gather, EndBatch, Finish, Holds, Provisioning, Running
  <2>2. state' = state \/ state' \in Started \ {"PROVISIONING"}
    BY <1>5 DEF Capabilities, BlockAll, BeginRunning, TakeBaseline, BlockDependent, Choose,
       Gather, EndBatch, Finish, Verdict, TransitionRun, MoveRun, BlockTask, runVars, storeVars,
       Started
  <2>3. worker' = worker
    BY <1>5 DEF Capabilities, BlockAll, BeginRunning, TakeBaseline, BlockDependent, Choose,
       Gather, EndBatch, Finish
  <2>4. \A t \in Tasks : taskState'[t] = taskState[t] \/ taskState'[t] = "BLOCKED"
    BY <1>5 DEF Capabilities, BlockAll, BeginRunning, TakeBaseline, BlockDependent, Choose,
       Gather, EndBatch, Finish, TransitionRun, BlockTask, SetTask, taskVars, storeVars,
       Known, ExecInv, TypeOK
  <2> QED BY <2>1, <2>2, <2>3, <2>4, <1>4
<1>6. ASSUME NEW e \in Execs, NEW t \in Tasks, ProvisionNext(e, t) \/ Work(e, t) \/ Abandon(e, t)
      PROVE  WaitInv'
  <2>1. lock = e /\ pc[e] \in Driving /\ state = "RUNNING"
    BY <1>6, Places DEF ProvisionNext, Work, Begin, Spawn, Supervised, Collect, Abandon, Holds,
       Running, StateInv
  <2>2. state' = state
    BY <1>6 DEF ProvisionNext, Work, Begin, Spawn, Supervised, Collect, Abandon, RecordWorktree,
       BlockTask, BeginAttempt, FinishAttempt, runVars, storeVars
  <2> QED BY <2>1, <2>2, <1>4
<1>7. CASE UNCHANGED vars
  BY <1>7 DEF vars, storeVars, WaitInv
<1> QED
  BY <1>1, <1>2, <1>3, <1>5, <1>6, <1>7 DEF Next, Run, Aside

\* Nothing is run, and no row is more than PENDING, before a run is started,
\* and a run that was started is never waiting again.
THEOREM StartsOnce == ExecSpec => []WaitInv
<1>1. Init => WaitInv
  BY DEF Init, StoreInit, WaitInv, Waiting
<1> QED BY <1>1, WaitStep, KnownAlways, StateFollowsDriver, PTL DEF ExecSpec

-----------------------------------------------------------------------------
(* The rows of the driven run.                                             *)

\* What is known of every reachable state by now.
Grounds == Known /\ StateInv /\ RowInv /\ WaitInv /\ PlanInv

LEMMA GroundsAlways == ExecSpec => []Grounds
BY KnownAlways, StateFollowsDriver, RowsCorrect, StartsOnce, ExecutorUsesTheStore,
   GatedPlanIsValid, PTL DEF Grounds

\* The plan of a driven run is valid, and its tasks are tasks.
LEMMA DrivenPlan ==
  ASSUME Grounds, NEW e \in Execs, lock = e, pc[e] \in Driving
  PROVE  /\ plan \in Plans /\ plan \in ValidPlans /\ PlanTasks \subseteq Tasks
         /\ PlanTasks # {} /\ IsFiniteSet(PlanTasks)
         /\ \A t \in PlanTasks : Deps[plan][t] \subseteq PlanTasks
         /\ \A S \in SUBSET PlanTasks : S # {} => \E t \in S : Deps[plan][t] \cap S = {}
<1>1. state \in {"PROVISIONING", "RUNNING"}
  BY Places DEF Grounds, StateInv
<1>2. plan \in ValidPlans /\ PlanTasks \subseteq Tasks
  BY <1>1, PlanTasksAreTasks DEF Grounds, PlanInv, Validated, Executing, Known, ExecInv
<1>3. plan \in Plans
  BY <1>2, ConstantsAssumption
<1> QED BY <1>2, <1>3, PlansAssumption DEF PlanTasks

\* While the driver stays, nobody else touches its Workers.
LEMMA AsideLeavesWorkers ==
  ASSUME Known, Aside, NEW e \in Execs, lock' = e, pc'[e] \in Driving, NEW t \in Tasks
  PROVE  worker'[t] = worker[t] \/ (worker[t] = "stray" /\ worker'[t] = "none")
<1>1. CASE Create \/ ApproveRun \/ UserChanges \/ \E x \in Execs : Start(x) \/ RequestStop(x) \/ Acquire(x)
  BY <1>1 DEF Create, NewRun, AdvanceRun, PinTarget, ApproveRun, UserChanges, Start, RequestStop,
     Acquire
<1>2. ASSUME NEW x \in Execs, Crash(x) PROVE worker' = worker
  BY <1>2, ExecAssumption DEF Crash, Return
<1>3. ASSUME NEW u \in Tasks, StrayExits(u)
      PROVE  worker'[t] = worker[t] \/ (worker[t] = "stray" /\ worker'[t] = "none")
  BY <1>3 DEF StrayExits, SetWorker, Known, ExecInv, ExecTypeOK
<1> QED BY <1>1, <1>2, <1>3 DEF Aside

\* When nothing is hopeless and nothing can be chosen, nothing is left: of the
\* pending tasks of a plan without cycles, one would depend on none of them.
LEMMA NothingLeft ==
  ASSUME Grounds, SettleInv, NEW e \in Execs, Holds(e, "loop"), Hopeless = {}, Ready = {}
  PROVE  \A t \in Tasks : taskState[t] # "PENDING"
<1>0. lock = e /\ pc[e] \in Driving /\ pc[e] = "loop"
  BY Places DEF Holds, Running
<1>1. /\ PlanTasks \subseteq Tasks /\ IsFiniteSet(PlanTasks)
      /\ \A t \in PlanTasks : Deps[plan][t] \subseteq PlanTasks
      /\ \A S \in SUBSET PlanTasks : S # {} => \E t \in S : Deps[plan][t] \cap S = {}
  BY <1>0, DrivenPlan
<1>2. Exactly /\ Fresh /\ ActiveRows(e)
  BY <1>0 DEF SettleInv
<1>3. Busy = {}
  BY <1>0 DEF Grounds, Known, BusyUnderLock
<1>4. \A t \in Tasks : taskState[t] \notin {"PROVISIONED", "RUNNING"}
  BY <1>0, <1>2, <1>3 DEF ActiveRows, Busy, Attended
<1> DEFINE pending == {t \in PlanTasks : taskState[t] = "PENDING"}
<1>5. ASSUME pending # {} PROVE FALSE
  <2>1. PICK t \in pending : Deps[plan][t] \cap pending = {}
    BY <1>1, <1>5
  <2>2. t \in PlanTasks /\ taskState[t] = "PENDING"
    BY <2>1
  <2>3. ASSUME NEW d \in Deps[plan][t] PROVE taskState[d] = "SUCCEEDED"
    <3>1. d \in PlanTasks /\ d \in Tasks /\ taskState[d] # "PENDING"
      BY <1>1, <2>1, <2>2
    <3>2. taskState[d] \notin Unsuccessful
      BY <2>2 DEF Hopeless, BlockedDependents
    <3>3. taskState[d] \in TaskStates \cup {"ABSENT"} /\ taskState[d] # "ABSENT"
      BY <1>2, <3>1 DEF Exactly, Grounds, Known, ExecInv, TypeOK
    <3> QED BY <1>4, <3>1, <3>2, <3>3 DEF TaskStates, Unsuccessful
  <2>4. t \in Eligible(PlanTasks, Deps[plan], taskState)
    BY <2>2, <2>3 DEF Eligible
  <2> QED BY <2>4, <1>1, SomeReady DEF Ready
<1>6. \A t \in Tasks : taskState[t] = "PENDING" => t \in PlanTasks
  BY <1>2 DEF Exactly
<1> QED BY <1>5, <1>6

LEMMA SettleStep == Grounds /\ SettleInv /\ [Next]_vars => SettleInv'
<1> SUFFICES ASSUME Grounds, SettleInv, [Next]_vars,
                    NEW e \in Execs, lock' = e, pc'[e] \in Driving
             PROVE  Exactly' /\ Fresh' /\ ActiveRows(e)' /\ DecidedRows(e)'
  BY DEF SettleInv
<1>0. TypeOK /\ ExecTypeOK /\ RunExists /\ Known /\ StateInv /\ WaitInv
  BY DEF Grounds, Known, ExecInv
<1>a. lock = e /\ pc[e] \in Driving =>
        /\ Exactly /\ Fresh /\ ActiveRows(e) /\ DecidedRows(e)
        /\ PlanTasks \subseteq Tasks
  BY DrivenPlan DEF SettleInv
<1>1. CASE Aside
  <2>1. /\ lock = e /\ pc'[e] = pc[e] /\ queue' = queue
        /\ e \notin stop' \ Fleet => e \notin stop \ Fleet
    BY <1>0, <1>1, AsideLeavesDriver
  <2>2. plan' = plan /\ taskState' = taskState
    BY <1>0, <1>1, <2>1, AsideLeavesRows DEF taskVars
  <2>3. Exactly /\ Fresh /\ ActiveRows(e) /\ DecidedRows(e)
    BY <1>a, <2>1
  <2>4. \A t \in Tasks : worker'[t] = worker[t]
    BY <1>0, <1>1, <2>3, AsideLeavesWorkers DEF Fresh
  <2> QED BY <2>1, <2>2, <2>3, <2>4 DEF Exactly, Fresh, ActiveRows, DecidedRows, PlanTasks
<1>2. ASSUME NEW x \in Execs, Check(x)
      PROVE  Exactly' /\ Fresh' /\ ActiveRows(e)' /\ DecidedRows(e)'
  <2>1. Startable(x) /\ TransitionRun("PROVISIONING") /\ x = e /\ pc'[e] = "capabilities"
    BY <1>2, <1>0, ExecAssumption DEF Check, Holds, Return, Move, Goto, ExecTypeOK
  <2>2. UNCHANGED <<plan, taskState, worker>>
    BY <1>2, <2>1 DEF Check, TransitionRun, taskVars
  <2>3. \A t \in Tasks : worker[t] = "none"
    BY <1>0, <2>1 DEF Startable, WaitInv, Waiting
  <2>4. \A t \in Tasks : taskState[t] = IF t \in PlanTasks THEN "PENDING" ELSE "ABSENT"
    BY <2>1 DEF Startable
  <2> QED BY <2>1, <2>2, <2>3, <2>4 DEF Exactly, Fresh, ActiveRows, DecidedRows, PlanTasks
<1>3. ASSUME NEW x \in Execs, Recover(x) \/ Finish(x)
      PROVE  FALSE
  BY <1>3, <1>0, Places, ExecAssumption DEF Recover, Finish, Holds, Return, Move, Goto, ExecTypeOK
<1>4. ASSUME NEW x \in Execs, Capabilities(x) \/ BeginRunning(x) \/ TakeBaseline(x)
               \/ Choose(x) \/ Gather(x) \/ EndBatch(x)
      PROVE  Exactly' /\ Fresh' /\ ActiveRows(e)' /\ DecidedRows(e)'
  <2>1. /\ x = e /\ lock = e /\ pc[e] \in Driving
        /\ UNCHANGED <<plan, taskState, worker, stop>>
        /\ pc[e] # "gather" \/ e \notin stop \ Fleet
        /\ pc'[e] = "blocking" => queue' = PlanTasks
        /\ pc'[e] = "finish" => Holds(e, "loop") /\ Hopeless = {} /\ Ready = {}
    BY <1>4, <1>0, Places, ExecAssumption DEF Capabilities, BeginRunning, TakeBaseline, Choose,
       Gather, EndBatch, Holds, Return, Move, Goto, ExecTypeOK, storeVars, taskVars,
       TransitionRun, userVars, Provisioning, Running
  <2>2. Exactly /\ Fresh /\ ActiveRows(e)
    BY <1>a, <2>1
  <2>3. Exactly' /\ Fresh' /\ ActiveRows(e)'
    BY <2>1, <2>2 DEF Exactly, Fresh, ActiveRows, PlanTasks
  <2>4. pc'[e] = "finish" => \A t \in Tasks : taskState[t] # "PENDING"
    BY <2>1, NothingLeft
  <2>5. DecidedRows(e)'
    BY <2>1, <2>4 DEF DecidedRows, PlanTasks
  <2> QED BY <2>3, <2>5
<1>5. ASSUME NEW x \in Execs, BlockAll(x) \/ BlockDependent(x)
      PROVE  Exactly' /\ Fresh' /\ ActiveRows(e)' /\ DecidedRows(e)'
  <2>1. x = e /\ lock = e /\ pc'[e] = pc[e] /\ pc[e] \in {"blocking", "loop"}
        /\ UNCHANGED <<worker, stop>> /\ pc[e] \in Driving
    BY <1>5, <1>0, Places, ExecAssumption DEF BlockAll, BlockDependent, Holds, Return, Move, Goto,
       ctlVars, userVars, ExecTypeOK
  <2>2. Exactly /\ Fresh /\ ActiveRows(e) /\ DecidedRows(e) /\ PlanTasks \subseteq Tasks
    BY <1>a, <2>1
  <2>3. PICK t \in Tasks : BlockTask(t) /\ (pc[e] = "blocking" => queue' = queue \ {t})
    BY <1>5, <2>1, <2>2, <1>0, ExecAssumption
       DEF BlockAll, BlockDependent, Holds, Return, Hopeless, BlockedDependents, ExecTypeOK
  <2>4. taskState'[t] = "BLOCKED" /\ \A u \in Tasks \ {t} : taskState'[u] = taskState[u]
    BY <1>0, <2>3, OneRow DEF BlockTask
  <2>5. taskState[t] # "ABSENT" /\ plan' = plan
    BY <2>3 DEF BlockTask, runVars
  <2>6. Exactly'
    BY <2>2, <2>4, <2>5 DEF Exactly, PlanTasks
  <2>7. Fresh' /\ ActiveRows(e)'
    BY <2>1, <2>2, <2>4 DEF Fresh, ActiveRows
  <2>8. DecidedRows(e)'
    BY <2>1, <2>2, <2>3, <2>4, <2>5 DEF DecidedRows, PlanTasks
  <2> QED BY <2>6, <2>7, <2>8
<1>6. ASSUME NEW x \in Execs, NEW t \in Tasks, ProvisionNext(x, t)
      PROVE  Exactly' /\ Fresh' /\ ActiveRows(e)' /\ DecidedRows(e)'
  <2>1. x = e /\ lock = e /\ pc[e] = "provision" /\ pc'[e] = "provision" /\ pc[e] \in Driving
    BY <1>6, <1>0, Places DEF ProvisionNext, Holds, Move, Goto, Running, ExecTypeOK
  <2>2. Exactly /\ Fresh /\ ActiveRows(e)
    BY <1>a, <2>1
  <2>3. /\ plan' = plan /\ taskState[t] # "ABSENT"
        /\ \A u \in Tasks \ {t} : taskState'[u] = taskState[u] /\ worker'[u] = worker[u]
        /\ \/ taskState'[t] = "PROVISIONED" /\ worker'[t] = "ready"
           \/ taskState'[t] = "BLOCKED" /\ worker'[t] = worker[t]
    <3>1. CASE RecordWorktree(t) /\ worker' = [worker EXCEPT ![t] = "ready"]
      BY <3>1, <1>0, OneRow DEF RecordWorktree, runVars, ExecTypeOK
    <3>2. CASE BlockTask(t) /\ UNCHANGED worker
      BY <3>2, <1>0, OneRow DEF BlockTask, runVars
    <3> QED BY <1>6, <3>1, <3>2 DEF ProvisionNext
  <2>4. Exactly'
    BY <2>2, <2>3 DEF Exactly, PlanTasks
  <2>5. Fresh' /\ ActiveRows(e)' /\ DecidedRows(e)'
    BY <2>1, <2>2, <2>3 DEF Fresh, ActiveRows, DecidedRows
  <2> QED BY <2>4, <2>5
<1>7. ASSUME NEW x \in Execs, NEW t \in Tasks, Work(x, t) \/ Abandon(x, t)
      PROVE  Exactly' /\ Fresh' /\ ActiveRows(e)' /\ DecidedRows(e)'
  <2>1. x = e /\ lock = e /\ pc[e] = "gather" /\ pc'[e] = "gather" /\ stop' = stop
        /\ plan' = plan /\ pc[e] \in Driving
    BY <1>7, <1>0, Places DEF Work, Begin, Spawn, Supervised, Collect, Abandon, Holds, ctlVars,
       userVars, BeginAttempt, FinishAttempt, storeVars, runVars, Running
  <2>2. Exactly /\ Fresh /\ ActiveRows(e)
    BY <1>a, <2>1
  <2>3. /\ \A u \in Tasks \ {t} : worker'[u] = worker[u] /\ taskState'[u] = taskState[u]
        /\ \/ /\ taskState[t] # "ABSENT" /\ taskState'[t] = "RUNNING" /\ worker'[t] \in Attended
           \/ /\ taskState[t] # "ABSENT" /\ taskState'[t] \in Outcomes /\ worker'[t] = "none"
           \/ taskState'[t] = taskState[t] /\ worker[t] \in Attended /\ worker'[t] \in Attended
           \/ taskState'[t] = taskState[t] /\ worker'[t] = "none" /\ e \in stop \ Fleet
    <3>1. \A u \in Tasks \ {t} : worker'[u] = worker[u]
      BY <1>7, <1>0 DEF Work, Begin, Spawn, Supervised, Collect, Abandon, SetWorker, ExecTypeOK
    <3>2. CASE Begin(e, t)
      <4>1. worker'[t] \in Attended
        BY <3>2, <1>0 DEF Begin, SetWorker, Attended, ExecTypeOK
      <4>2. taskState'[t] = "RUNNING" /\ \A u \in Tasks \ {t} : taskState'[u] = taskState[u]
        BY <3>2, <1>0, OneRow DEF Begin, BeginAttempt
      <4> QED BY <3>1, <3>2, <4>1, <4>2 DEF Begin, BeginAttempt
    <3>3. CASE Spawn(e, t) \/ Supervised(e, t)
      BY <3>1, <3>3, <1>0 DEF Spawn, Supervised, SetWorker, Attended, Ended, storeVars, ExecTypeOK
    <3>4. CASE Collect(e, t)
      <4>1. /\ taskState'[t] \in Outcomes
            /\ \A u \in Tasks \ {t} : taskState'[u] = taskState[u]
        BY <3>4, <1>0, OneRow DEF Collect, FinishAttempt, Outcome, Outcomes
      <4>2. worker'[t] = "none" /\ taskState[t] # "ABSENT"
        BY <3>4, <1>0 DEF Collect, FinishAttempt, SetWorker, ExecTypeOK
      <4> QED BY <3>1, <4>1, <4>2
    <3>5. CASE Abandon(e, t)
      BY <3>1, <3>5, <1>0 DEF Abandon, SetWorker, storeVars, ExecTypeOK
    <3> QED BY <1>7, <2>1, <3>2, <3>3, <3>4, <3>5 DEF Work
  <2>4. Exactly'
    BY <2>1, <2>2, <2>3 DEF Exactly, PlanTasks, Outcomes
  <2>5. Fresh'
    BY <2>2, <2>3 DEF Fresh, Outcomes, Attended, Ended
  <2>6. ActiveRows(e)' /\ DecidedRows(e)'
    BY <2>1, <2>2, <2>3 DEF ActiveRows, DecidedRows, Outcomes, Attended, Ended
  <2> QED BY <2>4, <2>5, <2>6
<1>8. CASE UNCHANGED vars
  <2>1. UNCHANGED <<plan, taskState, lock, pc, queue, worker, stop>>
    BY <1>8 DEF vars, storeVars, ctlVars, userVars
  <2> QED BY <1>a, <2>1 DEF Exactly, Fresh, ActiveRows, DecidedRows, PlanTasks
<1> QED
  BY <1>1, <1>2, <1>3, <1>4, <1>5, <1>6, <1>7, <1>8 DEF Next, Run, Aside

\* The rows of a driven run are those of its plan, and what is neither PENDING
\* nor decided has a Worker: when its loop ends, all of it is decided.
THEOREM RowsSettle == ExecSpec => []SettleInv
<1>1. Init => SettleInv
  BY ExecAssumption DEF Init, SettleInv
<1> QED BY <1>1, SettleStep, GroundsAlways, PTL DEF ExecSpec

-----------------------------------------------------------------------------
(* Slots.                                                                  *)

\* No step but the choice of a batch takes a slot.
LEMMA SlotsShrink ==
  ASSUME Grounds, SettleInv, [Next]_vars, ~ \E e \in Execs : Choose(e)
  PROVE  Slotted' \subseteq Slotted
<1> SUFFICES ASSUME NEW t \in Slotted' PROVE t \in Slotted
  OBVIOUS
<1>0. TypeOK /\ ExecTypeOK /\ Known /\ StateInv /\ WaitInv
  BY DEF Grounds, Known, ExecInv
<1>a. t \in Tasks
  <2>1. queue' \subseteq Tasks
    BY ExecStep DEF Grounds, Known, ExecInv, ExecTypeOK
  <2> QED BY <2>1 DEF Slotted
<1>b. \/ worker'[t] # "none" \/ taskState'[t] = "RUNNING"
      \/ lock' \in Execs /\ pc'[lock'] = "provision" /\ t \in queue'
  BY DEF Slotted
<1>c. ASSUME \/ worker[t] # "none" \/ taskState[t] = "RUNNING"
             \/ lock \in Execs /\ pc[lock] = "provision" /\ t \in queue
      PROVE  t \in Slotted
  BY <1>a, <1>c DEF Slotted
<1>1. CASE Aside
  <2>1. worker'[t] # "none" => worker[t] # "none"
    BY <1>0, <1>1, <1>a, AsideMoves
  <2>2. taskState'[t] = "RUNNING" => taskState[t] = "RUNNING"
    BY <1>0, <1>1, <1>a, AsideMoves
  <2>3. lock' \in Execs /\ pc'[lock'] = "provision" =>
          lock = lock' /\ pc[lock] = "provision" /\ queue' = queue
    BY <1>0, <1>1, AsideLeavesDriver, Places DEF Running
  <2> QED BY <1>b, <1>c, <2>1, <2>2, <2>3
<1>2. ASSUME NEW e \in Execs, Recover(e) \/ Check(e) \/ Capabilities(e) \/ BeginRunning(e)
               \/ TakeBaseline(e) \/ EndBatch(e) \/ Finish(e) \/ Gather(e)
      PROVE  t \in Slotted
  <2>1. taskState'[t] = "RUNNING" => taskState[t] = "RUNNING"
    BY <1>2, <1>a DEF Recover, RecoverInterrupted, Check, Capabilities, BeginRunning, TakeBaseline,
       EndBatch, Finish, Gather, TransitionRun, taskVars, storeVars
  <2>2. worker' = worker
    BY <1>2 DEF Recover, Check, Capabilities, BeginRunning, TakeBaseline, EndBatch, Finish, Gather
  <2>3. ~ (lock' \in Execs /\ pc'[lock'] = "provision")
    BY <1>2, <1>0, ExecAssumption DEF Recover, Check, Capabilities, BeginRunning, TakeBaseline,
       EndBatch, Finish, Gather, Holds, Return, Move, Goto, ExecTypeOK
  <2> QED BY <1>b, <1>c, <2>1, <2>2, <2>3
<1>3. ASSUME NEW e \in Execs, BlockAll(e) \/ BlockDependent(e) PROVE t \in Slotted
  <2>1. worker' = worker /\ ~ (lock' \in Execs /\ pc'[lock'] = "provision")
    BY <1>3, <1>0, ExecAssumption DEF BlockAll, BlockDependent, Holds, Return, Move, Goto, ctlVars,
       ExecTypeOK
  <2>2. taskState'[t] = "RUNNING" => taskState[t] = "RUNNING"
    BY <1>3, <1>0, <1>a DEF BlockAll, BlockDependent, BlockTask, SetTask, TransitionRun, taskVars,
       TypeOK
  <2> QED BY <1>b, <1>c, <2>1, <2>2
<1>4. ASSUME NEW e \in Execs, NEW u \in Tasks, ProvisionNext(e, u) PROVE t \in Slotted
  <2>1. /\ lock = e /\ pc[e] = "provision" /\ u \in queue /\ queue' = queue \ {u}
        /\ t # u => worker'[t] = worker[t]
    BY <1>4, <1>0, <1>a DEF ProvisionNext, IsFirst, Holds, ExecTypeOK
  <2>2. t # u => taskState'[t] = taskState[t]
    BY <1>4, <1>0, <1>a, OneRow DEF ProvisionNext, RecordWorktree, BlockTask
  <2> QED BY <1>b, <1>c, <2>1, <2>2
<1>5. ASSUME NEW e \in Execs, NEW u \in Tasks, Work(e, u) \/ Abandon(e, u) PROVE t \in Slotted
  <2>1. /\ worker[u] # "none" /\ UNCHANGED <<lock, pc, queue>>
        /\ t # u => worker'[t] = worker[t]
    BY <1>5, <1>0, <1>a DEF Work, Begin, Spawn, Supervised, Collect, Abandon, SetWorker, ctlVars,
       ExecTypeOK, Ended
  <2>2. t # u => taskState'[t] = taskState[t]
    BY <1>5, <1>0, <1>a, OneRow DEF Work, Begin, Spawn, Supervised, Collect, Abandon, BeginAttempt,
       FinishAttempt, storeVars
  <2> QED BY <1>b, <1>c, <2>1, <2>2
<1>6. CASE UNCHANGED vars
  BY <1>b, <1>c, <1>6 DEF vars, storeVars, ctlVars
<1> QED BY <1>1, <1>2, <1>3, <1>4, <1>5, <1>6 DEF Next, Run, Aside

LEMMA SlotStep == Grounds /\ SettleInv /\ SlotInv /\ [Next]_vars => SlotInv'
<1> SUFFICES ASSUME Grounds, SettleInv, SlotInv, [Next]_vars PROVE SlotInv'
  OBVIOUS
<1>1. CASE ~ \E e \in Execs : Choose(e)
  <2>1. Slotted' \in SUBSET Slotted
    BY <1>1, SlotsShrink
  <2>2. IsFiniteSet(Slotted') /\ Cardinality(Slotted') <= Cardinality(Slotted)
    BY <2>1, FS_Subset DEF SlotInv
  <2>3. Cardinality(Slotted) \in Nat /\ Cardinality(Slotted') \in Nat
    BY <2>2, FS_CardinalityType DEF SlotInv
  <2> QED BY <2>2, <2>3, SlotsAssumption DEF SlotInv
<1>2. ASSUME NEW e \in Execs, Choose(e) PROVE SlotInv'
  <2>1. lock = e /\ pc[e] = "loop" /\ pc[e] \in Driving
    BY <1>2, Places DEF Choose, Holds, Running
  <2>2. Fresh /\ ActiveRows(e) /\ Busy = {}
    BY <2>1 DEF SettleInv, Grounds, Known, BusyUnderLock
  <2>3. \A t \in Tasks : worker[t] = "none" /\ taskState[t] # "RUNNING"
    BY <2>1, <2>2 DEF Fresh, ActiveRows, Busy, Attended, Grounds, Known, ExecInv, ExecTypeOK,
       WorkerStates
  <2>4. worker' = worker /\ taskState' = taskState /\ queue' \subseteq Ready
    BY <1>2 DEF Choose, storeVars
  <2>5. Slotted' \in SUBSET Ready
    BY <2>3, <2>4 DEF Slotted
  <2>6. IsFiniteSet(Ready) /\ Cardinality(Ready) <= Slots
    <3>1. PlanTasks \in SUBSET Tasks /\ IsFiniteSet(PlanTasks)
      BY <2>1, DrivenPlan
    <3> QED BY <3>1, ReadyFitSlots DEF Ready
  <2>7. /\ IsFiniteSet(Slotted') /\ Cardinality(Slotted') <= Cardinality(Ready)
    BY <2>5, <2>6, FS_Subset
  <2>8. Cardinality(Ready) \in Nat /\ Cardinality(Slotted') \in Nat
    BY <2>6, <2>7, FS_CardinalityType
  <2> QED BY <2>6, <2>7, <2>8, SlotsAssumption DEF SlotInv
<1> QED BY <1>1, <1>2

\* Workers, RUNNING rows and chosen tasks never need more than the slots.
THEOREM SlotsSuffice == ExecSpec => []SlotInv
<1>1. Init => SlotInv
  <2> SUFFICES ASSUME Init PROVE SlotInv
    OBVIOUS
  <2>1. Slotted = {}
    BY ExecAssumption DEF Init, StoreInit, Slotted
  <2> QED BY <2>1, FS_EmptySet, SlotsAssumption DEF SlotInv
<1> QED BY <1>1, SlotStep, GroundsAlways, RowsSettle, PTL DEF ExecSpec

\* There are never more processes of Workers than max_parallel_workers, those a
\* crashed executor left behind included, whatever is started after it.
THEOREM ProcessesFitSlots == ExecSpec => []WithinSlots
<1>1. ASSUME SlotInv PROVE WithinSlots
  <2> DEFINE processes == {t \in Tasks : worker[t] \in {"live", "stray"}}
  <2>1. processes \in SUBSET Slotted
    BY DEF Slotted
  <2>2. IsFiniteSet(processes) /\ Cardinality(processes) <= Cardinality(Slotted)
    BY <1>1, <2>1, FS_Subset DEF SlotInv
  <2>3. Cardinality(Slotted) \in Nat /\ Cardinality(processes) \in Nat
    BY <1>1, <2>2, FS_CardinalityType DEF SlotInv
  <2> HIDE DEF processes
  <2>4. Cardinality(processes) <= Slots
    BY <1>1, <2>2, <2>3, SlotsAssumption DEF SlotInv
  <2> QED BY <2>4 DEF WithinSlots, processes
<1>2. SlotInv => WithinSlots
  BY <1>1
<1> QED BY <1>2, SlotsSuffice, PTL

-----------------------------------------------------------------------------
(* Verdicts.                                                               *)

LEMMA LostStep == Grounds /\ LostInv /\ [Next]_vars => LostInv'
<1> SUFFICES ASSUME Grounds, LostInv, [Next]_vars, state' = "RUNNING"
             PROVE  faults' > 0 \/ \E e \in Execs : lock' = e /\ pc'[e] \in Running
  BY DEF LostInv
<1>0. ExecTypeOK /\ Known /\ StateInv /\ WaitInv
  BY DEF Grounds, Known, ExecInv
<1>a. ASSUME state = "RUNNING", faults' = faults,
             \A e \in Execs : lock = e /\ pc[e] \in Running => lock' = e /\ pc'[e] \in Running
      PROVE  faults' > 0 \/ \E e \in Execs : lock' = e /\ pc'[e] \in Running
  BY <1>a DEF LostInv
<1>1. CASE Aside
  <2>1. state = "RUNNING"
    BY <1>0, <1>1, AsideMoves DEF Waiting
  <2>2. ASSUME NEW e \in Execs, Crash(e) PROVE faults' > 0
    BY <2>2, <1>0 DEF Crash, ExecTypeOK
  <2>3. CASE ~ \E e \in Execs : Crash(e)
    <3>1. faults' = faults
      BY <1>1, <2>3 DEF Aside, Create, NewRun, AdvanceRun, PinTarget, ApproveRun, UserChanges,
         Start, RequestStop, Acquire, StrayExits, userVars
    <3>2. ASSUME NEW e \in Execs, lock = e, pc[e] \in Running
          PROVE  lock' = e /\ pc'[e] \in Running
      BY <3>2, <1>0, <1>1, <2>3, ExecAssumption
         DEF Aside, Create, NewRun, AdvanceRun, PinTarget, ApproveRun, UserChanges, Start,
         RequestStop, Acquire, StrayExits, ctlVars, At, Goto, Running, ExecTypeOK
    <3> QED BY <2>1, <3>1, <3>2, <1>a
  <2> QED BY <2>2, <2>3
<1>2. ASSUME NEW e \in Execs, Recover(e) \/ Check(e)
      PROVE  faults' > 0
  <2>1. state = "RUNNING" /\ faults' = faults
    BY <1>2 DEF Recover, RecoverInterrupted, Check, TransitionRun, MoveRun, storeVars, userVars
  <2>2. lock = e /\ pc[e] \notin Running
    BY <1>2 DEF Recover, Check, Holds, Running
  <2> QED BY <2>1, <2>2 DEF LostInv
<1>3. ASSUME NEW e \in Execs, Capabilities(e) \/ BlockAll(e) \/ Finish(e) PROVE FALSE
  <2>1. state' = state \/ state' \in {"BLOCKED", "CANCELLED", "VERIFYING", "FAILED"}
    BY <1>3 DEF Capabilities, BlockAll, Finish, Verdict, TransitionRun, MoveRun, BlockTask, runVars,
       storeVars
  <2>2. ~ Finish(e) => state = "PROVISIONING"
    BY <1>0, <1>3 DEF Capabilities, BlockAll, Holds, StateInv, Provisioning
  <2>3. Finish(e) => state' # "RUNNING"
    BY DEF Finish, Verdict, TransitionRun, MoveRun
  <2> QED BY <2>1, <2>2, <2>3
<1>4. ASSUME NEW e \in Execs, lock' = e, pc'[e] \in Running
      PROVE  faults' > 0 \/ \E x \in Execs : lock' = x /\ pc'[x] \in Running
  BY <1>4
<1>5. ASSUME NEW e \in Execs, BeginRunning(e) \/ TakeBaseline(e) \/ BlockDependent(e) \/ Choose(e)
               \/ Gather(e)
      PROVE  lock' = e /\ pc'[e] \in Running
  BY <1>5, <1>0 DEF BeginRunning, TakeBaseline, BlockDependent, Choose, Gather, Holds, Move, Goto,
     ctlVars, Running, ExecTypeOK
<1>6. ASSUME NEW e \in Execs, EndBatch(e)
      PROVE  lock' = e /\ pc'[e] \in Running
  BY <1>6, <1>0 DEF EndBatch, Holds, Move, Goto, TransitionRun, MoveRun, Running, ExecTypeOK
<1>7. ASSUME NEW e \in Execs, NEW t \in Tasks, ProvisionNext(e, t) \/ Work(e, t) \/ Abandon(e, t)
      PROVE  lock' = e /\ pc'[e] \in Running
  BY <1>7, <1>0 DEF ProvisionNext, Work, Begin, Spawn, Supervised, Collect, Abandon, Holds, Move,
     Goto, ctlVars, Running, ExecTypeOK
<1>8. CASE UNCHANGED vars
  BY <1>8, <1>a DEF vars, storeVars, ctlVars, userVars
<1> QED
  BY <1>1, <1>2, <1>3, <1>4, <1>5, <1>6, <1>7, <1>8 DEF Next, Run, Aside

\* A run that nobody drives is RUNNING only because an executor was lost.
THEOREM LostByACrash == ExecSpec => []LostInv
<1>1. Init => LostInv
  BY DEF Init, StoreInit, LostInv
<1> QED BY <1>1, LostStep, GroundsAlways, PTL DEF ExecSpec

\* The rows of a run that ended by a verdict.
Judged == {"VERIFYING", "FAILED", "BLOCKED"}
Undecided == {"PENDING", "PROVISIONED", "RUNNING"}

\* When the loop ends all tasks of the plan are decided, and none was lost.
LEMMA DecidedAtFinish ==
  ASSUME Grounds, SettleInv, NEW e \in Execs, Holds(e, "finish")
  PROVE  /\ PlanTasks \subseteq Tasks
         /\ \A t \in Tasks : taskState[t] \notin Undecided \cup {"INTERRUPTED"}
         /\ \A t \in PlanTasks : taskState[t] \in {"SUCCEEDED", "FAILED", "CANCELLED", "BLOCKED"}
         /\ \A t \in Tasks : t \in PlanTasks \/ taskState[t] = "ABSENT"
<1>1. lock = e /\ pc[e] = "finish" /\ pc[e] \in Driving
  BY Places DEF Holds, Running
<1>2. Exactly /\ Fresh /\ ActiveRows(e) /\ DecidedRows(e) /\ Busy = {}
  BY <1>1 DEF SettleInv, Grounds, Known, BusyUnderLock
<1>3. PlanTasks \subseteq Tasks
  BY <1>1, DrivenPlan
<1>4. \A t \in Tasks : taskState[t] \notin Undecided \cup {"INTERRUPTED"}
  BY <1>1, <1>2 DEF Fresh, ActiveRows, DecidedRows, Busy, Attended, Undecided
<1>5. \A t \in Tasks : taskState[t] \in TaskStates \cup {"ABSENT"}
  BY DEF Grounds, Known, ExecInv, TypeOK
<1> QED BY <1>2, <1>3, <1>4, <1>5 DEF Exactly, TaskStates, Undecided

\* Once a run is judged, its rows stay.
LEMMA JudgedStays ==
  ASSUME Grounds, VerdictTrue, [Next]_vars, state \in Judged
  PROVE  /\ UNCHANGED <<state, plan>> /\ faults' >= faults
         /\ \A t \in Tasks : taskState'[t] = taskState[t]
                             \/ (state = "VERIFYING" /\ taskState[t] = "RUNNING")
<1>0. ExecTypeOK /\ Known /\ StateInv /\ WaitInv
  BY DEF Grounds, Known, ExecInv
<1>1. \A e \in Execs : lock = e => pc[e] \notin Driving
  BY <1>0, Places DEF StateInv, Judged
<1>2. CASE Aside
  <2>1. faults' >= faults
    <3>1. faults \in Nat
      BY <1>0 DEF ExecTypeOK
    <3>2. faults' = faults \/ faults' = faults + 1
      BY <1>2 DEF Aside, Create, NewRun, AdvanceRun, PinTarget, ApproveRun, UserChanges,
         Start, RequestStop, Acquire, Crash, StrayExits, userVars
    <3> QED BY <3>1, <3>2
  <2> QED BY <1>0, <1>2, <2>1, AsideMoves DEF Waiting, Judged
<1>3. ASSUME NEW e \in Execs, Recover(e) PROVE
         /\ UNCHANGED <<state, plan>> /\ faults' >= faults
         /\ \A t \in Tasks : taskState'[t] = taskState[t]
                             \/ (state = "VERIFYING" /\ taskState[t] = "RUNNING")
  <2>1. faults' = faults /\ faults \in Nat
    BY <1>0, <1>3 DEF Recover, userVars, ExecTypeOK
  <2>2. CASE Orphaned = {}
    BY <1>3, <2>1, <2>2 DEF Recover, storeVars
  <2>3. CASE Orphaned # {}
    <3>1. PICK t \in Tasks : taskState[t] = "RUNNING"
      BY <1>0, <2>3, OrphansRun
    <3>2. state = "VERIFYING"
      BY <3>1 DEF VerdictTrue, Judged
    <3>3. /\ state' = state /\ plan' = plan
          /\ \A u \in Tasks : taskState'[u] = taskState[u] \/ u \in Orphaned
      BY <1>3, <2>3, <3>2 DEF Recover, RecoverInterrupted
    <3> QED BY <1>0, <2>1, <3>2, <3>3, OrphansRun
  <2> QED BY <2>2, <2>3
<1>4. ASSUME NEW e \in Execs, Check(e) PROVE UNCHANGED <<state, plan, taskState, faults>>
  BY <1>4 DEF Check, Startable, Judged, storeVars, userVars
<1>5. ASSUME NEW e \in Execs, Capabilities(e) \/ BlockAll(e) \/ BeginRunning(e) \/ TakeBaseline(e)
               \/ BlockDependent(e) \/ Choose(e) \/ Gather(e) \/ EndBatch(e) \/ Finish(e)
      PROVE  FALSE
  BY <1>1, <1>5, Places DEF Capabilities, BlockAll, BeginRunning, TakeBaseline, BlockDependent,
     Choose, Gather, EndBatch, Finish, Holds, Provisioning, Running
<1>6. ASSUME NEW e \in Execs, NEW t \in Tasks, ProvisionNext(e, t) \/ Work(e, t) \/ Abandon(e, t)
      PROVE  FALSE
  BY <1>1, <1>6, Places DEF ProvisionNext, Work, Begin, Spawn, Supervised, Collect, Abandon, Holds,
     Running
<1>7. CASE UNCHANGED vars
  BY <1>0, <1>7 DEF vars, storeVars, userVars, ExecTypeOK
<1> QED
  BY <1>0, <1>2, <1>3, <1>4, <1>5, <1>6, <1>7 DEF Next, Run, Aside, ExecTypeOK

\* A run is judged by the end of the loop, by a driver that found a provider
\* missing, or by a recovery that found an executor lost.
LEMMA Judging ==
  ASSUME Grounds, [Next]_vars, state \notin Judged, state' \in Judged
  PROVE  \E e \in Execs :
           \/ Finish(e)
           \/ Holds(e, "blocking") /\ queue = {} /\ TransitionRun("BLOCKED")
           \/ Recover(e) /\ Orphaned # {} /\ state = "RUNNING"
<1>0. ExecTypeOK /\ Known /\ StateInv /\ WaitInv
  BY DEF Grounds, Known, ExecInv
<1>1. ~ Aside
  BY <1>0, AsideMoves DEF Waiting, Judged
<1>2. ASSUME NEW e \in Execs, Recover(e) PROVE Orphaned # {} /\ state = "RUNNING"
  BY <1>2 DEF Recover, RecoverInterrupted, storeVars, Judged
<1>3. ASSUME NEW e \in Execs, Check(e) \/ Capabilities(e) \/ BeginRunning(e) \/ TakeBaseline(e)
               \/ BlockDependent(e) \/ Choose(e) \/ Gather(e) \/ EndBatch(e)
      PROVE  FALSE
  BY <1>3 DEF Check, Capabilities, BeginRunning, TakeBaseline, BlockDependent, Choose, Gather,
     EndBatch, TransitionRun, MoveRun, BlockTask, runVars, storeVars, Judged
<1>4. ASSUME NEW e \in Execs, NEW t \in Tasks, ProvisionNext(e, t) \/ Work(e, t) \/ Abandon(e, t)
      PROVE  FALSE
  BY <1>4 DEF ProvisionNext, Work, Begin, Spawn, Supervised, Collect, Abandon, RecordWorktree,
     BlockTask, BeginAttempt, FinishAttempt, runVars, storeVars
<1>5. ASSUME NEW e \in Execs, BlockAll(e)
      PROVE  Holds(e, "blocking") /\ queue = {} /\ TransitionRun("BLOCKED")
  BY <1>5 DEF BlockAll, BlockTask, runVars
<1>6. ~ UNCHANGED vars
  BY DEF vars, storeVars
<1> QED BY <1>1, <1>2, <1>3, <1>4, <1>5, <1>6 DEF Next, Run, Aside

LEMMA VerdictStep ==
  Grounds /\ SettleInv /\ LostInv /\ VerdictTrue /\ [Next]_vars => VerdictTrue'
<1> SUFFICES ASSUME Grounds, SettleInv, LostInv, VerdictTrue, [Next]_vars, state' \in Judged
             PROVE  VerdictTrue'
  BY DEF VerdictTrue, Judged
<1>0. ExecTypeOK
  BY DEF Grounds, Known, ExecInv
<1>1. CASE state \in Judged
  <2>1. /\ UNCHANGED <<state, plan>> /\ faults' >= faults
        /\ \A t \in Tasks : taskState'[t] = taskState[t]
                            \/ (state = "VERIFYING" /\ taskState[t] = "RUNNING")
    BY <1>1, JudgedStays
  <2>2. faults \in Nat /\ faults' \in Nat
    BY ExecStep DEF Grounds, Known, ExecInv, ExecTypeOK
  <2>3. CASE state = "VERIFYING"
    <3>1. PlanTasks \subseteq Tasks
      BY <2>3, PlanTasksAreTasks DEF Grounds, Known, ExecInv
    <3> QED BY <2>1, <2>3, <3>1 DEF VerdictTrue, PlanTasks
  <2>4. CASE state = "FAILED" \/ state = "BLOCKED"
    <3>1. \A t \in Tasks : taskState'[t] = taskState[t]
      BY <2>1, <2>4
    <3> QED BY <2>1, <2>2, <2>4, <3>1 DEF VerdictTrue
  <2> QED BY <1>1, <2>3, <2>4 DEF Judged
<1>2. ASSUME NEW e \in Execs, Finish(e) PROVE VerdictTrue'
  <2>1. Holds(e, "finish") /\ state' = Verdict(e) /\ taskState' = taskState /\ plan' = plan
    BY <1>2 DEF Finish, TransitionRun, MoveRun, taskVars
  <2>2. /\ PlanTasks \subseteq Tasks
        /\ \A t \in Tasks : taskState[t] \notin Undecided \cup {"INTERRUPTED"}
        /\ \A t \in PlanTasks : taskState[t] \in {"SUCCEEDED", "FAILED", "CANCELLED", "BLOCKED"}
        /\ \A t \in Tasks : t \in PlanTasks \/ taskState[t] = "ABSENT"
    BY <2>1, DecidedAtFinish
  <2>3. state' = "VERIFYING" => \A t \in PlanTasks : taskState[t] = "SUCCEEDED"
    BY <2>1 DEF Verdict
  <2>4. state' = "FAILED" => \E t \in Tasks : taskState[t] \in {"FAILED", "CANCELLED"}
    BY <2>1, <2>2 DEF Verdict
  <2>5. state' = "BLOCKED" => /\ \E t \in Tasks : taskState[t] = "BLOCKED"
                              /\ \A t \in Tasks : taskState[t] \notin {"FAILED", "CANCELLED"}
    BY <2>1, <2>2 DEF Verdict
  <2> QED BY <2>1, <2>2, <2>3, <2>4, <2>5 DEF VerdictTrue, Undecided, PlanTasks
<1>3. ASSUME NEW e \in Execs, Holds(e, "blocking"), queue = {}, TransitionRun("BLOCKED")
      PROVE  VerdictTrue'
  <2>1. lock = e /\ pc[e] \in Driving /\ pc[e] = "blocking"
    BY <1>3, Places DEF Holds, Provisioning
  <2>2. PlanTasks # {} /\ PlanTasks \subseteq Tasks
    BY <2>1, DrivenPlan
  <2>3. \A t \in Tasks : taskState[t] = IF t \in PlanTasks THEN "BLOCKED" ELSE "ABSENT"
    BY <1>3, <2>1, <2>2 DEF SettleInv, Exactly, DecidedRows
  <2>4. state' = "BLOCKED" /\ taskState' = taskState
    BY <1>3 DEF TransitionRun, MoveRun, taskVars
  <2> QED BY <2>2, <2>3, <2>4 DEF VerdictTrue
<1>4. ASSUME NEW e \in Execs, Recover(e), Orphaned # {}, state = "RUNNING" PROVE VerdictTrue'
  <2>1. faults > 0 /\ faults' = faults
    BY <1>4 DEF Recover, Holds, LostInv, Running, userVars
  <2>2. /\ state' = "BLOCKED"
        /\ taskState' = [t \in Tasks |->
                           IF t \in Orphaned THEN "INTERRUPTED" ELSE taskState[t]]
    BY <1>4 DEF Recover, RecoverInterrupted
  <2>3. Orphaned = {t \in Tasks : taskState[t] = "RUNNING"}
    BY OrphansRun DEF Grounds
  <2>4. /\ \E t \in Tasks : taskState'[t] = "INTERRUPTED"
        /\ \A t \in Tasks : taskState'[t] # "RUNNING"
    BY <1>4, <2>2, <2>3
  <2> QED BY <2>1, <2>2, <2>4 DEF VerdictTrue
<1> QED BY <1>1, <1>2, <1>3, <1>4, Judging

\* What the state of an ended run says of its tasks is so, for every plan: a
\* VERIFYING run succeeded in all of them, a FAILED one has nothing left to do
\* and something that failed, and a BLOCKED one either lost its executor or has
\* nothing that failed and nothing that could still run.
THEOREM VerdictsAreTrue == ExecSpec => []VerdictTrue
<1>1. Init => VerdictTrue
  BY DEF Init, StoreInit, VerdictTrue
<1> QED BY <1>1, VerdictStep, GroundsAlways, RowsSettle, LostByACrash, PTL DEF ExecSpec

-----------------------------------------------------------------------------
(* The promise: every step of the executors is a step of FleetRun.         *)

\* The phase and the fates a state of the run stands for.
LEMMA PhaseOf ==
  /\ state \in Waiting => Phase = "waiting"
  /\ state \in {"PROVISIONING", "RUNNING"} => Phase = "open"
  /\ state = "VERIFYING" => Phase = "verified"
  /\ state = "FAILED" => Phase = "failed"
  /\ state = "BLOCKED" => Phase = "stopped"
  /\ state = "CANCELLED" => Phase = "cancelled"
BY DEF Phase, Waiting

LEMMA PhaseNext ==
  /\ state' \in Waiting => Phase' = "waiting"
  /\ state' \in {"PROVISIONING", "RUNNING"} => Phase' = "open"
  /\ state' = "VERIFYING" => Phase' = "verified"
  /\ state' = "FAILED" => Phase' = "failed"
  /\ state' = "BLOCKED" => Phase' = "stopped"
  /\ state' = "CANCELLED" => Phase' = "cancelled"
  /\ state' = state => Phase' = Phase
BY DEF Phase, Waiting

\* A step that moves neither the phase, nor the plan, nor a fate stutters.
LEMMA Stutters ==
  ASSUME plan' = plan, Phase' = Phase,
         Phase = "waiting" \/ \A t \in Tasks : FateOf[taskState'[t]] = FateOf[taskState[t]]
  PROVE  UNCHANGED Promise!runVars
<1>1. Fate' = Fate
  BY DEF Fate
<1> QED BY <1>1 DEF Promise!runVars

\* A step that writes one row of an open run moves one fate.
LEMMA OneFate ==
  ASSUME plan' = plan, state' = state, state \in {"PROVISIONING", "RUNNING"}, NEW t \in Tasks,
         \A u \in Tasks \ {t} : taskState'[u] = taskState[u]
  PROVE  /\ Promise!SetFate(t, FateOf[taskState'[t]]) /\ UNCHANGED <<Phase, plan>>
         /\ Phase = "open" /\ \A u \in Tasks : Fate[u] = FateOf[taskState[u]]
<1>1. Phase = "open" /\ Phase' = "open"
  BY PhaseOf, PhaseNext
<1>2. /\ Fate = [u \in Tasks |-> FateOf[taskState[u]]]
      /\ Fate' = [u \in Tasks |-> FateOf[taskState'[u]]]
  BY <1>1 DEF Fate
<1>3. Fate' = [Fate EXCEPT ![t] = FateOf[taskState'[t]]]
  BY <1>2
<1> QED BY <1>1, <1>2, <1>3 DEF Promise!SetFate

\* A task that is blocked while the run is open is skipped.
LEMMA Skips ==
  ASSUME Grounds, NEW t \in Tasks, BlockTask(t), state \in {"PROVISIONING", "RUNNING"}
  PROVE  Promise!Next
<1>1. taskState'[t] = "BLOCKED" /\ \A u \in Tasks \ {t} : taskState'[u] = taskState[u]
  BY OneRow DEF BlockTask, Grounds
<1>2. plan' = plan /\ state' = state /\ FateOf[taskState[t]] = "todo"
  BY DEF BlockTask, runVars, FateOf
<1>3. FateOf[taskState'[t]] = "skipped"
  BY <1>1 DEF FateOf
<1>4. Promise!Skip(t)
  BY <1>1, <1>2, <1>3, OneFate DEF Promise!Skip
<1> QED BY <1>4 DEF Promise!Next

\* The start of a Worker takes its task: what it depends on has succeeded, and
\* its own slot is not yet among those of the tasks under way.
LEMMA Takes ==
  ASSUME Grounds, SlotInv, NEW e \in Execs, NEW t \in Tasks, Begin(e, t)
  PROVE  Promise!Next
<1>0. Known /\ TypeOK
  BY DEF Grounds, Known, ExecInv
<1>1. taskState'[t] = "RUNNING" /\ \A u \in Tasks \ {t} : taskState'[u] = taskState[u]
  BY <1>0, OneRow DEF Begin, BeginAttempt
<1>2. /\ plan' = plan /\ state' = state /\ state = "RUNNING" /\ taskState[t] = "PROVISIONED"
      /\ RequireReadyTask(t) /\ worker[t] = "ready" /\ plan \in Plans
  BY <1>0 DEF Begin, BeginAttempt, runVars, TypeOK
<1>3. FateOf[taskState[t]] = "todo" /\ FateOf[taskState'[t]] = "doing"
  BY <1>1, <1>2 DEF FateOf
<1>4. /\ Promise!SetFate(t, "doing") /\ UNCHANGED <<Phase, plan>>
      /\ Phase = "open" /\ \A u \in Tasks : Fate[u] = FateOf[taskState[u]]
  BY <1>1, <1>2, <1>3, OneFate
<1>5. \A d \in Deps[plan][t] : Fate[d] = "ok"
  BY <1>2, <1>4, DependenciesAreTasks DEF RequireReadyTask, FateOf
<1>6. Cardinality(Promise!OfFate("doing")) < Slots
  <2> DEFINE doing == Promise!OfFate("doing")
  <2>1. \A u \in Tasks : Fate[u] = "doing" => taskState[u] = "RUNNING"
    <3>1. \A s \in TaskStates \cup {"ABSENT"} : FateOf[s] = "doing" => s = "RUNNING"
      BY DEF FateOf, TaskStates
    <3> QED BY <1>0, <1>4, <3>1 DEF TypeOK
  <2>2. doing \in SUBSET Slotted /\ t \in Slotted /\ t \notin doing
    BY <2>1, <1>2, <1>3, <1>4 DEF Promise!OfFate, Slotted
  <2> HIDE DEF doing
  <2>3. IsFiniteSet(doing) /\ Cardinality(doing) <= Cardinality(Slotted)
        /\ Cardinality(doing) # Cardinality(Slotted)
    BY <2>2, FS_Subset DEF SlotInv
  <2>4. Cardinality(doing) \in Nat /\ Cardinality(Slotted) \in Nat
    BY <2>3, FS_CardinalityType DEF SlotInv
  <2>5. Cardinality(doing) < Slots
    BY <2>3, <2>4, SlotsAssumption DEF SlotInv
  <2> QED BY <2>5 DEF doing
<1>7. Fate[t] = "todo"
  BY <1>3, <1>4
<1>8. Promise!Cardinality(Promise!OfFate("doing")) = Cardinality(Promise!OfFate("doing"))
  BY DEF Promise!Cardinality, Cardinality
<1>9. Promise!Take(t)
  BY <1>4, <1>5, <1>6, <1>7, <1>8 DEF Promise!Take
<1> QED BY <1>9 DEF Promise!Next

\* A collected result settles its task.
LEMMA Settles ==
  ASSUME Grounds, NEW e \in Execs, NEW t \in Tasks, Collect(e, t)
  PROVE  Promise!Next
<1>0. Known /\ TypeOK
  BY DEF Grounds, Known, ExecInv
<1>1. taskState'[t] \in Outcomes /\ \A u \in Tasks \ {t} : taskState'[u] = taskState[u]
  BY <1>0, OneRow DEF Collect, FinishAttempt, Outcome, Outcomes
<1>2. plan' = plan /\ state' = state /\ state = "RUNNING" /\ taskState[t] = "RUNNING"
  BY DEF Collect, FinishAttempt, runVars, Holds, Grounds, StateInv, Running
<1>3. FateOf[taskState[t]] = "doing" /\ FateOf[taskState'[t]] \in {"ok", "bad"}
  BY <1>1, <1>2 DEF FateOf, Outcomes
<1>4. Promise!Settle(t, FateOf[taskState'[t]])
  BY <1>1, <1>2, <1>3, OneFate DEF Promise!Settle
<1> QED BY <1>3, <1>4 DEF Promise!Next

\* What recovery interrupts is lost.
LEMMA Loses ==
  ASSUME Grounds, NEW e \in Execs, Recover(e), Orphaned # {}
  PROVE  Promise!Next
<1>0. Known /\ TypeOK
  BY DEF Grounds, Known, ExecInv
<1>1. Orphaned = {t \in Tasks : taskState[t] = "RUNNING"}
  BY <1>0, OrphansRun
<1>2. PICK t \in Tasks : taskState[t] = "RUNNING"
  BY <1>1
<1>3. state \in Started \ {"PROVISIONING"}
  BY <1>2 DEF Grounds, WaitInv
<1>4. /\ plan' = plan /\ state' = IF state = "RUNNING" THEN "BLOCKED" ELSE state
      /\ taskState' = [u \in Tasks |->
                         IF taskState[u] = "RUNNING" THEN "INTERRUPTED" ELSE taskState[u]]
  BY <1>1 DEF Recover, RecoverInterrupted
<1>5. /\ Phase # "waiting" /\ Phase' # "waiting"
      /\ Phase' = IF Phase = "open" THEN "stopped" ELSE Phase
  BY <1>3, <1>4, PhaseOf, PhaseNext DEF Started
<1>6. /\ Fate = [u \in Tasks |-> FateOf[taskState[u]]]
      /\ Fate' = [u \in Tasks |-> FateOf[taskState'[u]]]
  BY <1>5 DEF Fate
<1>7. \A s \in TaskStates \cup {"ABSENT"} : FateOf[s] = "doing" <=> s = "RUNNING"
  BY DEF FateOf, TaskStates
<1>8. Fate' = [u \in Tasks |-> IF Fate[u] = "doing" THEN "lost" ELSE Fate[u]]
  <2>1. ASSUME NEW u \in Tasks
        PROVE  FateOf[taskState'[u]] = IF Fate[u] = "doing" THEN "lost" ELSE Fate[u]
    <3>1. Fate[u] = FateOf[taskState[u]]
          /\ taskState'[u] = IF taskState[u] = "RUNNING" THEN "INTERRUPTED" ELSE taskState[u]
      BY <1>4, <1>6
    <3>2. FateOf["INTERRUPTED"] = "lost"
      BY DEF FateOf
    <3>3. Fate[u] = "doing" <=> taskState[u] = "RUNNING"
      BY <1>0, <1>7, <3>1 DEF TypeOK
    <3> QED BY <3>1, <3>2, <3>3
  <2> QED BY <1>6, <2>1
<1>9. Promise!OfFate("doing") # {}
  BY <1>0, <1>2, <1>6, <1>7 DEF Promise!OfFate, TypeOK
<1>10. Promise!Lose
  BY <1>4, <1>5, <1>8, <1>9 DEF Promise!Lose
<1> QED BY <1>10 DEF Promise!Next

\* A start that passes its checks opens the run on the plan chosen before.
LEMMA Opens ==
  ASSUME Grounds, NEW e \in Execs, Check(e), Startable(e)
  PROVE  Promise!Next
<1>1. /\ state = "WAITING_FOR_APPROVAL" /\ state' = "PROVISIONING"
      /\ plan' = plan /\ taskState' = taskState
  BY DEF Check, Startable, TransitionRun, MoveRun, taskVars
<1>2. Phase = "waiting" /\ Phase' = "open" /\ plan # NoPlan
  BY <1>1, PhaseOf, PhaseNext DEF Waiting, Grounds, Known, ExecInv, TypeOK
<1>3. Fate' = [t \in Tasks |-> FateOf[taskState[t]]]
  BY <1>1, <1>2 DEF Fate
<1>4. \A t \in Tasks : FateOf[taskState[t]] = IF t \in TasksOf[plan] THEN "todo" ELSE "none"
  <2>1. \A t \in Tasks : taskState[t] = IF t \in PlanTasks THEN "PENDING" ELSE "ABSENT"
    BY DEF Startable
  <2>2. FateOf["PENDING"] = "todo" /\ FateOf["ABSENT"] = "none"
    BY DEF FateOf
  <2> QED BY <2>1, <2>2 DEF PlanTasks
<1>5. Fate' = [t \in Tasks |-> IF t \in TasksOf[plan] THEN "todo" ELSE "none"]
  BY <1>3, <1>4
<1>6. Promise!Open
  BY <1>1, <1>2, <1>5 DEF Promise!Open
<1> QED BY <1>6 DEF Promise!Next

\* A driven run that ends without touching a row closes truly.
LEMMA Closes ==
  ASSUME Grounds, state \in {"PROVISIONING", "RUNNING"}, plan' = plan, taskState' = taskState,
         state' \in Judged \cup {"CANCELLED"},
         state' = "VERIFYING" => \A t \in PlanTasks : t \in Tasks /\ taskState[t] = "SUCCEEDED",
         state' \in {"FAILED", "BLOCKED"} => \A t \in Tasks : taskState[t] \notin Undecided,
         state' = "FAILED" => \E t \in Tasks : taskState[t] \in {"FAILED", "CANCELLED"},
         state' = "BLOCKED" => /\ \E t \in Tasks : taskState[t] = "BLOCKED"
                               /\ \A t \in Tasks : taskState[t] \notin {"FAILED", "CANCELLED"}
  PROVE  Promise!Next
<1>0. \A t \in Tasks : taskState[t] \in TaskStates \cup {"ABSENT"}
  BY DEF Grounds, Known, ExecInv, TypeOK
<1>1. Phase = "open" /\ Phase' # "waiting"
  BY PhaseOf, PhaseNext DEF Judged
<1>2. Fate = [t \in Tasks |-> FateOf[taskState[t]]] /\ Fate' = Fate
  BY <1>1 DEF Fate
<1>3. \A s \in TaskStates \cup {"ABSENT"} :
        /\ FateOf[s] \in {"todo", "doing"} <=> s \in Undecided
        /\ FateOf[s] = "ok" <=> s = "SUCCEEDED"
        /\ FateOf[s] = "bad" <=> s \in {"FAILED", "CANCELLED"}
        /\ FateOf[s] = "skipped" <=> s = "BLOCKED"
  BY DEF FateOf, TaskStates, Undecided
<1>4. \A t \in Tasks :
        /\ Fate[t] \in {"todo", "doing"} <=> taskState[t] \in Undecided
        /\ Fate[t] = "ok" <=> taskState[t] = "SUCCEEDED"
        /\ Fate[t] = "bad" <=> taskState[t] \in {"FAILED", "CANCELLED"}
        /\ Fate[t] = "skipped" <=> taskState[t] = "BLOCKED"
  BY <1>0, <1>2, <1>3
<1>5. CASE state' = "VERIFYING"
  <2>1. Phase' = "verified" /\ \A t \in TasksOf[plan] : Fate[t] = "ok"
    BY <1>4, <1>5, PhaseNext DEF PlanTasks
  <2>2. Promise!Close("verified")
    BY <1>1, <1>2, <2>1 DEF Promise!Close
  <2> QED BY <2>2 DEF Promise!Next, Promise!Closed
<1>6. CASE state' = "FAILED"
  <2>1. Phase' = "failed" /\ Promise!Settled /\ Promise!OfFate("bad") # {}
    BY <1>4, <1>6, PhaseNext DEF Promise!Settled, Promise!OfFate
  <2>2. Promise!Close("failed")
    BY <1>1, <1>2, <2>1 DEF Promise!Close
  <2> QED BY <2>2 DEF Promise!Next, Promise!Closed
<1>7. CASE state' = "BLOCKED"
  <2>1. /\ Phase' = "stopped" /\ Promise!Settled /\ Promise!OfFate("bad") = {}
        /\ Promise!OfFate("skipped") # {}
    BY <1>4, <1>7, PhaseNext DEF Promise!Settled, Promise!OfFate
  <2>2. Promise!Close("stopped")
    BY <1>1, <1>2, <2>1 DEF Promise!Close
  <2> QED BY <2>2 DEF Promise!Next, Promise!Closed
<1>8. CASE state' = "CANCELLED"
  <2>1. Promise!Close("cancelled")
    BY <1>1, <1>2, <1>8, PhaseNext DEF Promise!Close
  <2> QED BY <2>1 DEF Promise!Next, Promise!Closed
<1> QED BY <1>5, <1>6, <1>7, <1>8 DEF Judged

\* The step of the run that nobody drives, or that is not started yet.
LEMMA AsideKeeps ==
  ASSUME Grounds, Aside
  PROVE  [Promise!Next]_Promise!runVars
<1>0. Known /\ StateInv /\ WaitInv /\ TypeOK
  BY DEF Grounds, Known, ExecInv
<1>1. CASE UNCHANGED <<state, plan, taskState>>
  BY <1>1, Stutters, PhaseNext
<1>2. CASE state \in Waiting /\ state' \in Waiting
  <2>1. Phase = "waiting" /\ Phase' = "waiting" /\ Fate' = Fate
    BY <1>2, PhaseOf, PhaseNext DEF Fate
  <2>2. CASE plan' = plan
    BY <2>1, <2>2, Stutters
  <2>3. ASSUME NEW p \in Plans, NewRun(p) PROVE Promise!Next
    <3>1. plan = NoPlan /\ plan' = p
      BY <1>0, <2>3 DEF NewRun, CreateRun, TypeOK
    <3>2. Promise!ChoosePlan(p)
      BY <2>1, <3>1 DEF Promise!ChoosePlan
    <3> QED BY <3>2 DEF Promise!Next
  <2>4. plan' = plan \/ \E p \in Plans : NewRun(p)
    BY DEF Aside, Create, AdvanceRun, TransitionRun, PinTarget, InitializeExecution, ApproveRun,
       RecordApproval, UserChanges, Start, RequestStop, Acquire, Crash, StrayExits, storeVars,
       runVars
  <2> QED BY <2>2, <2>3, <2>4
<1> QED BY <1>0, <1>1, <1>2, AsideMoves

LEMMA PromiseStep ==
  Grounds /\ SettleInv /\ SlotInv /\ [Next]_vars => [Promise!Next]_Promise!runVars
<1> SUFFICES ASSUME Grounds, SettleInv, SlotInv, [Next]_vars
             PROVE  [Promise!Next]_Promise!runVars
  OBVIOUS
<1>0. TypeOK /\ ExecTypeOK /\ Known /\ StateInv
  BY DEF Grounds, Known, ExecInv
<1>1. ASSUME UNCHANGED <<state, plan, taskState>> PROVE [Promise!Next]_Promise!runVars
  BY <1>1, Stutters, PhaseNext
<1>2. ASSUME NEW e \in Execs, Recover(e) PROVE [Promise!Next]_Promise!runVars
  <2>1. CASE Orphaned # {}
    BY <1>2, <2>1, Loses
  <2>2. CASE Orphaned = {}
    BY <1>1, <1>2, <2>2 DEF Recover, storeVars
  <2> QED BY <2>1, <2>2
<1>3. ASSUME NEW e \in Execs, Check(e) PROVE [Promise!Next]_Promise!runVars
  <2>1. CASE Startable(e)
    BY <1>3, <2>1, Opens
  <2>2. CASE ~ Startable(e)
    BY <1>1, <1>3, <2>2 DEF Check, storeVars
  <2> QED BY <2>1, <2>2
<1>4. ASSUME NEW e \in Execs, Capabilities(e) \/ TakeBaseline(e) \/ Choose(e) \/ Gather(e)
      PROVE  [Promise!Next]_Promise!runVars
  BY <1>1, <1>4 DEF Capabilities, TakeBaseline, Choose, Gather, storeVars
<1>5. ASSUME NEW e \in Execs, BeginRunning(e) PROVE [Promise!Next]_Promise!runVars
  <2>1. /\ state = "PROVISIONING" /\ state' = "RUNNING"
        /\ plan' = plan /\ taskState' = taskState
    BY <1>0, <1>5 DEF BeginRunning, Holds, StateInv, Provisioning, TransitionRun, MoveRun, taskVars
  <2> QED BY <2>1, Stutters, PhaseOf, PhaseNext
<1>6. ASSUME NEW e \in Execs, NEW t \in Tasks, BlockTask(t), lock = e, pc[e] \in Driving
      PROVE  [Promise!Next]_Promise!runVars
  BY <1>0, <1>6, Skips, Places DEF StateInv
<1>7. ASSUME NEW e \in Execs, BlockAll(e) PROVE [Promise!Next]_Promise!runVars
  <2>1. lock = e /\ pc[e] \in Driving /\ pc[e] = "blocking" /\ queue \subseteq Tasks
    BY <1>0, <1>7, Places DEF BlockAll, Holds, Provisioning, ExecTypeOK
  <2>2. CASE queue = {} /\ TransitionRun("BLOCKED")
    <3>1. PlanTasks # {} /\ PlanTasks \subseteq Tasks
      BY <2>1, DrivenPlan
    <3>2. \A t \in Tasks : taskState[t] = IF t \in PlanTasks THEN "BLOCKED" ELSE "ABSENT"
      BY <2>1, <2>2, <3>1 DEF SettleInv, Exactly, DecidedRows
    <3>3. state = "PROVISIONING" /\ state' = "BLOCKED" /\ taskState' = taskState /\ plan' = plan
      BY <1>0, <2>1, <2>2 DEF StateInv, Provisioning, TransitionRun, MoveRun, taskVars
    <3> QED BY <3>1, <3>2, <3>3, Closes DEF Judged, Undecided
  <2> QED BY <1>6, <1>7, <2>1, <2>2 DEF BlockAll
<1>8. ASSUME NEW e \in Execs, BlockDependent(e) PROVE [Promise!Next]_Promise!runVars
  <2>1. lock = e /\ pc[e] \in Driving
    BY <1>8, Places DEF BlockDependent, Holds, Running
  <2>2. PlanTasks \subseteq Tasks
    BY <2>1, DrivenPlan
  <2> QED BY <1>6, <1>8, <2>1, <2>2 DEF BlockDependent, Hopeless, BlockedDependents
<1>9. ASSUME NEW e \in Execs, NEW t \in Tasks, ProvisionNext(e, t)
      PROVE  [Promise!Next]_Promise!runVars
  <2>1. lock = e /\ pc[e] \in Driving
    BY <1>9, Places DEF ProvisionNext, Holds, Running
  <2>2. CASE RecordWorktree(t)
    <3>1. /\ state' = state /\ plan' = plan /\ taskState[t] = "PENDING"
          /\ taskState'[t] = "PROVISIONED"
          /\ \A u \in Tasks \ {t} : taskState'[u] = taskState[u]
      BY <1>0, <2>2, OneRow DEF RecordWorktree, runVars
    <3>2. \A u \in Tasks : FateOf[taskState'[u]] = FateOf[taskState[u]]
      BY <3>1 DEF FateOf
    <3> QED BY <3>1, <3>2, Stutters, PhaseNext
  <2> QED BY <1>6, <1>9, <2>1, <2>2 DEF ProvisionNext
<1>10. ASSUME NEW e \in Execs, EndBatch(e) PROVE [Promise!Next]_Promise!runVars
  <2>1. CASE TransitionRun("CANCELLED")
    <3>1. state = "RUNNING" /\ state' = "CANCELLED" /\ taskState' = taskState /\ plan' = plan
      BY <1>0, <1>10, <2>1 DEF EndBatch, Holds, StateInv, Running, TransitionRun, MoveRun, taskVars
    <3> QED BY <3>1, Closes
  <2>2. CASE UNCHANGED storeVars
    BY <1>1, <2>2 DEF storeVars
  <2> QED BY <1>10, <2>1, <2>2 DEF EndBatch
<1>11. ASSUME NEW e \in Execs, Finish(e) PROVE [Promise!Next]_Promise!runVars
  <2>1. /\ Holds(e, "finish") /\ state' = Verdict(e) /\ taskState' = taskState /\ plan' = plan
        /\ state = "RUNNING"
    BY <1>0, <1>11 DEF Finish, Holds, StateInv, Running, TransitionRun, MoveRun, taskVars
  <2>2. /\ PlanTasks \subseteq Tasks
        /\ \A t \in Tasks : taskState[t] \notin Undecided
        /\ \A t \in PlanTasks : taskState[t] \in {"SUCCEEDED", "FAILED", "CANCELLED", "BLOCKED"}
        /\ \A t \in Tasks : t \in PlanTasks \/ taskState[t] = "ABSENT"
    BY <2>1, DecidedAtFinish
  <2>3. state' = "VERIFYING" => \A t \in PlanTasks : t \in Tasks /\ taskState[t] = "SUCCEEDED"
    BY <2>1, <2>2 DEF Verdict
  <2>4. state' = "FAILED" => \E t \in Tasks : taskState[t] \in {"FAILED", "CANCELLED"}
    BY <2>1, <2>2 DEF Verdict
  <2>5. state' = "BLOCKED" => /\ \E t \in Tasks : taskState[t] = "BLOCKED"
                              /\ \A t \in Tasks : taskState[t] \notin {"FAILED", "CANCELLED"}
    BY <2>1, <2>2 DEF Verdict
  <2>6. state' \in Judged \cup {"CANCELLED"}
    BY <2>1 DEF Verdict, Judged
  <2> QED BY <2>1, <2>2, <2>3, <2>4, <2>5, <2>6, Closes
<1>12. ASSUME NEW e \in Execs, NEW t \in Tasks, Work(e, t) \/ Abandon(e, t)
       PROVE  [Promise!Next]_Promise!runVars
  <2>1. CASE Begin(e, t)
    BY <2>1, Takes
  <2>2. CASE Collect(e, t)
    BY <2>2, Settles
  <2>3. CASE Spawn(e, t) \/ Supervised(e, t) \/ Abandon(e, t)
    BY <1>1, <2>3 DEF Spawn, Supervised, Abandon, storeVars
  <2> QED BY <1>12, <2>1, <2>2, <2>3 DEF Work
<1>13. CASE UNCHANGED vars
  BY <1>1, <1>13 DEF vars, storeVars
<1>14. CASE Aside
  BY <1>14, AsideKeeps
<1> QED
  BY <1>2, <1>3, <1>4, <1>5, <1>7, <1>8, <1>9, <1>10, <1>11, <1>12, <1>13, <1>14
     DEF Next, Run, Aside

\* start_run keeps the promise, for every plan that validate_plan accepts and
\* any number of tasks, slots and executors: whatever crashes, stops, commits
\* and recoveries happen, each of its steps is one of FleetRun or none.
THEOREM StartRunKeepsItsPromise == ExecSpec => KeepsPromise
<1>1. Init => Promise!Init
  <2> SUFFICES ASSUME Init PROVE Promise!Init
    OBVIOUS
  <2>1. state = "ABSENT" /\ plan = NoPlan
    BY DEF Init, StoreInit
  <2>2. Phase = "waiting"
    BY <2>1, PhaseOf DEF Waiting
  <2> QED BY <2>1, <2>2 DEF Promise!Init, Fate
<1> QED BY <1>1, PromiseStep, GroundsAlways, RowsSettle, SlotsSuffice, PTL
        DEF ExecSpec, KeepsPromise, Promise!Spec
=============================================================================
