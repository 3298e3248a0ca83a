------------------------------ MODULE Executor ------------------------------
(***************************************************************************)
(* execution.py around the store of one run: create_run, approve_run and   *)
(* start_run with its Workers, run by several executor processes on one    *)
(* repository.  The executors exclude each other by the flock of           *)
(* execution_lock; a user may move the primary checkout to another commit  *)
(* and back at any time, ask a run to stop, or lose an executor to a crash *)
(* at any step.                                                            *)
(*                                                                         *)
(* start_run's coroutines share one event loop, so what they do between    *)
(* two awaits, or between two calls whose order others can see, is one     *)
(* action.  Capabilities, adapters, prompts and output are reduced to the  *)
(* choices they lead to.                                                   *)
(***************************************************************************)
EXTENDS RunStore, Scheduler

CONSTANTS
  Execs,        \* executor processes
  Fleet,        \* those driven by the fleet UI: stopped by an event; the
                \* others are the command line: stopped by an interrupt
  NoExec,
  MaxCommits,   \* bound: what HEAD may be
  Restless,     \* bound: does HEAD still move when it has come back (see back)?
  MaxFaults     \* bound: crashes

ASSUME ExecAssumption ==
  /\ NoExec \notin Execs /\ Fleet \subseteq Execs
  /\ MaxCommits \in Nat /\ Restless \in BOOLEAN /\ MaxFaults \in Nat

\* What validate_plan makes sure of in a plan it accepts (see PlanValidation):
\* it has tasks, they depend on each other alone, and never in a cycle.
ASSUME PlansAssumption ==
  \A p \in ValidPlans :
    /\ TasksOf[p] # {} /\ IsFiniteSet(TasksOf[p])
    /\ \A t \in TasksOf[p] : Deps[p][t] \subseteq TasksOf[p]
    /\ \A S \in SUBSET TasksOf[p] : S # {} => \E t \in S : Deps[p][t] \cap S = {}

\* Task IDs are distinct strings, and lexical order tells them apart.
ASSUME RankAssumption ==
  /\ Rank \in [Tasks -> Nat]
  /\ \A t, u \in Tasks : Rank[t] = Rank[u] => t = u

VARIABLES
  creator,   \* the next step of create_run
  base,      \* run_targets.base_commit, read by create_run
  lock,      \* holder of execution.lock
  pc,        \* where each executor is in start_run
  seen,      \* HEAD as each executor read it before taking the lock
  baseline,  \* HEAD when the holder's loop began
  queue,     \* tasks the holder has yet to block or to provision
  worker,    \* each task's Worker: see WorkerStates
  head,      \* HEAD of the primary checkout
  stop,      \* executors asked to stop
  faults,    \* crashes so far
  back,      \* history: did HEAD come back to the base commit under an executor
             \* whose baseline is another commit?
  compared   \* history: the tasks whose result counted, with HEAD then

ctlVars   == <<lock, pc, seen, baseline, queue>>
pastVars  == <<back, compared>>
userVars  == <<creator, base, head, stop, faults, pastVars>>
vars      == <<storeVars, ctlVars, userVars, worker>>

Points == {"idle", "locking", "recover", "check", "capabilities", "blocking",
           "starting", "baseline", "loop", "provision", "gather", "finish"}
Driven == {"loop", "provision", "gather", "finish"}   \* with a baseline

\* ready: prepared, its coroutine not begun; begun: attempt recorded, process
\* not spawned; live: its process runs; good, bad, cancelled: supervise has
\* returned and its result is judged, the row not yet written; stray: its
\* process runs and the executor that spawned it does not.
Ended == {"good", "bad", "cancelled"}
WorkerStates == {"none", "ready", "begun", "live", "stray"} \cup Ended

PlanTasks == TasksOf[plan]
Busy == {t \in Tasks : worker[t] \in {"ready", "begun", "live"} \cup Ended}

-----------------------------------------------------------------------------
(* create_run and approve_run.  A creator that dies simply takes no further *)
(* step; one whose plan does not validate is stuck before VALIDATED.        *)

NewRun(p) ==
  /\ creator = "NEW"
  /\ CreateRun(p)
  /\ creator' = "PLANNED"
  /\ base' = head
  /\ back' = FALSE
  /\ UNCHANGED <<ctlVars, worker, head, stop, faults, compared>>

AfterStep == [PLANNED |-> "VALIDATED", VALIDATED |-> "WAITING_FOR_APPROVAL",
              WAITING_FOR_APPROVAL |-> "TARGET"]

AdvanceRun ==
  /\ creator \in DOMAIN AfterStep
  /\ TransitionRun(creator)
  /\ creator' = AfterStep[creator]
  /\ UNCHANGED <<ctlVars, worker, base, head, stop, faults, pastVars>>

PinTarget ==
  /\ creator = "TARGET"
  /\ InitializeExecution
  /\ creator' = "DONE"
  /\ UNCHANGED <<ctlVars, worker, base, head, stop, faults, pastVars>>

\* The run may move between approve_run's read and its write; record_approval
\* then refuses, which leaves no trace.
ApproveRun ==
  /\ targeted
  /\ RecordApproval("PLAN_EXECUTION", revision, plan, "APPROVED")
  /\ UNCHANGED <<ctlVars, worker, userVars>>

-----------------------------------------------------------------------------
(* start_run: from the call to the first Worker. *)

At(e, point) == pc[e] = point
Holds(e, point) == lock = e /\ pc[e] = point
Goto(e, point) == pc' = [pc EXCEPT ![e] = point]
Return(e) ==
  /\ lock' = NoExec
  /\ Goto(e, "idle")
  /\ queue' = {}
  /\ seen' = [seen EXCEPT ![e] = 0] /\ baseline' = 0
Move(e, point) ==
  /\ Goto(e, point)
  /\ UNCHANGED <<lock, seen, baseline>>

Start(e) ==
  /\ At(e, "idle")
  /\ state # "ABSENT"
  /\ Goto(e, "locking")
  /\ seen' = [seen EXCEPT ![e] = head]
  /\ stop' = stop \ {e}
  /\ UNCHANGED <<storeVars, lock, baseline, queue, worker, creator, base, head,
                 faults, pastVars>>

\* Faulty variant: the lock is shared.
AcquireShared(e) ==
  /\ At(e, "locking")
  /\ lock' = e /\ Goto(e, "recover") /\ UNCHANGED <<seen, baseline, queue>>
  /\ UNCHANGED <<storeVars, worker, userVars>>

Acquire(e) ==
  /\ At(e, "locking")
  /\ IF lock = NoExec THEN lock' = e /\ Goto(e, "recover") /\ UNCHANGED seen
     ELSE Goto(e, "idle") /\ seen' = [seen EXCEPT ![e] = 0] /\ UNCHANGED lock
  /\ UNCHANGED <<baseline, queue, storeVars, worker, userVars>>

\* recover_interrupted first, and nothing else when it found something.
Recover(e) ==
  /\ Holds(e, "recover")
  /\ IF Orphaned # {} THEN RecoverInterrupted /\ Return(e)
     ELSE UNCHANGED <<storeVars, queue>> /\ Move(e, "check")
  /\ UNCHANGED <<worker, userVars>>

\* Faulty variant: the target's base commit is not compared.
StartableAnywhere(e) ==
  /\ targeted
  /\ state = "WAITING_FOR_APPROVAL" /\ HasPlanExecutionApproval
  /\ \A t \in Tasks : taskState[t] = IF t \in PlanTasks THEN "PENDING" ELSE "ABSENT"

Startable(e) ==
  /\ targeted /\ base = seen[e]
  /\ state = "WAITING_FOR_APPROVAL" /\ HasPlanExecutionApproval
  /\ \A t \in Tasks :
       IF t \in PlanTasks
         THEN taskState[t] = "PENDING" /\ assigned[t] = Assignment[plan][t]
         ELSE taskState[t] = "ABSENT"

Check(e) ==
  /\ Holds(e, "check")
  /\ IF Startable(e)
       THEN TransitionRun("PROVISIONING") /\ Move(e, "capabilities")
            /\ UNCHANGED queue
       ELSE UNCHANGED storeVars /\ Return(e)
  /\ UNCHANGED <<worker, userVars>>

\* Every provider is available, or one is not; an interrupt is delivered here
\* as CancelledError, which nothing catches: the run stays PROVISIONING.
Capabilities(e) ==
  /\ Holds(e, "capabilities")
  /\ \/ Move(e, "starting") /\ UNCHANGED queue
     \/ Move(e, "blocking") /\ queue' = PlanTasks
     \/ e \in stop \ Fleet /\ Return(e)
  /\ UNCHANGED <<storeVars, worker, userVars>>

BlockAll(e) ==
  /\ Holds(e, "blocking")
  /\ \/ \E t \in queue : BlockTask(t) /\ queue' = queue \ {t} /\ Move(e, "blocking")
     \/ queue = {} /\ TransitionRun("BLOCKED") /\ Return(e)
  /\ UNCHANGED <<worker, userVars>>

BeginRunning(e) ==
  /\ Holds(e, "starting")
  /\ TransitionRun("RUNNING")
  /\ Move(e, "baseline")
  /\ UNCHANGED <<queue, worker, userVars>>

\* primary_snapshot: the only await-free step that reads the checkout.
TakeBaseline(e) ==
  /\ Holds(e, "baseline")
  /\ baseline' = head
  /\ Goto(e, "loop")
  /\ UNCHANGED <<lock, seen, queue, storeVars, worker, userVars>>

-----------------------------------------------------------------------------
(* start_run: the scheduling loop. *)

Hopeless == BlockedDependents(PlanTasks, Deps[plan], taskState)
Ready == ReadyTasks(PlanTasks, Deps[plan], taskState)

\* The tasks blocked one by one until none is left; the code goes through each
\* generation in lexical order, the model in any order.
BlockDependent(e) ==
  /\ Holds(e, "loop")
  /\ \E t \in Hopeless : BlockTask(t)
  /\ UNCHANGED <<ctlVars, worker, userVars>>

\* Faulty variant: tasks are chosen before the hopeless ones are blocked.
ChooseEagerly(e) ==
  /\ Holds(e, "loop")
  /\ IF Ready = {} THEN queue' = {} /\ Move(e, "finish")
                   ELSE queue' = Ready /\ Move(e, "provision")
  /\ UNCHANGED <<storeVars, worker, userVars>>

Choose(e) ==
  /\ Holds(e, "loop")
  /\ Hopeless = {}
  /\ IF Ready = {} THEN queue' = {} /\ Move(e, "finish")
                   ELSE queue' = Ready /\ Move(e, "provision")
  /\ UNCHANGED <<storeVars, worker, userVars>>

IsFirst(t) == t \in queue /\ \A u \in queue : Rank[t] <= Rank[u]

\* Faulty variant: a task that got no worktree is skipped, not blocked.
ProvisionNextForgetful(e, t) ==
  /\ Holds(e, "provision") /\ IsFirst(t)
  /\ \/ head = seen[e] /\ RecordWorktree(t) /\ worker' = [worker EXCEPT ![t] = "ready"]
     \/ UNCHANGED <<storeVars, worker>>
  /\ queue' = queue \ {t}
  /\ Move(e, "provision")
  /\ UNCHANGED userVars

\* provision refuses a checkout whose HEAD moved, and git may fail; a task
\* without a worktree is blocked and the others go on.  The files themselves
\* are not modelled: a crash after git worktree add leaves one unrecorded.
ProvisionNext(e, t) ==
  /\ Holds(e, "provision") /\ IsFirst(t)
  /\ \/ /\ head = seen[e]
        /\ RecordWorktree(t)
        /\ worker' = [worker EXCEPT ![t] = "ready"]
     \/ BlockTask(t) /\ UNCHANGED worker
  /\ queue' = queue \ {t}
  /\ Move(e, "provision")
  /\ UNCHANGED userVars

\* gather() of nothing is done at once and delivers no interrupt.
Gather(e) ==
  /\ Holds(e, "provision") /\ queue = {}
  /\ Move(e, IF Busy = {} THEN "loop" ELSE "gather")
  /\ UNCHANGED <<queue, storeVars, worker, userVars>>

-----------------------------------------------------------------------------
(* _execute_task: each Worker of the batch. *)

SetWorker(t, s) == worker' = [worker EXCEPT ![t] = s]

Begin(e, t) ==
  /\ Holds(e, "gather") /\ worker[t] = "ready"
  /\ BeginAttempt(t)
  /\ SetWorker(t, "begun")
  /\ UNCHANGED <<ctlVars, userVars>>

\* The process starts, or cannot.
Spawn(e, t) ==
  /\ Holds(e, "gather") /\ worker[t] = "begun"
  /\ \E s \in {"live", "bad"} : SetWorker(t, s)
  /\ UNCHANGED <<storeVars, ctlVars, userVars>>

\* The coroutines begin in one pass of the event loop, before any of them can
\* be resumed.
AllBegun == \A u \in Tasks : worker[u] # "ready"

\* supervise returns, and without an await the result is judged: the process
\* exited with code 0 inside its scope, and a second primary_snapshot finds the
\* checkout as it was (good); it did anything else within its deadline, was
\* killed at it, or the checkout changed (bad); or it was terminated because
\* the executor was asked to stop or, in the fleet UI, the task was asked to be
\* cancelled before it was dispatched (cancelled).
Supervised(e, t) ==
  /\ Holds(e, "gather") /\ worker[t] = "live" /\ AllBegun
  /\ \/ /\ head = baseline
        /\ SetWorker(t, "good") /\ compared' = compared \cup {<<t, head>>}
     \/ SetWorker(t, "bad") /\ UNCHANGED compared
     \/ e \in stop \cup Fleet /\ SetWorker(t, "cancelled") /\ UNCHANGED compared
  /\ UNCHANGED <<storeVars, ctlVars, creator, base, head, stop, faults, back>>

Outcome(ended) ==
  CASE ended = "cancelled" -> "CANCELLED"
    [] ended = "good" -> "SUCCEEDED"
    [] OTHER -> "FAILED"

\* The watchers have been awaited meanwhile, and the checkout is not looked at
\* again.
Collect(e, t) ==
  /\ Holds(e, "gather") /\ worker[t] \in Ended /\ AllBegun
  /\ FinishAttempt(t, 1, Outcome(worker[t]))
  /\ SetWorker(t, "none")
  /\ UNCHANGED <<ctlVars, userVars>>

\* Faulty variant: a request from the fleet UI cancels the coroutines too.
AbandonAlways(e, t) ==
  /\ Holds(e, "gather") /\ e \in stop
  /\ worker[t] \in {"ready", "begun"} \cup Ended
  /\ SetWorker(t, "none")
  /\ UNCHANGED <<storeVars, ctlVars, userVars>>

\* An interrupt cancels every coroutine: one that has not begun never does,
\* and one awaiting the spawn or the last output leaves its attempt RUNNING.
Abandon(e, t) ==
  /\ Holds(e, "gather") /\ e \in stop \ Fleet
  /\ worker[t] \in {"ready", "begun"} \cup Ended
  /\ SetWorker(t, "none")
  /\ UNCHANGED <<storeVars, ctlVars, userVars>>

EndBatch(e) ==
  /\ Holds(e, "gather") /\ Busy = {}
  /\ IF e \in stop \ Fleet
       THEN TransitionRun("CANCELLED") /\ Return(e)
       ELSE UNCHANGED <<storeVars, queue>> /\ Move(e, "loop")
  /\ UNCHANGED <<worker, userVars>>

\* Faulty variant: the run is judged without looking for failures first.
VerdictHasty(e) ==
  IF e \in stop \cap Fleet THEN "CANCELLED"
  ELSE IF \E t \in PlanTasks : taskState[t] = "SUCCEEDED" THEN "VERIFYING"
  ELSE "FAILED"

Verdict(e) ==
  CASE e \in stop \cap Fleet -> "CANCELLED"
    [] \A t \in PlanTasks : taskState[t] = "SUCCEEDED" -> "VERIFYING"
    [] \E t \in PlanTasks : taskState[t] \in {"FAILED", "CANCELLED"} -> "FAILED"
    [] OTHER -> "BLOCKED"

Finish(e) ==
  /\ Holds(e, "finish")
  /\ TransitionRun(Verdict(e))
  /\ Return(e)
  /\ UNCHANGED <<worker, userVars>>

-----------------------------------------------------------------------------
(* The world. *)

\* The executor's process dies, or an exception nothing catches ends
\* start_run: a failing primary_snapshot, or a store call that raises inside
\* the batch.  The lock is freed; processes it had started live on.
Crash(e) ==
  /\ pc[e] # "idle" /\ faults < MaxFaults
  /\ faults' = faults + 1
  /\ IF lock = e
       THEN /\ Return(e)
            /\ worker' = [t \in Tasks |->
                            IF worker[t] \in {"live", "stray"} THEN "stray" ELSE "none"]
       ELSE /\ Goto(e, "idle") /\ seen' = [seen EXCEPT ![e] = 0]
            /\ UNCHANGED <<lock, baseline, queue, worker>>
  /\ UNCHANGED <<storeVars, creator, base, head, stop, pastVars>>

StrayExits(t) ==
  /\ worker[t] = "stray"
  /\ SetWorker(t, "none")
  /\ UNCHANGED <<storeVars, ctlVars, userVars>>

RequestStop(e) ==
  /\ ~ At(e, "idle") /\ e \notin stop
  /\ stop' = stop \cup {e}
  /\ UNCHANGED <<storeVars, ctlVars, worker, creator, base, head, faults, pastVars>>

\* A commit or a checkout, of a commit that was there before included.  An edit
\* only changes the status, one of the reasons of a bad result.
UserChanges ==
  /\ creator # "NEW" /\ (back => Restless)
  /\ head' \in (0..MaxCommits) \ {head}
  /\ back' = (\/ back
              \/ \E e \in Execs : pc[e] \in Driven /\ baseline # base /\ head' = base)
  /\ UNCHANGED <<storeVars, ctlVars, worker, creator, base, stop, faults, compared>>

-----------------------------------------------------------------------------

Init ==
  /\ StoreInit
  /\ creator = "NEW" /\ base = 0 /\ head = 0
  /\ lock = NoExec
  /\ pc = [e \in Execs |-> "idle"] /\ seen = [e \in Execs |-> 0]
  /\ baseline = 0 /\ queue = {}
  /\ worker = [t \in Tasks |-> "none"]
  /\ stop = {} /\ faults = 0
  /\ back = FALSE /\ compared = {}

Create == (\E p \in Plans : NewRun(p)) \/ AdvanceRun \/ PinTarget

Work(e, t) == Begin(e, t) \/ Spawn(e, t) \/ Supervised(e, t) \/ Collect(e, t)

Run(e) ==
  \/ Acquire(e) \/ Recover(e) \/ Check(e) \/ Capabilities(e) \/ BlockAll(e)
  \/ BeginRunning(e) \/ TakeBaseline(e) \/ BlockDependent(e) \/ Choose(e)
  \/ (\E t \in Tasks : ProvisionNext(e, t)) \/ Gather(e) \/ EndBatch(e) \/ Finish(e)

Next ==
  \/ Create \/ ApproveRun \/ UserChanges
  \/ \E e \in Execs : Start(e) \/ Run(e) \/ Crash(e) \/ RequestStop(e)
  \/ \E e \in Execs, t \in Tasks : Work(e, t) \/ Abandon(e, t)
  \/ \E t \in Tasks : StrayExits(t)

ExecSpec == Init /\ [][Next]_vars

\* An executor that can take a step takes it, and a Worker's supervision ends:
\* its wall-clock deadline and the kill after it see to that.
FairSpec ==
  /\ ExecSpec
  /\ \A e \in Execs : WF_vars(Run(e))
  /\ \A e \in Execs, t \in Tasks : WF_vars(Work(e, t))

-----------------------------------------------------------------------------
(* Correctness. *)

Driving == Points \ {"idle", "locking", "recover", "check"}
Attended == {"begun", "live"} \cup Ended

\* Every variable holds a value of its type, and past the lock an executor is
\* its holder.
ExecTypeOK ==
  /\ TypeOK
  /\ creator \in {"NEW", "PLANNED", "DONE"} \cup {AfterStep[s] : s \in DOMAIN AfterStep}
  /\ base \in Nat /\ head \in Nat /\ baseline \in Nat /\ faults \in Nat
  /\ lock \in Execs \cup {NoExec}
  /\ pc \in [Execs -> Points] /\ seen \in [Execs -> Nat]
  /\ queue \subseteq Tasks /\ stop \subseteq Execs
  /\ worker \in [Tasks -> WorkerStates]
  /\ back \in BOOLEAN /\ compared \subseteq Tasks \X Nat
  /\ \A e \in Execs : pc[e] \notin {"idle", "locking"} <=> lock = e

\* The Workers of a batch always have an executor, and it is in its loop.
BusyUnderLock == Busy # {} => lock # NoExec /\ pc[lock] \in {"provision", "gather"}

\* While an executor drives the run, the RUNNING rows are exactly the Workers
\* it attends to (those an interrupt made it abandon aside), prepared Workers
\* have PROVISIONED rows, and without a driver nothing is attended to.
RowsMatchWorkers ==
  /\ \A t \in Tasks :
       /\ worker[t] = "ready" => taskState[t] = "PROVISIONED"
       /\ worker[t] \in Attended => attempts[t] = <<"RUNNING">>
  /\ BusyUnderLock
  /\ \A e \in Execs : lock = e /\ pc[e] \in Driving /\ e \notin stop \ Fleet =>
       \A t \in Tasks : taskState[t] = "RUNNING" => worker[t] \in Attended

\* No call the driver is about to make to the store is refused half-way: the
\* states it read are still those of the rows when it writes.
NeverRefused ==
  \A e \in Execs : lock = e =>
    /\ pc[e] = "starting" => TransitionAllowed("RUNNING")
    /\ pc[e] = "blocking" => /\ TransitionAllowed("BLOCKED")
                             /\ \A t \in queue : taskState[t] = "PENDING"
    /\ pc[e] = "provision" => \A t \in queue :
         state = "RUNNING" /\ taskState[t] = "PENDING" /\ RequireReadyTask(t)
    /\ pc[e] = "gather" =>
         /\ TransitionAllowed("CANCELLED")
         /\ \A t \in Tasks : worker[t] = "ready" =>
              t \in worktrees /\ attempts[t] = <<>> /\ RequireReadyTask(t)
    /\ pc[e] = "finish" => TransitionAllowed(Verdict(e))

\* What a verdict says of the tasks is true: nothing is left to do, or to
\* wait for, under a run that ended other than by a stop or a lost executor.
VerdictTrue ==
  LET now(s) == \E t \in Tasks : taskState[t] \in s
      unsettled == now({"PENDING", "PROVISIONED", "RUNNING"})
  IN /\ state = "VERIFYING" => \A t \in PlanTasks : taskState[t] = "SUCCEEDED"
     /\ state = "FAILED" => ~ unsettled /\ now({"FAILED", "CANCELLED"})
     /\ state = "BLOCKED" =>
          IF now({"INTERRUPTED"}) THEN ~ now({"RUNNING"}) /\ faults > 0
          ELSE ~ unsettled /\ ~ now({"FAILED", "CANCELLED"}) /\ now({"BLOCKED"})

\* No more than max_parallel_workers processes of the run exist, those a
\* crashed executor left behind included.
WithinSlots == Cardinality({t \in Tasks : worker[t] \in {"live", "stray"}}) <= Slots

\* A task only succeeds when its result was compared with a checkout at the
\* very commit the run was created on, wherever commits and checkouts fall
\* between create_run, start_run, its baseline, each worktree and each result,
\* unless HEAD was away when the baseline was taken and came back in the loop.
SucceedsOnBase ==
  \A t \in Tasks : taskState[t] = "SUCCEEDED" => <<t, base>> \in compared \/ back

\* What the proof of that needs besides: a driver read HEAD at the base commit,
\* and so did its baseline, or HEAD is still away from it; it was there again
\* when a Worker was prepared.
HeadInv ==
  /\ creator = "NEW" <=> state = "ABSENT"
  /\ \A e \in Execs :
       /\ pc[e] \in Driving => seen[e] = base
       /\ pc[e] \in Driven /\ ~back => baseline = base \/ head # base
  /\ Busy # {} /\ ~back => baseline = base
  /\ \A t \in Tasks : worker[t] = "good" => <<t, base>> \in compared \/ back

\* Recovery only declares interrupted what no executor attends to any more.
RecoversOnlyTheDead ==
  [][\A t \in Tasks : taskState'[t] = "INTERRUPTED" /\ taskState[t] # "INTERRUPTED"
                         => worker[t] \in {"none", "stray"}]_vars

\* The run as its owner sees it.
Phase ==
  CASE state \in {"PROVISIONING", "RUNNING"} -> "open"
    [] state = "VERIFYING" -> "verified"
    [] state = "FAILED" -> "failed"
    [] state = "BLOCKED" -> "stopped"
    [] state = "CANCELLED" -> "cancelled"
    [] OTHER -> "waiting"
FateOf == [ABSENT |-> "none", PENDING |-> "todo", PROVISIONED |-> "todo",
           RUNNING |-> "doing", SUCCEEDED |-> "ok", FAILED |-> "bad",
           CANCELLED |-> "bad", BLOCKED |-> "skipped", INTERRUPTED |-> "lost"]
Fate == [t \in Tasks |-> IF Phase = "waiting" THEN "none" ELSE FateOf[taskState[t]]]

Promise == INSTANCE FleetRun WITH phase <- Phase, fate <- Fate, chosen <- plan

\* start_run keeps the promise FleetRun states, every step of it.
KeepsPromise == Promise!Spec

\* Every start_run returns, whatever the Workers do, and a run that an executor
\* of the fleet UI drives ends, unless the executor is lost.
ExecutionEnds ==
  /\ \A e \in Execs : pc[e] = "locking" ~> pc[e] = "idle"
  /\ \A e \in Fleet :
        pc[e] \in Driving ~> state \notin {"PROVISIONING", "RUNNING"} \/ faults > 0

\* Once a run has been started, a later start finds it ended, or ends it: an
\* executor that was lost does not leave it PROVISIONING or RUNNING.
RestartEndsRun ==
  \A e \in Execs : Holds(e, "check") => state \notin {"PROVISIONING", "RUNNING"}
=============================================================================
