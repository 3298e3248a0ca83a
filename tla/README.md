# PatchFleet in TLA+

PatchFleet turns a request into a reviewed plan of small coding tasks and then runs a fleet of
local coding agents ("Workers") on it, each in a Git worktree of its own, under approvals a person
gives. This directory holds TLA+ modules for the parts of it where order, concurrency and crashes
decide what is correct, the TLC configurations that check them, and proofs checked by TLAPS.

Paths below are relative to the package, `src/src/patchfleet/`, unless they name a document.

## 1. The system

### Components, their state, and what makes them correct

| component | code | state it keeps | operations | must be true |
|---|---|---|---|---|
| run state machine | `state.py` | none: a pure transition function over `RunRecord` and the approvals | `transition`, `replace_plan`, `has_plan_execution_approval` | no state past a gate without the approval of exactly this plan version at this revision; approvals never go stale |
| run store | `storage.py` | SQLite rows: runs, approvals, run_targets, task_runs, worker_attempts, events | one `BEGIN IMMEDIATE` transaction per method | one attempt per task, prerequisites first, a state no event tells of is one that no decision rests on |
| event log mirror | `storage.py` (`_mirror_unlocked`) | one JSONL file per run | reconcile on open, append after each commit, cut a torn line | the file is always a prefix of the committed log, and says so when it lags |
| scheduler | `scheduler.py` | none | `ready_tasks`, `blocked_dependents` | dependencies, slots |
| executor | `execution.py`, `worktrees.py` | the flock, coroutines of one event loop, worktrees | `create_run`, `approve_run`, `start_run` | one executor drives a run; the verdict is true; work counts only on the base commit; runs end |
| process supervision | `processes.py` | one child process, pipes, deadline, cancel event | `supervise` | a result is final, no child is left, output is bounded, it ends |
| fleet controller and TUI | `fleet.py`, `tui.py` | session, approval, monitor, cancel flags, three threads | `start_request`, `answer`, `approve`, `start_fleet`, `cancel_*`, `reset` | the screen's idea of the run is the run's; a cancel is heard |
| fleet monitor | `monitor.py` | a row per task | observer callbacks | rows follow the store |
| Leader planning | `shell.py`, `planning.py`, `leader_*.py` | a session: its commit, selected Leader and Workers, transcript, open questions, draft | request, answer, Leader turn, cancel, settings | a draft is of one commit and of what the user selected; no question is lost or asked over |
| plan validation | `validation.py` | none | `validate_plan` | accepted plans are those whose tasks are distinct and can all be carried out |
| knowledge | `knowledge_ingest.py`, `knowledge_store.py`, `knowledge_chunk.py` | immutable snapshot files; rows of snapshots, chunks, full-text index, vectors, index state | ingest a Markdown file, a page or a Git source; index; search | what a row names is whole; each passage is found once; the index covers what it claims |
| model catalog | `catalog.py`, `fleet.py` | a JSON-RPC child process, a catalog per provider, the selected model | fetch, select, refresh before a request | a request gets past a selection only when a list fetched for it shows the model; every fetch ends and leaves no process |
| preferences and settings | `preferences.py`, `settings.py`, `config.py` | one JSON file, one project file | resolve, save, edit | a conversation keeps the settings it began under |
| charter, context, gate | `charter.py`, `context.py`, `architecture_gate.py` | stored contexts, named by their content | inspect, load, validate a dossier | accepted evidence was current |
| discovery and adapters | `discovery.py`, `adapters/` | none | argv and stdout conversions | |
| command line | `cli.py` | none | argument parsing around the above | |

### How they interact

A planning conversation, in the prompt shell or the TUI, ends in a draft that `validate_plan` has
accepted; the fleet controller hands the plan over. The command line or the fleet controller then
calls `create_run`, `approve_run`, `start_run`. Each opens
the run store; a store call is one SQLite transaction followed by a mirror write. `start_run` takes
an exclusive `flock` on the repository for its whole life, recovers attempts a lost executor left,
and then loops: block what cannot run any more, choose the ready tasks, provision worktrees,
`asyncio.gather` one coroutine per Worker, each of which begins an attempt, lets the adapter call
`supervise`, checks that the primary checkout has not moved, and finishes the attempt. The
controller runs `start_run` on a thread of its own and polls two cancellation events. Knowledge,
contexts and dossiers are made by commands of their own, which share files and a second SQLite
database with each other and the checkout with the user.

### What is hard here

* Several processes share the store and the repository: an executor, another executor, a person
  approving, a person committing to the checkout.
* An executor can be lost between any two store calls; its Workers live on.
* Workers interleave at every await; Ctrl-C arrives at any of them, the fleet's cancel event at
  defined points.
* The mirror file is written without a lock, outside the transaction.
* `supervise` races a deadline, a cancel event, the exit of the child, the thread that reaps it, the
  event loop that learns of it, pipes that others inherited, and its own cancellation.
* Approval is about a *version*: a replan may bring back an earlier plan, byte for byte.
* The controller's UI thread, turn thread and run thread share fields without a lock.
* Two ingestions and an indexing share a database in which every statement commits by itself, and
  files outside it; each may be killed at any statement.
* The repository is read piece by piece (HEAD, charter, files) while the user edits and commits; a
  Leader reads it for minutes.
* Preferences, project configuration and installed CLIs change under an open conversation.
* A catalog server may be slow, deaf to SIGTERM, repeat itself, or list more than is wanted.

`PROJECT.json` lists each hazard at its line with the properties that would catch it.

## 2. The modules

| module | models | composed of |
|---|---|---|
| `RunStore` | `state.py` and the mutating methods of `storage.py` for one run | |
| `Scheduler` | `scheduler.py` | |
| `FleetRun` | what starting a run promises, without processes, locks or rows | |
| `Executor` | `execution.py` around `RunStore` and `Scheduler`: creators, approvers, executors, Workers, crashes, commits | extends `RunStore`, `Scheduler`; refines `FleetRun` |
| `EventMirror` | the JSONL mirror of one run, with several stores, deaths and failing writes | |
| `Supervisor` | `supervise()` with the child, the kernel, the event loop and asyncio cancellation | |
| `FleetController` | `fleet.py` and the screens of `tui.py`: conversations, approval, start, cancellation, quitting, over three threads | |
| `Conversation` | `shell.py`, `planning.py`, `settings.py`: one planning conversation, and the settings, commits and CLIs that change under it | extends `PlanValidation` |
| `PlanValidation` | `validation.py` but for its search, as operators, with a definition of what acceptance is worth | |
| `PlanSearch` | `validate_plan` with `_dependency_cycle`, one step per task entered or left | extends `PlanValidation` |
| `Knowledge` | ingestion and indexing, one step per statement and file operation | |
| `Chunking` | `knowledge_chunk.py`, one step per line, block and piece, with definitions of the result that know no state | |
| `Catalog` | the client of `codex app-server` and the controller's use of what it lists | |
| `ArchitectureGate` | `context inspect` and `architecture validate` over a checkout that changes | |
| `MCRunStore`, `MCExecutor`, `MCConversation`, `MCKnowledge`, `MCCatalog`, `MCArchitectureGate` | plans and values for TLC | |
| `MCAlgorithms` | bounds the documents and plans of `Chunking` and `PlanSearch` | extends both |
| `ExecutorProofs`, `EventMirrorProofs`, `SupervisorProofs`, `FleetControllerProofs`, `ConversationProofs`, `KnowledgeProofs`, `CatalogProofs`, `ArchitectureGateProofs` | theorems and proofs | extend the modules above; `ExecutorProofs` holds those of the store too, `ConversationProofs` extends also `PlanSearch`, `KnowledgeProofs` also `Chunking` |

**RunStore.** One action per mutating method, guarded by what the method checks inside its
transaction; a refused call changes nothing and so is no action. A plan version is its fingerprint.
`approvals` is the table in sequence order; `ApprovedIn` is `_latest_decision`: the last decision
for a type, revision and subject counts. The events a method inserts are kept as the state a reader
of the log rebuilds (`loggedRun`, `loggedTask`), which lets `LogSilentOnlyOnPinning` say where the log
is behind the tables: at tasks that have their rows and have not been touched since.
`startedBy` and `startedAt` are history variables. `RecoverInterrupted` is the whole loop of
`recover_interrupted`, tasks, attempts, run and events together, because it is one transaction.

**Executor.** `pc[e]` is the place of an executor in `start_run`; each action is the code between two
store calls, awaits or reads of the checkout whose order others can see. `worker[t]` is a coroutine
of `gather`: prepared, begun, its process live, or its result judged. `Supervised` is the return of
`supervise` with the second `primary_snapshot` after it, for there is no await between the two; the
watchers are awaited next, and `Collect` writes the row without another look at the checkout. `lock` is
the flock, which the kernel releases with the process, so `Crash` frees it and turns live processes
into strays. `head` is HEAD of the primary checkout, which `UserChanges` sets to any other commit, one
that was there before included: the code compares by equality. A changed status is one of the reasons
of a bad result. The histories `back` and `compared` tell whether HEAD came back to the base commit
under a baseline of another one, and which results were compared with what. Executors in `Fleet` are stopped
by the cancel event, the others by an interrupt (`Abandon`: the coroutine leaves at its await, with or
without recording the end, depending on where it was).

**FleetRun** is the abstract specification. `Executor!Fate` and `Executor!Phase` map rows to it, and
`KeepsPromise` says every step of the executors is one of its steps, or a stutter: a task is taken
once, after its prerequisites, within the slots, and the verdict is true. The plan is chosen once, when
the run is created (`ChoosePlan`); no caller in the package replaces the plan of a run, which `RunStore`
alone has (`ReplacePlan`).

**EventMirror.** The file is its complete lines and whether a torn one follows. Reading the rows,
reading the file, truncating and appending are separate steps, as in the code; a write that fails,
or a death, leaves any prefix of what was to be written.

**Supervisor.** `pc` names the awaits of `supervise`. The kernel (`Exit`, `Reap`), the loop (`Learn`,
`WaiterRuns`), the pipes, the deadline (`Expire`), the cancel event (`Ask`) and the cancellation of
the task (`Interrupt`) are actions in between. `pipesToo` is the interpreter: in CPython 3.11
`Process.wait()` returns only when the pipes are closed too, later versions return at the exit.

**FleetController.** `c` holds the controller's fields, `ui` the stack of screens with the dialog over
it, `turn[s]` the thread of a turn started on planning screen `s`, `fleet` the thread of the running
fleet. What a thread does between two blocking calls (catalogs, Git, the Leader, the run store) is
one action; the approval blocks the UI thread, so it is a state of `ui` during which only other
threads move. A plan is the number of the conversation it was drafted in; a durable run is waiting,
open or closed by a verdict, how it runs being `Executor`'s subject. An error no screen expects ends
the program, as in the code. Nothing keeps the user from pressing Approve, Start or New, or from
opening another planning screen, while turns are under way. Two histories name what follows from that:
`crossed` the conversations opened while a Leader was at work on another, `quiet` whether no turn was under
way when Approve was last pressed.

**Conversation.** `pc` is the place in `run_shell`: at its prompt, in a first-run setup or the editor,
or in one of the four parts of a turn (the prompt is built, HEAD is compared, the Leader runs, its
response is taken). `seen` collects the commits the Leader was shown in the turn, by the prompt and
by its own reading, and `session.shown` keeps them for a draft. `MoveHead` is a commit or a checkout, of
an earlier commit too; the history `back` tells whether HEAD came back to the session's commit within
the turn. Questions are numbered as they are
asked, so `dialogue` and `pending` tell whether one was lost. A provider with a model is one
selection. `Resolve` is `resolve_settings`, `Save` the confirmed `build_preferences` and
`save_preferences`, `Reload` what the shell does after the editor.

**PlanValidation, PlanSearch.** The search is the code's: `path` is `active`, the tasks whose `visit` has
not returned, and a step enters a task (`Enter` from the loop outside, `Descend` from a task to the first of
its dependencies it is not done with), finds it on the path (`Close`) or leaves it. `Cyclic` and `Runnable`
say without any search that tasks wait for each other, and that they have an order. The other modules use
`Valid`, which is `Cyclic`'s verdict; `PlansSound` says it is the search's. Task IDs are numbers in lexical
order, roles and paths are abstracted to whether they are right.

**Knowledge.** `ing[p]` is the place of an ingester in `_persist_document`. A content is a sequence of
passages, and stands for its hash; a chunk is a passage of a version. A file is absent, begun
(`open("xb")`), or holds its bytes. The bytes of a tracked file and the Git name of its version are
read in two steps, as the code reads them; the three kinds of source differ in what names a version,
and a page's text depends on whether an optional extractor is installed. A killed process leaves
what it wrote. Two histories serve the property: `stored` holds the ingestions that ran to their end,
`orphans` the chunks whose ingester was lost between the row of the chunk and its full-text row.

**Chunking.** A line is its kind. It counts as one token, a heading with its mark too, but for "long", which
is a single word above the target. Of fences there are those of three marks, of four, of another mark, with
an info string, and indented, which is what `_is_closing_fence` and the list rule tell apart. `ReadLine` and
`EndText` are `normalize_markdown`, `SkipBlank` and `FindBlock` the loop of `parse_blocks`, `Expand` that of
`_expand_prose` and `_split_prose`, piece by piece (`word` is the line it has come to), done for a block as
soon as it is found, and `TakePiece` the loop of `chunk_document`. A chunk names its pieces by their
numbers, and marks those it repeats. `Weight` is `pending_tokens`: the blank lines between the pieces of a
chunk are counted neither by the code nor here. What the results must be is said of lines and pieces alone:
`Closes` by the marks of two fences, `Under` by the headings not closed by a later one, `Weight` by counting
tokens.

**Catalog.** `out` is the pipe, with the lines the client has not read: answers, repeated answers,
notifications, errors, junk, the end. `requests` holds the cursors asked for. What the client has got is
the set of the models, the number of entries that count against its limit, and how many pages they came
from. The deadline covers the whole fetch; a cancellation has the same effect. `chosen` is the Leader's
model and the Workers', all of the one provider, whose catalog every fetch replaces. `StartRequest`
begins the loop of `start_request`: `RefreshNext` fetches for the selection at the head of `loop`,
`CheckNext` refuses the request when that list lacks it, and asks the Leader after the last one. One fetch
runs at a time; the user may select anew between two of them, which the loop does not see. What the
server writes after the client has stopped reading is left out.

**ArchitectureGate.** `past` is the sequence of checkouts; every read takes from the last one, and an
edit, a commit or a checkout may fall between any two reads. Inspectors and gates share the steps of
`inspect_context`. `Persist` asks whether the context is stored, `Open` and `Fill` are the opening and the
writing of its file, with other processes in between. A context is its own identifier. A dossier claims
what it likes; what the gate wants of its text beyond evidence (sections, rules, commitments, a sound
plan) is a choice to reject.

Definitions marked "Faulty variant" are slips a change of the code could make; each property is
shown to notice one of them.

## 3. The runs

| run | shows | bounds |
|---|---|---|
| `run_store` | the gates, approvals and attempts of the store hold under any order of calls, and its log is behind the tables only at rows nothing has touched since the target was pinned | four plan versions (one replaces tasks, one turns a dependency round, so that a provisioned task waits for another, one is invalid), three tasks, revision <= 3, 3 approval rows, 2 results |
| `executor` | two executors, a user who commits and checks out, a crash and a stop: mutual exclusion, rows against Workers, no call refused half-way, true verdicts, slots, base commit, refinement of `FleetRun`; under fairness every `start_run` returns and the fleet's runs end | four tasks, `d` after `a` and `b`, 2 slots; 2 commits between which HEAD moves at will until it has come back under another baseline (`Restless` FALSE); 1 crash |
| `executor_restart` | **violated**: a crash outside an attempt leaves a run no later start ends | as above, HEAD moving without end |
| `mirror` | one store: the file is a prefix of the committed log, never called corrupt, never silently behind, complete lines stay | 4 events, 3 faults |
| `mirror_two_stores` | **violated**: two stores append the same suffix | 2 stores, 2 events, no faults |
| `supervisor` | a result is truthful, for a dead and reaped child, with the output that fits; no child left, no signal to an unknown group, it ends | either interpreter, heirs inside and outside the group, 2 cancellations, 3 bytes against a bound of 2 |
| `controller` | turns, Approve, Start, New and fleets in any order: an approval given in quiet stays one of the open conversation's plan, conversations are not mixed unless opened over a Leader at work, RUNNING without a fleet comes from one race only, the composer comes back | 2 planning screens, 2 conversations, 2 questions, 2 approved plans, a stack of 4 |
| `conversation` | a draft uses what the user selected, is of one commit unless HEAD came back to it within the turn, and no question is lost or asked over | 2 selections, one without a Leader adapter; a plan that can be carried out and one with a cycle behind a task that waits for nothing; 3 turns, 3 commits moved between at will, 2 edits, rounds of 1 or 2 questions |
| `algorithms` | blocks partition every document; chunks keep every piece, its order, headings and, but for what cannot be cut, the cap; the search accepts exactly the plans that can be carried out | all documents of up to 4 lines of the 15 kinds, of up to 7 lines of 5 kinds, blank lines at the ends apart, with a target of 2, a cap of 4 and a long word of 5; all plans of up to 3 tasks, roles and paths at fault in those of one |
| `knowledge` | snapshots are whole, passages are found once, the index covers what it claims | 2 ingesters, 1 indexer, the three kinds of source, contents that share a passage and one that repeats one, 2 model revisions; 3 commands, 1 edit, 1 loss |
| `catalog` | a request gets past each of its selections only when the list fetched for it shows the model (or none could be read), every fetch ends with its server gone | a Leader and a Worker of one provider; 5 lists of up to 4 pages against limits of 3 pages and 3 models, a hidden model and an unusable entry; 1 unasked line, 3 fetches |
| `architecture_gate` | what an accepted dossier cites was true while it was validated, and true together unless something came back | 2 files, one of them evidence only when selected, 1 item of evidence at most, 2 charters or none; 1 stored context besides one torn, 2 changes |

Why the bounds are enough. A replan, the return of an earlier plan content and one more replan need
revision 3. Four tasks with a join and two slots are the least in which a batch is cut by the slots, a task waits for
two prerequisites, and blocking takes a second round. One crash already reaches every recovery path, since
recovery itself is one transaction; a second executor is enough for the lock. Three faults allow a torn
line, a death during its repair, and one more. Two interrupts reach the nested cancellation in `supervise`.
Two ingesters and one loss reach every overlap of two writes with a torn one, the edit changes a version
under its name, and a third command meets what the first two left. Seven lines of headings, fences, text and
long words overflow the cap behind repeated headings and open a chunk after it, four of any kind put each
fence before each other; three tasks are the least with a cycle off the first search. Two changes are the
least for three reads to see three checkouts, one of which has come back. A Leader and a Worker take two
fetches, between which the list may change, and a third comes from a screen. In `executor` HEAD rests once
it has come back under a baseline of another commit, which `SucceedsOnBase` excepts (with `Restless` TRUE
all properties hold as well, in twice the time).

The second planning screen is the one "Save & Continue" opens over the first; with it two turns of
different conversations are under way, and the second plan can follow the first one's run.

Deadlock checking is off where the system really stops: `run_store` ends in terminal run states,
`supervise` returns, the program of `FleetController` is quit, a document is chunked and a plan's verdict
given, and the commands, turns, fetches and changes of the other runs are used up.

Exceptions the properties name: `LeavesNoChild` excepts a second cancellation of the supervising
task, against which the code has no defence; `Ends` excuses that and a heir holding the pipes where
`Process.wait()` waits for them; `ExecutionEnds` excuses the loss of the executor; an
interrupt at the spawn or the drain of a Worker leaves its attempt RUNNING under a CANCELLED run
(`Abandon`), which `RowsMatchWorkers` does not speak of; `SignalsOnlyTheUnseen`
leaves aside the kill after a failing `on_start`, which does not look. `LogSilentOnlyOnPinning` excepts
task rows that have not been touched since they were written; `SucceedsOnBase` a HEAD that was away when
the baseline was taken and came back in the loop, `DraftOfOneCommit` one that came back to the session's
commit within the turn (`back` in both modules); `ApprovedIsShown` an approval given while a turn was under
way (`quiet`), `TurnsInOrder` a conversation opened while another Leader was at work (`crossed`),
`RunningIsAlive` a request that clears the approval between Start and the fleet thread's look at it.
`PassagesFound` excepts the chunk whose ingester was lost between its two statements (`orphans`),
`ChunksFaithful` (a part of `ChunksRight`) a chunk of one
piece at most, which may exceed the cap alone or together with what is repeated before it,
`PiecesFaithful` (another) a single word above the target,
`BlocksPartition` (a third) a fence indented under a list item, and
`ChecksEverySelection` a list that could not be read, shows no model, or was cut at a limit. Section 5
says which of these the code's documents do not except.

### Fairness

`executor` assumes weak fairness of `Run(e)` and of `Work(e, t)`: an operating-system process
that can take a step takes one, the event loop runs ready coroutines, and the supervision of a
Worker ends because of its wall-clock deadline and the kill after it (that it does is the subject of
`Supervisor`). Nothing is assumed of users, approvals, commits, crashes or stops. `supervisor`
assumes that the kernel reaps and reports what has ended, time passes and the event loop runs;
the child and its heirs owe nothing. `controller` assumes only that a turn's thread goes on: catalogs,
Git and the Leader answer or run into their timeouts; users and the fleet owe nothing. `catalog`
assumes that the event loop runs the client and that its deadline passes; the server owes nothing,
not even its end. The other runs state no liveness and assume nothing.

## 4. The proofs

All theorems hold for every value of the constants that satisfies the named assumptions of the
modules: any sets of tasks, plans, dependencies, executors, selections, files, any bounds. Each
inductive invariant was checked by TLC before it was proved.

| assumption | why the code justifies it |
|---|---|
| `ConstantsAssumption`, `SlotsAssumption`, `ExecAssumption` | counts are natural numbers, there is a slot; dependencies are tasks (`validate_plan`) |
| `PlansAssumption`, `RankAssumption` of `Executor` | the plans a run is made of have finitely many tasks and at least one, which depend on each other alone and never in a cycle: what `validate_plan` makes sure of, proved as `ValidFitsTheScheduler`; task IDs are compared as strings |
| `PlansAssumption` of `PlanValidation` | what a plan is, nothing of what it says |
| `SizesAssumption` | the target is positive and not above the cap (`knowledge_contracts.py:17`); a long word is one above the target |
| `CatalogAssumption` | a listing is a sequence of pages, at least one; the client's limits are positive; a Leader and at least one Worker are selected (`can_start_new_execution`) |
| `RawsAssumption`, `KnowledgeAssumption` | a document is a sequence of passages, a half-written one is none; a Git source names files (`knowledge_registry.py:81`) |
| `GateAssumption` | a process runs one command, so inspectors are not gates |
| `ConversationAssumption` and those of the other modules | counts are natural numbers |

One hypothesis is part of the theorems that need it: `OneStore` (`EventMirrorProofs`). Without it the
properties fail, as section 5 says. Exceptions are stated by the properties themselves, on histories.

*Store* (`ExecutorProofs`). `TypeCorrect` comes first. The gate theorems (`ExecutionIsApproved`,
`ApprovalsNeverStale`, `AttemptsAreApproved`) follow from `GateInv`. `ExecutionApproved` alone is not
inductive: a step to PROVISIONING needs the approval, but keeping it needs that no later decision
for this revision can be recorded, which is where the gate rules (`LegalSources`) and
`NoStaleApproval` come in; attempts keep their approval because they belong to a revision that
cannot return to its gate (`AttemptsBehind`). `ApprovedAppend` says when one more row leaves a
verdict alone. The task theorems (`AttemptedOnce`, `DependenciesComeFirst`, `TasksSettleForGood`)
follow from `TaskInv`, where `RowsNeedTarget` says that rows come into being once. `LogMissesOnlyThePinning`
is inductive by itself: a task the log is silent about can only be brought out of PENDING by a step that
logs it.

*Executor* (`ExecutorProofs`). `ExecutorUsesTheStore` is the step that pays: every step of the
executors is a step of the store or leaves it alone, so each store theorem is one of the whole
system. `ExecutorTypeCorrect` includes the mutual exclusion of any number of executors,
`WorkersHaveAnExecutor` that a batch has its executor in its loop, `RecoveryIsUnambiguous` that
recovery touches no attended Worker, and `SuccessIsOnBase` that a result which made a task SUCCEEDED was
compared with the run's base commit, unless HEAD was away when the baseline was taken and came back in
the loop. `HeadInv` (proved as `HeadCorrect`) is what that takes: a driver saw the base commit before it
took the lock; its baseline is of that commit too, or HEAD has not been there again since; it provisions
a Worker only with HEAD at the base commit, so a batch has the base commit as its baseline; and a result
is good only when it finds the baseline once more. `back` is part of the statement because the code
cannot tell more: it never compares the baseline with the base commit.

*Rows under a driver* (`ExecutorProofs`). `RowsFollowWorkers` and `CallsAreAccepted` need to know the
run while it is driven. `StateInv` gives its state from the driver's place in `start_run`; `RowInv` its
rows: a prepared Worker can begin and an attended one has begun (`WorkerRows`), the rows are the
approved plan's, untouched before the loop, those queued still as they were chosen, and no row is
RUNNING without a Worker (`DriverRows`). Queued rows stay eligible because success is for good
(`StaysReady`), and nobody but the driver moves a run that is driven (`AsideLeavesDriver`,
`AsideLeavesRows`): recovery, approvals and the creator find the lock taken or the state wrong. The
approval that `starting` needs is the store's own `ExecutionApproved`.

*Conversation* (`ConversationProofs`). `DraftsAreOfOneCommit` rests on `SeenInv`: within a turn, while HEAD
is at the session's commit and has not come back to it, all the Leader saw is of that commit. So when HEAD
is found there after the answer, either that holds or `back` does, in which case the code has no way to
tell. `QuestionsInOrder` is about sequences: `RoundsInv` says that answered and open questions are together
the numbers asked so far, `AskedRound` that a round of any length continues them, `AnsweredRound` that an
answer moves one without changing the whole.

The third result keeps the user's selection. `SelectionInv` adds to `DraftHonoursUser` that there is no
session before the first settings are in force: where settings are read anew the session is dropped
(`Reload`), which is why a session never outlives them. `SelectionIsKept` says this of the code as it is;
`DraftsHonourTheUser` concludes that a draft can be carried out, by `ValidIsRunnable`.

*Plan search* (`ConversationProofs`). What is under visit is a path through the plan (`Walk`), and what the
search is done with is settled (`Settled`): all it depends on is done with too, and no tasks of it wait for
each other. A task is left when all it depends on is settled, so it is settled as well (`SettledGrows`); a
task met on the path closes a cycle (`WalkCloses`); when no root is left everything is settled. So the
verdict is `Cyclic`'s (`SearchInv`), and `SearchIsSound` needs that tasks among which none waits in a circle
have an order (`AcyclicIsRunnable`: an order of some of them, as long as possible, is one of them all).
`SearchComesToAnEnd` gives the measure each step lowers.

*What a run promises* (`ExecutorProofs`). `ProcessesFitSlots` counts everything that takes a slot, Workers,
RUNNING rows and tasks chosen for the batch (`SlotInv`): `ready_tasks` chooses no more than are free,
because each chosen task comes after a different number of others (`FewerBefore`, `ReadyFitSlots`), and no
other step takes one. `VerdictsAreTrue` needs that a loop only ends with everything decided: were tasks
PENDING with nothing hopeless and nothing to choose, one of them would depend on none of the others, the
plan being without cycles (`NothingLeft`, from `PlansAssumption`). `SettleInv` keeps this up to the verdict,
and `JudgedStays` after it; `GatedPlanIsValid` says that the driven plan is one validation accepted, through
the replacements and approvals of the store; `StartsOnce` that a run that was started never waits again;
`LostByACrash` that a run nobody drives is RUNNING only because an executor was lost. With these and the
store theorems `StartRunKeepsItsPromise` proves the refinement of `FleetRun` step by step (`PromiseStep`): a
begun attempt takes its task (`Takes`), a finished one settles it (`Settles`), blocking skips (`Skips`),
recovery loses (`Loses`), the start opens (`Opens`), the verdict closes (`Closes`), and all else stutters.

*Mirror* (`EventMirrorProofs`). With one store at a time, what a store has read is still so when it writes,
and a torn line is cut before anything is appended (`ReadInv`); so what it appends begins where the file
ends, and any part of it that a death or a failed write leaves continues the copy (`CopyGrows`).
`LinesAreCommitted`, `FileIsCompleteOrComplainedOf` and the action property `LinesAreKept` follow. With two
stores `ReadInv` breaks, which is the run `mirror_two_stores`.

*Supervision* (`SupervisorProofs`). `KnowledgeInv` says that the event loop knows of an exit only when the
child is reaped, `DeadInv` that no exit from the loop leaves it running unless `terminate()` was itself
interrupted, `StatusInv` that what was cancelled, timed out or signalled left its mark in the status, and
nothing else did. `ResultsAreTruthful`, `ChildIsStopped` and `SignalsReachTheChild` follow for any number of
cancellations and any output.

*Knowledge* (`KnowledgeProofs`). `SnapshotsIntact` alone is not inductive: a row is safe because its
ingester has found or written both files before (`FilesInv`), and because two ingesters never fill the
same file, which `open("xb")` gives. `PassagesFound` needs that what an ingester has not stored yet is still
at hand (`ChunksInv`) and that a chunk's full-text row is written by the one ingester whose insert
succeeded, or never, if that one is lost in between, when the chunk is one of `orphans` (`FtsInv`);
`IndexCovers` that an indexer has embedded all it has taken off its list (`IndexInv`).
A torn file is taken to differ from every whole document; that the first bytes of one page are
another whole page's is left out.

*Chunking* (`KnowledgeProofs`). Up to where `parse_blocks` has come, the blocks partition the lines
(`BlocksInv`), and a code block ends at the first fence that closes it or with the document, while no other
block holds a fence but an indented one (`FencesInv`). `PiecesInv` follows `_split_prose` word by word:
`TokensAre` gives the size of a run of lines, `PieceIs` that a piece is a whole block, fits the target or is
one long word. For `chunk_document`, `Built(b, t)` says that chunks and pending parts hold the first `t`
pieces in order, and that the heading stack is what piece `t` stands under (`Under`); `UnderNext` says how
that changes with a heading, `AboveIs` that popping does the same. A chunk gets above the cap only when it
holds one piece of its own (`JoinKeeps`, with `WeightAdds` for the weight of one more part), and shows its
nearest heading because it begins with one or with the repeated stack (`Near`). `ChunkingIsFaithful` follows
for documents of any length and any sizes; `ChunkingGoesOn` says that no loop stands still. The TLC run and
the theorem share every definition.

*Catalog* (`CatalogProofs`). `CatalogCorrect`: the lines in the pipe answer requests the server was sent, each
with the page that was asked for (`LinesInv`), so what is repeated or unasked is either dropped or the page
the client waits for; what it has got are the first pages of the list (`FetchInv`). Then the catalog a
selection is checked against is true to what is listed at that moment, and whole unless it says so
(`FreshInv`); `EverySelectionIsChecked` follows, for any number of selections. `NoServerIsLeft` is the safety
half of `FetchEnds`.

*Fleet controller* (`FleetControllerProofs`). Nothing is assumed of the user. A conversation opened while no
Leader was at work has one turn under way at most, and while it is open no other conversation has
(`TurnsInv`): so a draft that arrives is its own, even if it arrives after others were opened. An approval given
in quiet is of the plan on the screen, and whoever would change that plan, a turn, has to be started
after it, by a request, whose first step takes the approval back (`ApprovalInv`). `TurnsAreInOrder`,
`ApprovalIsOfTheShownPlan` and, with a fleet that starts having found an approval, `RunningMeansAlive` follow.

*Architecture Gate* (`ArchitectureGateProofs`). An item of evidence in a stored context was true at some
checkout before the validation began (`StoredInv`), and the gate reads HEAD, the charter, HEAD again and
then the files, each at a checkout not before the last (`GateInv`). When it accepts, HEAD was the same at
both ends and the cited file at the moment the context was made and at the last: if nothing returns, both
held in between, when the charter was read. That moment is the witness of `AcceptedIsTrue`.

Only model-checked is liveness (`ExecutionEnds`, `Ends`, `BusyEnds`, `FetchEnds`), which is out of the
prover's reach. Every safety invariant and action property of the passing runs is proved. The
algorithms are state machines and not recursive functions for that reason: induction over data is out of
reach too, an invariant of steps is not.

## 5. Known divergences

Two runs end in a violation of what the documents say, and `PROJECT.json` records them as findings:
a crash outside an attempt leaves a run no later start ends (`executor_restart`), and two stores may
append the same events to a mirror (`mirror_two_stores`), after which `storage.py:69` makes every opening
of the store raise, for the other runs too. The rest below was met while modelling. The models follow
the code in each; the properties that hold name the exception.

* *A heir holding the pipes* (`processes.py:209`). The comment at `processes.py:23` says that a
  grandchild must not stall supervision. Where `Process.wait()` also waits for the pipes (CPython
  3.11) it does, until the deadline, and past it when it left the process group.
* *Exit against cancellation* (`processes.py:202`). "An exit observed around the deadline/cancellation
  always wins": it does against the deadline; a cancellation noticed before the waiter task has run
  gives CANCELLED for a child that had exited.
* *Quitting under the fleet* (`tui.py:632`). "`q` never silently abandons a running fleet": after "cancel
  and quit" the program ends at once, and the daemon thread with it, so whether the cancellation is
  carried out depends on who is faster. `InterpreterEnds` is that step.
* *Rows without events* (`storage.py:502`). Each mutation and its event are to commit in one transaction
  (`storage.py:44`, `docs/architecture.md:108`), but `initialize_execution` writes the target and the task
  rows with no event, and `set_attempt_pid` a pid. `LogSilentOnlyOnPinning` says that nothing else is
  missing from the log.
* *HEAD away and back.* A turn compares HEAD at its beginning with HEAD after the Leader's answer
  (`planning.py:181`), so a checkout of another commit and back within the turn lets the Leader read it,
  though a HEAD change between the two is to be rejected (`docs/architecture.md:88`). An executor compares
  HEAD with the base commit and each result with the baseline (`execution.py:329`, `:215`), never the two
  with each other: with HEAD away at the baseline, back for `provision` and away again at the result,
  a task succeeds in comparison with another commit, in 25 steps of `Executor`. `back` is the exception
  in both modules.
* *The list of another selection* (`fleet.py:264`). A request is to stop when a complete list does not show
  a selected model (`docs/architecture.md:98`). `start_request` refreshes and checks the Leader and the
  Workers in turn, and each refresh replaces the provider's list: with one provider, the list fetched for
  a later Worker may no longer show the Leader's model, and the Leader is asked all the same, as it is
  when its own refresh failed and a later one did not. A list of hidden models only shows none, counts
  as unavailable and stops nothing. `ChecksEverySelection` speaks of the list fetched for the selection.
* *Two planning screens* (`fleet.py:308`). A turn's answer is written to the conversation that is open when
  it comes, although its own was closed by the screen opened over it: TLC violates `TurnsInOrder` without
  `crossed` in 11 steps.
* *Approve during a new request* (`fleet.py:274`). The planning buttons stay enabled while a turn's thread
  clears the approval and, later, replaces the session. Approve pressed in between approves the old plan
  under the new conversation (11 steps without `quiet`). A request that clears the approval after
  Start, before the fleet's thread reads it (`fleet.py:370`), leaves RUNNING on the screen with no fleet (12
  steps).
* *A cancellation that is withdrawn* (`fleet.py:425`, `fleet.py:401`). `reset` and `start_request` clear the
  event the fleet's poll is to see, and the fleet writes its final state over a newer conversation's.
* *Cancelling one Worker* (`fleet.py:408`). `start_run` looks the event up when the Worker is dispatched;
  an event made later is set and never read.
* *A draft of one commit run at another* (`fleet.py:349`). `create_run` pins HEAD at the time of Approve.
* *An interrupted Worker* (`execution.py:377`). Cancelled at the spawn or the drain, its attempt stays
  RUNNING under a run that is CANCELLED.
* *The label of a version* (`knowledge_ingest.py:294`, `:313`). A file is read before Git names its version, so
  an edit in between is stored under the other version's name.
* *Torn files* (`knowledge_ingest.py:401`, `context.py:442`). A process lost inside the write of an immutable
  file leaves a part of it under the final name. No row or dossier is led astray, but every later
  ingestion or inspection of the same content refuses to overwrite it.
* *A chunk outside the full-text index* (`knowledge_store.py:259`). An ingester lost between a chunk's row and
  its full-text row leaves the chunk unsearchable for good: whoever meets the passage again finds the
  row and skips both. `PassagesFound` excepts these chunks, the `orphans`.
* *A snapshot without chunks* (`knowledge_ingest.py:420`). Lost between the snapshot's row and its chunks,
  an ingestion is skipped from then on as already done.
* *Chunks at the limits* (`knowledge_chunk.py`). A document's end can give a chunk of nothing but repeated
  text, a heading alone can be a chunk, an atomic block or what is repeated before it can exceed the
  cap, a word of more than 700 tokens is not cut and exceeds it too (`knowledge_chunk.py:186`, against
  `docs/task-contract.md:72` and `docs/architecture.md:68`), and a fence indented under a list item is
  read as part of the item.

## 6. Not modelled

* The fleet monitor: a display buffer behind a lock; each callback writes what the store has just
  committed, and only the screen reads it. Cancelling one Worker goes with it.
* Provider discovery and adapters, `leader_prompt.py`, `leader_adapters.py`: probes, argv and output
  conversions. What they may answer is a choice in `Executor`, `Conversation` and `FleetController`.
* The catalog adapters of OpenCode and Claude Code, which run one command and parse its output, and
  helpers a catalog server may start in its process group.
* Retrieval and the knowledge registry, the embedding model: retrieval reads only, the registry is a
  file replaced whole.
* What the gate wants of a dossier's text (profile sections, rule responses, quality commitments), and
  `charter init`, which creates one file once.
* The command line: arguments and printing around the operations above.
* The files of worktrees, which the code never removes, and SQLite's own durability, taken as given.
* The wording of prompts, events, reports and screens.

## 7. Plan

1. Done: all modules of section 2.
2. To come: per-Worker cancellation and the monitor beside `Executor`; the handoff of a plan from
   `Conversation` over `FleetController` to `Executor` with the commit each pins; the other catalog
   adapters; retrieval.
3. Proofs: the items of 2, once modelled; of the present modules only liveness is without one.
