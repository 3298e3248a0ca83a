--------------------------- MODULE FleetController ---------------------------
(***************************************************************************)
(* The interactive session: FleetController (fleet.py) and the screens of  *)
(* tui.py that drive it.  Three kinds of threads share the controller's    *)
(* fields without a lock: the UI thread, one thread per turn of a planning *)
(* conversation, and the thread of the running fleet.  What one of them    *)
(* does between two blocking calls is one action.                          *)
(*                                                                         *)
(* Conversations are numbered as they are opened.  A plan is known by the  *)
(* conversation whose Leader drafted it, 0 for none; a durable run by its  *)
(* number, and how it runs is the subject of Executor: here it is opened   *)
(* once and closes with a verdict.                                         *)
(***************************************************************************)
EXTENDS Naturals, Sequences

CONSTANTS
  Screens,        \* planning screens; every "Save & Continue" opens another one
  MaxQuestions,   \* bound: questions in one Leader response
  MaxRequests,    \* bound: conversations
  MaxRuns,        \* bound: plans approved
  MaxStack        \* bound: screens on top of each other

ASSUME ControllerAssumption ==
  /\ MaxQuestions \in Nat /\ MaxRequests \in Nat
  /\ MaxRuns \in Nat /\ MaxStack \in Nat

VARIABLES
  c,          \* the controller: state, session, approved and monitor (0 for
              \* None), cancel (_cancel_requested)
  sessions,   \* conversations so far
  questions,  \* pending_questions of each
  draft,      \* plan_draft of each
  runs,       \* the durable runs: their plan, and waiting, open or a verdict
  ui,         \* the stack of screens, the dialog over it, the plan Approve is
              \* busy with, whether the program has exited
  turn,       \* the turn thread of each planning screen, and the conversation
              \* the Leader was asked about
  fleet,      \* the fleet thread, its run, whether it heard the cancellation
  crossed,    \* history: the conversations opened while the Leader was still
              \* at work on another
  quiet       \* history: was no turn under way when Approve was last pressed?

data == <<sessions, questions, draft>>
past == <<crossed, quiet>>
vars == <<c, data, runs, ui, turn, fleet, past>>

NoFleet == [at |-> "none", run |-> 0, heard |-> FALSE]
Top == ui.stack[Len(ui.stack)]
Present == ~ ui.exited /\ ui.approving = 0
Free == Present /\ ui.dialog = "none"
On(screen) == Free /\ Top = screen
Idle(s) == turn[s].at = "idle"
Alive == fleet.at \in {"starting", "running"}

\* self.plan
Plan == IF c.session = 0 THEN 0 ELSE draft[c.session]

Push(screen) ==
  /\ Len(ui.stack) < MaxStack
  /\ ui' = [ui EXCEPT !.stack = Append(@, screen)]
Pop(stack) == SubSeq(stack, 1, Len(stack) - 1)
GoTurn(s, at, about) == turn' = [turn EXCEPT ![s] = [at |-> at, about |-> about]]

-----------------------------------------------------------------------------
(* The turn threads. *)

\* A screen starts one turn at a time; the other screens, and all the other
\* buttons, know nothing of it.
Submit(s) ==
  /\ On(s) /\ Idle(s)
  /\ GoTurn(s, IF c.state = "NEEDS_ANSWER" THEN "answer" ELSE "request", 0)
  /\ UNCHANGED <<c, data, runs, ui, fleet, past>>

\* _run_turn up to the call of the Leader.
AskLeader(s, about) ==
  /\ c' = [c EXCEPT !.state = "PLANNING", !.session = about]
  /\ GoTurn(s, "leader", about)

\* Faulty variant: the Leader is asked although questions are left.
AnswerOne(s) ==
  /\ turn[s].at = "answer"
  /\ IF c.session = 0 \/ questions[c.session] = 0
     THEN GoTurn(s, "idle", 0) /\ UNCHANGED <<c, questions>>
     ELSE /\ questions' = [questions EXCEPT ![c.session] = @ - 1]
          /\ AskLeader(s, c.session)
  /\ UNCHANGED <<sessions, draft, runs, ui, fleet, past>>

Answer(s) ==
  /\ turn[s].at = "answer"
  /\ IF c.session = 0 \/ questions[c.session] = 0
     THEN GoTurn(s, "idle", 0) /\ UNCHANGED <<c, questions>>
     ELSE /\ questions' = [questions EXCEPT ![c.session] = @ - 1]
          /\ IF questions[c.session] = 1 THEN AskLeader(s, c.session)
                                         ELSE GoTurn(s, "idle", 0) /\ UNCHANGED c
  /\ UNCHANGED <<sessions, draft, runs, ui, fleet, past>>

\* Faulty variant: the composer stays locked after a refusal.
RefuseSilently(s) ==
  /\ turn[s].at = "request"
  /\ GoTurn(s, "lost", 0)
  /\ UNCHANGED <<c, data, runs, ui, fleet, past>>

\* Nothing selected, or a selection that is not in the fresh catalog.
RequestRefused(s) ==
  /\ turn[s].at = "request"
  /\ \/ UNCHANGED c
     \/ c' = [c EXCEPT !.state = IF Plan # 0 THEN "PLAN_READY" ELSE "SETUP"]
  /\ GoTurn(s, "idle", 0)
  /\ UNCHANGED <<data, runs, ui, fleet, past>>

\* Faulty variant: the approval of the last conversation stays.
RequestKeepsApproval(s) ==
  /\ turn[s].at = "request"
  /\ c' = [c EXCEPT !.cancel = FALSE]
  /\ GoTurn(s, "cleared", 0)
  /\ UNCHANGED <<data, runs, ui, fleet, past>>

\* The catalogs are fetched; new_session now looks at the repository.
RequestClears(s) ==
  /\ turn[s].at = "request"
  /\ c' = [c EXCEPT !.approved = 0, !.monitor = 0, !.cancel = FALSE]
  /\ GoTurn(s, "cleared", 0)
  /\ UNCHANGED <<data, runs, ui, fleet, past>>

OpenSession(s) ==
  /\ turn[s].at = "cleared"
  /\ \/ /\ sessions < MaxRequests
        /\ sessions' = sessions + 1 /\ AskLeader(s, sessions + 1)
        /\ crossed' = IF \E r \in Screens : turn[r].at = "leader"
                      THEN crossed \cup {sessions + 1} ELSE crossed
     \/ GoTurn(s, "idle", 0) /\ UNCHANGED <<c, sessions, crossed>>
  /\ UNCHANGED <<questions, draft, runs, ui, fleet, quiet>>

\* The Leader's response goes to the conversation that is open by now.  None
\* is, after New: the error is none the thread expects, and ends the program.
Respond(s) ==
  /\ turn[s].at = "leader" /\ GoTurn(s, "idle", 0)
  /\ IF c.session = 0 THEN ui' = [ui EXCEPT !.exited = TRUE] /\ UNCHANGED <<c, questions, draft>>
     ELSE /\ \/ /\ draft' = [draft EXCEPT ![c.session] = turn[s].about]
                /\ questions' = [questions EXCEPT ![c.session] = 0]
                /\ c' = [c EXCEPT !.state = "PLAN_READY"]
             \/ /\ \E n \in 1..MaxQuestions :
                     questions' = [questions EXCEPT ![c.session] = n]
                /\ c' = [c EXCEPT !.state = "NEEDS_ANSWER"]
                /\ UNCHANGED draft
             \/ /\ c' = [c EXCEPT !.state = IF Plan # 0 THEN "PLAN_READY" ELSE "PLANNING"]
                /\ UNCHANGED <<questions, draft>>
          /\ UNCHANGED ui
  /\ UNCHANGED <<sessions, runs, fleet, past>>

Turn(s) ==
  ~ ui.exited /\ (Answer(s) \/ RequestRefused(s) \/ RequestClears(s) \/ OpenSession(s) \/ Respond(s))
-----------------------------------------------------------------------------
(* The planning screen. *)

\* approve(): it blocks the UI thread while the run is created and approved.
Approve(s) ==
  /\ On(s)
  /\ Plan # 0 /\ c.approved = 0 /\ Len(runs) < MaxRuns
  /\ ui' = [ui EXCEPT !.approving = Plan]
  /\ quiet' = \A r \in Screens : Idle(r)
  /\ UNCHANGED <<c, data, runs, turn, fleet, crossed>>

\* The plan is read once more, for the monitor; if it is gone, or if the run
\* cannot be created, the error ends the program.
Approved ==
  /\ ui.approving # 0 /\ ~ ui.exited
  /\ runs' = Append(runs, [plan |-> ui.approving, status |-> "waiting"])
  /\ c' = IF Plan = 0 THEN [c EXCEPT !.approved = Len(runs) + 1]
          ELSE [c EXCEPT !.approved = Len(runs) + 1, !.monitor = Len(runs) + 1,
                         !.state = "AWAITING_START"]
  /\ ui' = [ui EXCEPT !.approving = 0, !.exited = (Plan = 0)]
  /\ UNCHANGED <<data, turn, fleet, past>>

NotApproved ==
  /\ ui.approving # 0 /\ ~ ui.exited
  /\ ui' = [ui EXCEPT !.approving = 0, !.exited = TRUE]
  /\ UNCHANGED <<c, data, runs, turn, fleet, past>>

StartFleet(s) ==
  /\ On(s)
  /\ c.approved # 0 /\ c.monitor # 0 /\ ~ Alive
  /\ c' = [c EXCEPT !.cancel = FALSE, !.state = "RUNNING"]
  /\ fleet' = [NoFleet EXCEPT !.at = "starting"]
  /\ Push("fleet")
  /\ UNCHANGED <<data, runs, turn, past>>

\* New and Cancel: reset().
New(s) ==
  /\ On(s)
  /\ c' = [state |-> "SETUP", session |-> 0, approved |-> 0, monitor |-> 0, cancel |-> FALSE]
  /\ UNCHANGED <<data, runs, ui, turn, fleet, past>>

Settings(s) ==
  /\ On(s)
  /\ Push("setup")
  /\ UNCHANGED <<c, data, runs, turn, fleet, past>>

Continue(s) ==
  /\ On("setup")
  /\ \A i \in DOMAIN ui.stack : ui.stack[i] # s
  /\ Push(s)
  /\ UNCHANGED <<c, data, runs, turn, fleet, past>>

LeaveSettings ==
  /\ On("setup") /\ Len(ui.stack) > 1
  /\ ui' = [ui EXCEPT !.stack = Pop(@)]
  /\ UNCHANGED <<c, data, runs, turn, fleet, past>>

\* Quit on these screens asks nothing.
Quit ==
  /\ Free /\ Top # "fleet"
  /\ ui' = [ui EXCEPT !.exited = TRUE]
  /\ UNCHANGED <<c, data, runs, turn, fleet, past>>

-----------------------------------------------------------------------------
(* The fleet screen and its thread. *)

\* Back and Quit ask while the state is RUNNING, Cancel always does.
Ask(what) ==
  /\ On("fleet")
  /\ ui' = IF what = "cancel" \/ c.state = "RUNNING" THEN [ui EXCEPT !.dialog = what]
           ELSE IF what = "back" THEN [ui EXCEPT !.stack = Pop(@)]
           ELSE [ui EXCEPT !.exited = TRUE]
  /\ UNCHANGED <<c, data, runs, turn, fleet, past>>

Decline ==
  /\ Present /\ ui.dialog # "none"
  /\ ui' = [ui EXCEPT !.dialog = "none"]
  /\ UNCHANGED <<c, data, runs, turn, fleet, past>>

Confirm ==
  /\ Present /\ ui.dialog # "none"
  /\ c' = [c EXCEPT !.cancel = TRUE]
  /\ ui' = [ui EXCEPT !.dialog = "none", !.exited = (ui.dialog = "quit"),
                      !.stack = IF ui.dialog = "back" THEN Pop(@) ELSE @]
  /\ UNCHANGED <<data, runs, turn, fleet, past>>

\* _run_fleet begins: without an approval its assertion ends the thread, and
\* start_run refuses a run that has been started before.
FleetBegins ==
  /\ fleet.at = "starting"
  /\ IF c.approved = 0 \/ c.monitor = 0
     THEN fleet' = NoFleet /\ UNCHANGED <<c, runs>>
     ELSE IF runs[c.approved].status # "waiting"
     THEN /\ fleet' = NoFleet
          /\ c' = [c EXCEPT !.state = "FAILED"] /\ UNCHANGED runs
     ELSE /\ fleet' = [fleet EXCEPT !.at = "running", !.run = c.approved]
          /\ runs' = [runs EXCEPT ![c.approved].status = "open"] /\ UNCHANGED c
  /\ UNCHANGED <<data, ui, turn, past>>

FleetHears ==
  /\ fleet.at = "running" /\ c.cancel /\ ~ fleet.heard
  /\ fleet' = [fleet EXCEPT !.heard = TRUE]
  /\ UNCHANGED <<c, data, runs, ui, turn, past>>

ShownAs == [VERIFYING |-> "FINISHED", CANCELLED |-> "CANCELLED",
            FAILED |-> "FAILED", BLOCKED |-> "FAILED"]

\* Faulty variant: a blocked run leaves the state alone.
FleetEndsUnshown(verdict) ==
  /\ fleet.at = "running"
  /\ verdict = "CANCELLED" => fleet.heard
  /\ runs' = [runs EXCEPT ![fleet.run].status = verdict]
  /\ c' = IF verdict = "BLOCKED" THEN c ELSE [c EXCEPT !.state = ShownAs[verdict]]
  /\ fleet' = NoFleet
  /\ UNCHANGED <<data, ui, turn, past>>

FleetEnds(verdict) ==
  /\ fleet.at = "running"
  /\ verdict = "CANCELLED" => fleet.heard
  /\ runs' = [runs EXCEPT ![fleet.run].status = verdict]
  /\ c' = [c EXCEPT !.state = ShownAs[verdict]]
  /\ fleet' = NoFleet
  /\ UNCHANGED <<data, ui, turn, past>>

\* The fleet thread is a daemon: the interpreter does not wait for it.
InterpreterEnds ==
  /\ ui.exited /\ Alive
  /\ fleet' = [fleet EXCEPT !.at = "killed"]
  /\ UNCHANGED <<c, data, runs, ui, turn, past>>

-----------------------------------------------------------------------------

Init ==
  /\ c = [state |-> "SETUP", session |-> 0, approved |-> 0, monitor |-> 0, cancel |-> FALSE]
  /\ sessions = 0 /\ runs = <<>>
  /\ questions = [n \in 1..MaxRequests |-> 0] /\ draft = [n \in 1..MaxRequests |-> 0]
  /\ ui = [stack |-> <<"setup">>, dialog |-> "none", approving |-> 0, exited |-> FALSE]
  /\ turn = [s \in Screens |-> [at |-> "idle", about |-> 0]]
  /\ fleet = NoFleet
  /\ crossed = {} /\ quiet = FALSE

Next ==
  \/ \E s \in Screens : \/ Submit(s) \/ Turn(s) \/ Approve(s) \/ StartFleet(s)
                        \/ New(s) \/ Settings(s) \/ Continue(s)
  \/ Approved \/ NotApproved \/ LeaveSettings \/ Quit
  \/ (\E what \in {"cancel", "back", "quit"} : Ask(what)) \/ Confirm \/ Decline
  \/ FleetBegins \/ FleetHears \/ InterpreterEnds
  \/ \E verdict \in DOMAIN ShownAs : FleetEnds(verdict)

\* Catalogs, Git and the Leader answer or time out.
Spec == Init /\ [][Next]_vars /\ \A s \in Screens : WF_vars(Turn(s))

-----------------------------------------------------------------------------
(* Correctness. *)

\* Whatever Start finds approved, and the fleet thread when it reads it again,
\* is the plan of the open conversation, whichever turns, conversations and
\* screens come after Approve, unless a turn was under way when it was pressed:
\* "the user explicitly chooses Approve, which ... records the ... approval for
\* the exact plan", and Start afterwards.
ApprovedIsShown == c.approved # 0 /\ quiet => runs[c.approved].plan = Plan

\* The Leader has no question left when it is asked, and a draft answers the
\* request of its own conversation, unless another Leader was still at work
\* when the conversation was opened.
TurnsInOrder ==
  \A n \in 1..MaxRequests : n \notin crossed =>
    /\ draft[n] \in {0, n}
    /\ \A s \in Screens : turn[s] = [at |-> "leader", about |-> n] => questions[n] = 0

\* The state is RUNNING without a fleet, so that Back and Quit ask about
\* nothing, only after a request has cleared the approval between Start and the
\* fleet thread's own look at it.
RunningIsAlive ==
  c.state = "RUNNING" /\ fleet.at = "none" => c.approved = 0 \/ ui.exited

\* The composer is given back after every turn.
BusyEnds == \A s \in Screens : turn[s].at # "idle" ~> turn[s].at = "idle" \/ ui.exited
=============================================================================
