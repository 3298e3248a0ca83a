----------------------- MODULE FleetControllerProofs -----------------------
(* How far the interactive session keeps conversations, approvals and the    *)
(* fleet in step, for any number of screens, conversations and runs, and for *)
(* any user: the threads share the controller's fields without a lock, and   *)
(* what the histories say is exactly where that shows.                       *)
EXTENDS FleetController, TLAPS

-----------------------------------------------------------------------------
(* The inductive invariant.                                                *)

States == {"SETUP", "PLANNING", "NEEDS_ANSWER", "PLAN_READY", "AWAITING_START", "RUNNING",
           "FINISHED", "CANCELLED", "FAILED"}

TypeOK ==
  /\ sessions \in 0..MaxRequests
  /\ c \in [state : States, session : 0..MaxRequests, approved : Nat, monitor : Nat, cancel : BOOLEAN]
  /\ questions \in [1..MaxRequests -> Nat] /\ draft \in [1..MaxRequests -> Nat]
  /\ runs \in Seq([plan : Nat, status : {"waiting", "open"} \cup DOMAIN ShownAs])
  /\ ui \in [stack : Seq(Screens \cup {"setup", "fleet"}), dialog : {"none", "cancel", "back", "quit"},
             approving : Nat, exited : BOOLEAN]
  /\ turn \in [Screens -> [at : {"idle", "answer", "request", "cleared", "leader"}, about : Nat]]
  /\ fleet \in [at : {"none", "starting", "running", "killed"}, run : Nat, heard : BOOLEAN]
  /\ crossed \subseteq 1..sessions /\ quiet \in BOOLEAN

\* Conversations that are not open yet have neither questions nor a draft.
SessionsInv ==
  /\ c.session <= sessions
  /\ \A n \in 1..MaxRequests : n > sessions => questions[n] = 0 /\ draft[n] = 0
  /\ \A n \in 1..MaxRequests : n \notin crossed => draft[n] \in {0, n}

Asked(s, n) == turn[s].at = "leader" /\ turn[s].about = n

\* A conversation that was opened while no Leader was at work has one turn under
\* way at most, and while it is open no other conversation has.
TurnsInv ==
  /\ \A s \in Screens : turn[s].at = "leader" => turn[s].about \in 1..sessions
  /\ \A n \in 1..MaxRequests, r, s \in Screens :
        n \notin crossed /\ Asked(r, n) /\ Asked(s, n) => r = s /\ questions[n] = 0
  /\ c.session # 0 /\ c.session \notin crossed =>
        \A s \in Screens : turn[s].at = "leader" => turn[s].about = c.session

\* After an Approve with no turn under way a turn has to begin with a request,
\* and its first step takes the approval back.
ApprovalInv ==
  /\ ui.approving # 0 =>
        c.approved = 0 /\ (quiet => ui.approving = Plan /\ \A s \in Screens : Idle(s))
  /\ c.approved # 0 =>
        /\ c.approved \in DOMAIN runs /\ (c.monitor # 0 \/ ui.exited)
        /\ quiet => /\ runs[c.approved].plan = Plan /\ c.state # "NEEDS_ANSWER"
                    /\ \A s \in Screens : turn[s].at \in {"idle", "request"}

Inv == TypeOK /\ SessionsInv /\ TurnsInv /\ ApprovalInv /\ RunningIsAlive

-----------------------------------------------------------------------------
(* Types.                                                                  *)

LEMMA PlanType == TypeOK => Plan \in Nat
BY DEF TypeOK, Plan

LEMMA TurnTypes ==
  ASSUME TypeOK, NEW s \in Screens, NEW at_ \in {"idle", "answer", "request", "cleared", "leader"},
         NEW about \in Nat, GoTurn(s, at_, about)
  PROVE  /\ turn' \in [Screens -> [at : {"idle", "answer", "request", "cleared", "leader"}, about : Nat]]
         /\ turn'[s].at = at_ /\ turn'[s].about = about
         /\ \A r \in Screens : r # s => turn'[r] = turn[r]
BY DEF TypeOK, GoTurn

\* The screens stay a sequence of screens.
LEMMA StackTypes ==
  ASSUME TypeOK
  PROVE  /\ Pop(ui.stack) \in Seq(Screens \cup {"setup", "fleet"})
         /\ \A s \in Screens \cup {"setup", "fleet"} :
               Append(ui.stack, s) \in Seq(Screens \cup {"setup", "fleet"})
<1>1. ui.stack \in Seq(Screens \cup {"setup", "fleet"}) /\ Len(ui.stack) \in Nat
  BY DEF TypeOK
<1>2. CASE ui.stack = <<>>
  BY <1>2 DEF Pop
<1>3. CASE ui.stack # <<>>
  BY <1>1, <1>3 DEF Pop
<1>4. \A s \in Screens \cup {"setup", "fleet"} :
         Append(ui.stack, s) \in Seq(Screens \cup {"setup", "fleet"})
  BY <1>1
<1> QED BY <1>2, <1>3, <1>4

LEMMA InitInv == Init => Inv
<1> SUFFICES ASSUME Init
             PROVE  Inv
  OBVIOUS
<1>1. TypeOK
  <2>1. sessions \in 0..MaxRequests /\ crossed \subseteq 1..sessions /\ quiet \in BOOLEAN
    <3>1. sessions = 0 /\ crossed = {} /\ quiet = FALSE
      BY DEF Init
    <3>2. crossed \subseteq 1..sessions /\ quiet \in BOOLEAN
      BY <3>1, Zenon
    <3> QED BY <3>1, <3>2, ControllerAssumption
  <2>2. /\ c \in [state : States, session : 0..MaxRequests, approved : Nat, monitor : Nat, cancel : BOOLEAN]
        /\ questions \in [1..MaxRequests -> Nat] /\ draft \in [1..MaxRequests -> Nat]
    BY ControllerAssumption DEF Init, States
  <2>3. /\ runs \in Seq([plan : Nat, status : {"waiting", "open"} \cup DOMAIN ShownAs])
        /\ ui \in [stack : Seq(Screens \cup {"setup", "fleet"}), dialog : {"none", "cancel", "back", "quit"},
                   approving : Nat, exited : BOOLEAN]
    BY DEF Init
  <2>4. /\ turn \in [Screens -> [at : {"idle", "answer", "request", "cleared", "leader"}, about : Nat]]
        /\ fleet \in [at : {"none", "starting", "running", "killed"}, run : Nat, heard : BOOLEAN]
    BY DEF Init, NoFleet
  <2> QED BY <2>1, <2>2, <2>3, <2>4 DEF TypeOK
<1>2. SessionsInv /\ TurnsInv /\ RunningIsAlive
  BY ControllerAssumption DEF Init, SessionsInv, TurnsInv, RunningIsAlive, Asked, NoFleet
<1>3. ApprovalInv
  BY DEF Init, ApprovalInv
<1> QED BY <1>1, <1>2, <1>3 DEF Inv

Verdicts == DOMAIN ShownAs
Controls == [state : States, session : 0..MaxRequests, approved : Nat, monitor : Nat, cancel : BOOLEAN]
Runs == [plan : Nat, status : {"waiting", "open"} \cup DOMAIN ShownAs]
Windows == [stack : Seq(Screens \cup {"setup", "fleet"}), dialog : {"none", "cancel", "back", "quit"},
            approving : Nat, exited : BOOLEAN]
Turns == [Screens -> [at : {"idle", "answer", "request", "cleared", "leader"}, about : Nat]]
Fleets == [at : {"none", "starting", "running", "killed"}, run : Nat, heard : BOOLEAN]

\* What the steps make of the controller's record and of the windows.
LEMMA ControlUpdates ==
  ASSUME NEW r \in Controls
  PROVE  /\ \A st \in States : [r EXCEPT !.state = st] \in Controls
         /\ \A st \in States, n \in 0..MaxRequests : [r EXCEPT !.state = st, !.session = n] \in Controls
         /\ [r EXCEPT !.approved = 0, !.monitor = 0, !.cancel = FALSE] \in Controls
         /\ [r EXCEPT !.cancel = FALSE, !.state = "RUNNING"] \in Controls
         /\ [r EXCEPT !.cancel = TRUE] \in Controls
         /\ \A n \in Nat : [r EXCEPT !.approved = n] \in Controls
         /\ \A n \in Nat : [r EXCEPT !.approved = n, !.monitor = n, !.state = "AWAITING_START"] \in Controls
<1>1. \A st \in States : [r EXCEPT !.state = st] \in Controls
  BY DEF Controls
<1>2. \A st \in States, n \in 0..MaxRequests : [r EXCEPT !.state = st, !.session = n] \in Controls
  BY DEF Controls
<1>3. [r EXCEPT !.approved = 0, !.monitor = 0, !.cancel = FALSE] \in Controls
  BY DEF Controls
<1>4. [r EXCEPT !.cancel = FALSE, !.state = "RUNNING"] \in Controls
  BY DEF Controls, States
<1>5. [r EXCEPT !.cancel = TRUE] \in Controls
  BY DEF Controls
<1>6. \A n \in Nat : [r EXCEPT !.approved = n] \in Controls
  BY DEF Controls
<1>7. \A n \in Nat : [r EXCEPT !.approved = n, !.monitor = n, !.state = "AWAITING_START"] \in Controls
  BY DEF Controls, States
<1> QED BY <1>1, <1>2, <1>3, <1>4, <1>5, <1>6, <1>7

LEMMA WindowUpdates ==
  ASSUME NEW w \in Windows, NEW stack \in Seq(Screens \cup {"setup", "fleet"}), NEW e \in BOOLEAN
  PROVE  /\ [w EXCEPT !.stack = stack] \in Windows
         /\ [w EXCEPT !.exited = e] \in Windows
         /\ \A n \in Nat : [w EXCEPT !.approving = n] \in Windows
         /\ [w EXCEPT !.approving = 0, !.exited = e] \in Windows
         /\ \A d \in {"none", "cancel", "back", "quit"} : [w EXCEPT !.dialog = d] \in Windows
         /\ [w EXCEPT !.dialog = "none", !.exited = e, !.stack = stack] \in Windows
<1>1. [w EXCEPT !.stack = stack] \in Windows
  BY DEF Windows
<1>2. [w EXCEPT !.exited = e] \in Windows
  BY DEF Windows
<1>3. \A n \in Nat : [w EXCEPT !.approving = n] \in Windows
  BY DEF Windows
<1>4. [w EXCEPT !.approving = 0, !.exited = e] \in Windows
  BY DEF Windows
<1>5. \A d \in {"none", "cancel", "back", "quit"} : [w EXCEPT !.dialog = d] \in Windows
  BY DEF Windows
<1>6. [w EXCEPT !.dialog = "none", !.exited = e, !.stack = stack] \in Windows
  BY DEF Windows
<1> QED BY <1>1, <1>2, <1>3, <1>4, <1>5, <1>6

LEMMA Held == TypeOK <=> /\ sessions \in 0..MaxRequests /\ c \in Controls
                         /\ questions \in [1..MaxRequests -> Nat] /\ draft \in [1..MaxRequests -> Nat]
                         /\ runs \in Seq(Runs) /\ ui \in Windows /\ turn \in Turns /\ fleet \in Fleets
                         /\ crossed \subseteq 1..sessions /\ quiet \in BOOLEAN
BY DEF TypeOK, Controls, Runs, Windows, Turns, Fleets

\* The turn threads.
LEMMA TurnStepTypes ==
  ASSUME TypeOK, NEW s \in Screens, Submit(s) \/ Turn(s)
  PROVE  TypeOK'
<1> USE DEF Controls, Turns
<1>1. turn' \in Turns
  <2>1. CASE Submit(s) \/ RequestRefused(s) \/ RequestClears(s)
    BY <2>1, TurnTypes DEF Submit, RequestRefused, RequestClears
  <2>2. CASE Answer(s) \/ OpenSession(s)
    <3>1. c.session \in Nat /\ sessions + 1 \in Nat
      BY DEF TypeOK
    <3> QED BY <2>2, <3>1, TurnTypes DEF Answer, OpenSession, AskLeader
  <2>3. CASE Respond(s)
    BY <2>3, TurnTypes DEF Respond
  <2> QED BY <2>1, <2>2, <2>3 DEF Turn
<1>2. c' \in Controls /\ sessions' \in 0..MaxRequests
  <2>0. c \in Controls /\ sessions \in 0..MaxRequests /\ c.session \in 0..MaxRequests
        /\ {"PLANNING", "PLAN_READY", "SETUP", "NEEDS_ANSWER"} \subseteq States
    BY DEF TypeOK, States
  <2> HIDE DEF Controls
  <2>1. CASE OpenSession(s)
    <3>2. sessions < MaxRequests => sessions + 1 \in 0..MaxRequests
      BY <2>0, ControllerAssumption
    <3>3. \/ /\ c' = [c EXCEPT !.state = "PLANNING", !.session = sessions + 1]
             /\ sessions' = sessions + 1 /\ sessions < MaxRequests
          \/ c' = c /\ sessions' = sessions
      BY <2>1 DEF OpenSession, AskLeader
    <3>4. \A n \in 0..MaxRequests : [c EXCEPT !.state = "PLANNING", !.session = n] \in Controls
      BY <2>0, ControlUpdates
    <3> QED BY <2>0, <3>2, <3>3, <3>4
  <2>2. CASE Submit(s) \/ Answer(s)
    <3>1. \/ c' = [c EXCEPT !.state = "PLANNING", !.session = c.session]
          \/ c' = c
      BY <2>2 DEF Submit, Answer, AskLeader
    <3>2. sessions' = sessions
      BY <2>2 DEF Submit, Answer, data
    <3>3. \A n \in 0..MaxRequests : [c EXCEPT !.state = "PLANNING", !.session = n] \in Controls
      BY <2>0, ControlUpdates
    <3> QED BY <2>0, <3>1, <3>2, <3>3
  <2>3. CASE RequestRefused(s)
    BY <2>0, <2>3, ControlUpdates DEF RequestRefused, data
  <2>4. CASE RequestClears(s)
    BY <2>0, <2>4, ControlUpdates DEF RequestClears, data
  <2>5. CASE Respond(s)
    BY <2>0, <2>5, ControlUpdates DEF Respond
  <2> QED BY <2>1, <2>2, <2>3, <2>4, <2>5 DEF Turn
<1>3. questions' \in [1..MaxRequests -> Nat] /\ draft' \in [1..MaxRequests -> Nat]
  <2>1. CASE Answer(s)
    <3>1. questions[c.session] # 0 /\ c.session # 0 => questions[c.session] - 1 \in Nat
      BY DEF TypeOK
    <3> QED BY <2>1, <3>1 DEF Answer, TypeOK
  <2>2. CASE Respond(s)
    <3>1. \/ questions' = questions
          \/ \E n \in Nat : questions' = [questions EXCEPT ![c.session] = n]
      BY <2>2, ControllerAssumption DEF Respond
    <3>2. draft' = draft \/ draft' = [draft EXCEPT ![c.session] = turn[s].about]
      BY <2>2 DEF Respond
    <3>3. turn[s].about \in Nat
      BY DEF TypeOK
    <3>4. questions' \in [1..MaxRequests -> Nat]
      BY <3>1 DEF TypeOK
    <3> QED BY <3>2, <3>3, <3>4 DEF TypeOK
  <2>3. CASE Submit(s) \/ RequestRefused(s) \/ RequestClears(s) \/ OpenSession(s)
    BY <2>3 DEF Submit, RequestRefused, RequestClears, OpenSession, data, TypeOK
  <2> QED BY <2>1, <2>2, <2>3 DEF Turn
<1>4. UNCHANGED <<runs, fleet>> /\ (ui' = ui \/ ui' = [ui EXCEPT !.exited = TRUE])
  BY DEF Submit, Turn, Answer, RequestRefused, RequestClears, OpenSession, Respond
<1>5. ui' \in Windows
  BY <1>4, Held, StackTypes, WindowUpdates
<1>6. crossed' \subseteq 1..sessions' /\ quiet' \in BOOLEAN
  <2>1. CASE OpenSession(s)
    <3>1. sessions \in Nat /\ crossed \subseteq 1..sessions /\ quiet \in BOOLEAN
      BY ControllerAssumption DEF TypeOK
    <3>2. 1..sessions \subseteq 1..(sessions + 1) /\ sessions + 1 \in 1..(sessions + 1)
      BY <3>1
    <3>3. quiet' = quiet
      BY <2>1 DEF OpenSession
    <3>4. \/ sessions' = sessions + 1 /\ (crossed' = crossed \cup {sessions + 1} \/ crossed' = crossed)
          \/ sessions' = sessions /\ crossed' = crossed
      BY <2>1, Zenon DEF OpenSession
    <3> QED BY <3>1, <3>2, <3>3, <3>4
  <2>2. CASE ~ OpenSession(s)
    BY <2>2 DEF Submit, Turn, Answer, RequestRefused, RequestClears, Respond, data, past, TypeOK
  <2> QED BY <2>1, <2>2
<1> QED BY <1>1, <1>2, <1>3, <1>4, <1>5, <1>6 DEF TypeOK, Runs, Windows, Fleets

\* The user's buttons and the fleet's thread.
LEMMA OtherStepTypes ==
  ASSUME TypeOK, UNCHANGED <<data, turn, crossed>>, quiet' \in BOOLEAN,
         c' \in Controls, runs' \in Seq(Runs), ui' \in Windows, fleet' \in Fleets
  PROVE  TypeOK'
BY DEF TypeOK, data, Controls, Runs, Windows, Turns, Fleets

LEMMA UserTypes ==
  ASSUME TypeOK, NEW s \in Screens,
         Approve(s) \/ StartFleet(s) \/ New(s) \/ Settings(s) \/ Continue(s) \/ LeaveSettings \/ Quit
  PROVE  TypeOK'
<1>0. c \in Controls /\ ui \in Windows /\ runs \in Seq(Runs) /\ fleet \in Fleets
  BY Held
<1>1. c' \in Controls
  <2>1. [state |-> "SETUP", session |-> 0, approved |-> 0, monitor |-> 0, cancel |-> FALSE] \in Controls
    BY ControllerAssumption DEF Controls, States
  <2> QED BY <1>0, <2>1, ControlUpdates
          DEF Approve, StartFleet, New, Settings, Continue, LeaveSettings, Quit
<1>2. ui' \in Windows
  <2>1. CASE Approve(s)
    BY <1>0, <2>1, PlanType, StackTypes, WindowUpdates DEF Approve
  <2>2. CASE StartFleet(s) \/ Settings(s) \/ Continue(s)
    <3>1. \E screen \in Screens \cup {"setup", "fleet"} : Push(screen)
      BY <2>2 DEF StartFleet, Settings, Continue
    <3>2. PICK stack \in Seq(Screens \cup {"setup", "fleet"}) : ui' = [ui EXCEPT !.stack = stack]
      BY <3>1, StackTypes DEF Push
    <3> QED BY <1>0, <3>2, WindowUpdates
  <2>3. CASE LeaveSettings
    BY <1>0, <2>3, StackTypes, WindowUpdates DEF LeaveSettings
  <2>4. CASE New(s) \/ Quit
    BY <1>0, <2>4, StackTypes, WindowUpdates DEF New, Quit
  <2> QED BY <2>1, <2>2, <2>3, <2>4
<1>3. fleet' \in Fleets
  <2>1. [NoFleet EXCEPT !.at = "starting"] \in Fleets
    BY DEF NoFleet, Fleets
  <2> QED BY <1>0, <2>1 DEF Approve, StartFleet, New, Settings, Continue, LeaveSettings, Quit
<1>4. runs' \in Seq(Runs) /\ UNCHANGED <<data, turn, crossed>>
  BY <1>0 DEF Approve, StartFleet, New, Settings, Continue, LeaveSettings, Quit, past
<1>5. quiet' \in BOOLEAN
  <2>1. CASE Approve(s)
    BY <2>1, Zenon DEF Approve
  <2>2. CASE ~ Approve(s)
    BY <2>2 DEF StartFleet, New, Settings, Continue, LeaveSettings, Quit, past, TypeOK
  <2> QED BY <2>1, <2>2
<1> QED BY <1>1, <1>2, <1>3, <1>4, <1>5, OtherStepTypes

LEMMA DialogTypes ==
  ASSUME TypeOK, (\E what \in {"cancel", "back", "quit"} : Ask(what)) \/ Decline \/ Confirm
  PROVE  TypeOK'
<1>0. c \in Controls /\ ui \in Windows /\ runs \in Seq(Runs) /\ fleet \in Fleets
  BY Held
<1>1. c' \in Controls
  BY <1>0, ControlUpdates DEF Ask, Decline, Confirm
<1>2. ui' \in Windows
  <2>1. ASSUME NEW what \in {"cancel", "back", "quit"}, Ask(what) PROVE ui' \in Windows
    BY <1>0, <2>1, StackTypes, WindowUpdates DEF Ask
  <2>2. CASE Decline
    BY <1>0, <2>2, StackTypes, WindowUpdates DEF Decline
  <2>3. CASE Confirm
    <3>1. PICK stack \in Seq(Screens \cup {"setup", "fleet"}), e \in BOOLEAN :
             ui' = [ui EXCEPT !.dialog = "none", !.exited = e, !.stack = stack]
      <4>1. (IF ui.dialog = "back" THEN Pop(ui.stack) ELSE ui.stack) \in Seq(Screens \cup {"setup", "fleet"})
        BY <1>0, StackTypes DEF Windows
      <4> QED BY <2>3, <4>1 DEF Confirm
    <3> QED BY <1>0, <3>1, WindowUpdates
  <2> QED BY <2>1, <2>2, <2>3
<1>3. fleet' = fleet /\ runs' = runs /\ UNCHANGED <<data, turn, past>>
  BY DEF Ask, Decline, Confirm
<1> QED BY <1>0, <1>1, <1>2, <1>3, OtherStepTypes DEF past, TypeOK

LEMMA ApprovedTypes ==
  ASSUME TypeOK, Approved \/ NotApproved
  PROVE  TypeOK'
<1>0. c \in Controls /\ ui \in Windows /\ runs \in Seq(Runs) /\ fleet \in Fleets /\ Len(runs) + 1 \in Nat
  BY Held
<1>1. UNCHANGED <<data, turn, past>> /\ fleet' \in Fleets
  BY <1>0 DEF Approved, NotApproved
<1>2. c' \in Controls
  <2>1. \/ c' = [c EXCEPT !.approved = Len(runs) + 1]
        \/ c' = [c EXCEPT !.approved = Len(runs) + 1, !.monitor = Len(runs) + 1, !.state = "AWAITING_START"]
        \/ c' = c
    BY Zenon DEF Approved, NotApproved
  <2>2. \A n \in Nat : [c EXCEPT !.approved = n] \in Controls
    BY <1>0, ControlUpdates
  <2>3. \A n \in Nat : [c EXCEPT !.approved = n, !.monitor = n, !.state = "AWAITING_START"] \in Controls
    BY <1>0, ControlUpdates
  <2> QED BY <1>0, <2>1, <2>2, <2>3
<1>3. runs' \in Seq(Runs)
  <2>1. CASE Approved
    <3>1. [plan |-> ui.approving, status |-> "waiting"] \in Runs
      BY <1>0 DEF Windows, Runs
    <3> QED BY <1>0, <2>1, <3>1 DEF Approved
  <2>2. CASE NotApproved
    BY <1>0, <2>2 DEF NotApproved
  <2> QED BY <2>1, <2>2
<1>4. ui' \in Windows
  <2>1. PICK e \in BOOLEAN : ui' = [ui EXCEPT !.approving = 0, !.exited = e]
    BY DEF Approved, NotApproved
  <2> QED BY <1>0, <2>1, StackTypes, WindowUpdates
<1> QED BY <1>1, <1>2, <1>3, <1>4, OtherStepTypes DEF past, TypeOK

\* Marking a run leaves its plan as it is.
LEMMA MarkTypes ==
  ASSUME TypeOK, NEW n \in Nat, NEW status \in {"waiting", "open"} \cup Verdicts,
         runs' = [runs EXCEPT ![n].status = status]
  PROVE  /\ runs' \in Seq(Runs) /\ Len(runs') = Len(runs) /\ DOMAIN runs' = DOMAIN runs
         /\ \A m \in DOMAIN runs : runs'[m].plan = runs[m].plan
<1>0. runs \in Seq(Runs)
  BY Held
<1>1. runs \in [1..Len(runs) -> Runs] /\ Len(runs) \in Nat /\ DOMAIN runs = 1..Len(runs)
  BY <1>0
<1>2. n \in DOMAIN runs => [runs[n] EXCEPT !.status = status] \in Runs
  BY <1>1 DEF Runs, Verdicts
<1>3. runs' \in [1..Len(runs) -> Runs]
  BY <1>1, <1>2
<1>4. \A m \in DOMAIN runs : runs'[m].plan = runs[m].plan
  BY <1>1 DEF Runs
<1>5. runs' \in Seq(Runs) /\ Len(runs') = Len(runs)
  BY <1>1, <1>3
<1> QED BY <1>1, <1>3, <1>4, <1>5

-----------------------------------------------------------------------------
(* Every step keeps the rest.                                              *)

Kept == SessionsInv /\ TurnsInv /\ ApprovalInv /\ RunningIsAlive

\* What is true of every step of a turn thread that leaves conversations open
\* or closed as they are, or opens one, is enough for approvals and the state.
LEMMA TurnKeepsApproval ==
  ASSUME Inv, NEW s \in Screens,
         NEW at_ \in {"idle", "answer", "request", "cleared", "leader"}, NEW about \in Nat,
         GoTurn(s, at_, about),
         UNCHANGED <<runs, fleet, quiet>>, ui'.approving = ui.approving, ui.exited => ui'.exited,
         c'.approved # 0 => c'.approved = c.approved /\ c'.monitor = c.monitor,
         c'.state = "RUNNING" => c.state = "RUNNING",
         quiet /\ ui.approving # 0 => Plan' = Plan /\ at_ = "idle",
         quiet /\ c'.approved # 0 =>
            Plan' = Plan /\ at_ \in {"idle", "request"} /\ c'.state # "NEEDS_ANSWER"
  PROVE  ApprovalInv' /\ RunningIsAlive'
<1>1. turn'[s].at = at_ /\ \A r \in Screens : r # s => turn'[r] = turn[r]
  BY TurnTypes DEF Inv
<1>2. \A r \in Screens : turn'[r].at = at_ \/ turn'[r].at = turn[r].at
  BY <1>1
<1>3. ApprovalInv'
  BY <1>2 DEF Inv, ApprovalInv, Idle
<1>4. RunningIsAlive'
  BY DEF Inv, RunningIsAlive
<1> QED BY <1>3, <1>4

\* A step of a turn thread after which it does not wait for the Leader, and
\* which leaves the conversations alone.
LEMMA TurnKeepsTurns ==
  ASSUME Inv, NEW s \in Screens, NEW at_ \in {"idle", "answer", "request", "cleared"},
         GoTurn(s, at_, 0), c'.session = c.session, UNCHANGED <<data, crossed>>
  PROVE  SessionsInv' /\ TurnsInv'
<1>1. turn'[s].at = at_ /\ \A r \in Screens : r # s => turn'[r] = turn[r]
  BY TurnTypes DEF Inv
<1>2. \A r \in Screens : turn'[r].at = "leader" => turn'[r] = turn[r]
  BY <1>1
<1>3. SessionsInv'
  BY DEF Inv, SessionsInv, data
<1>4. TurnsInv'
  BY <1>2 DEF Inv, TurnsInv, Asked, data
<1> QED BY <1>3, <1>4

LEMMA SubmitKeeps ==
  ASSUME Inv, NEW s \in Screens, Submit(s)
  PROVE  Kept'
<1>1. /\ ui.approving = 0 /\ UNCHANGED <<c, data, runs, ui, fleet, crossed, quiet>>
  BY DEF Submit, On, Free, Present, past
<1>2. PICK at_ \in {"answer", "request"} :
         GoTurn(s, at_, 0) /\ (at_ = "answer" => c.state = "NEEDS_ANSWER")
  BY DEF Submit
<1>3. Plan' = Plan
  BY <1>1 DEF Plan, data
<1>4. quiet /\ c'.approved # 0 => at_ = "request" /\ c'.state # "NEEDS_ANSWER"
  BY <1>1, <1>2 DEF Inv, ApprovalInv
<1>5. SessionsInv' /\ TurnsInv'
  BY <1>1, <1>2, TurnKeepsTurns
<1>6. ApprovalInv' /\ RunningIsAlive'
  BY <1>1, <1>2, <1>3, <1>4, TurnKeepsApproval
<1> QED BY <1>5, <1>6 DEF Kept

\* A thread that is past the check of a request, or answers, has no quiet
\* approval to disturb.
LEMMA NoQuietApproval ==
  ASSUME Inv, NEW s \in Screens, turn[s].at \notin {"idle", "request"}
  PROVE  quiet => c.approved = 0 /\ ui.approving = 0
BY DEF Inv, ApprovalInv, Idle

LEMMA AnswerKeeps ==
  ASSUME Inv, NEW s \in Screens, Answer(s)
  PROVE  Kept'
<1>1. turn[s].at = "answer" /\ UNCHANGED <<sessions, draft, runs, ui, fleet, crossed, quiet>>
  BY DEF Answer, past
<1>2. c \in Controls /\ questions \in [1..MaxRequests -> Nat] /\ draft \in [1..MaxRequests -> Nat]
      /\ c.session \in 0..MaxRequests /\ sessions \in Nat /\ c.session <= sessions
  BY DEF Inv, TypeOK, Controls, SessionsInv
<1>3. quiet => c.approved = 0 /\ ui.approving = 0
  BY <1>1, NoQuietApproval
<1>4. CASE c.session = 0 \/ questions[c.session] = 0
  <2>1. GoTurn(s, "idle", 0) /\ UNCHANGED <<c, questions>>
    BY <1>4 DEF Answer
  <2>2. SessionsInv' /\ TurnsInv'
    BY <1>1, <2>1, TurnKeepsTurns DEF data
  <2>3. ApprovalInv' /\ RunningIsAlive'
    BY <1>1, <1>3, <2>1, TurnKeepsApproval
  <2> QED BY <2>2, <2>3 DEF Kept
<1>5. CASE c.session # 0 /\ questions[c.session] # 0
  <2>1. questions' = [questions EXCEPT ![c.session] = @ - 1] /\ c.session \in 1..sessions
        /\ c.session \in 1..MaxRequests
    BY <1>2, <1>5 DEF Answer
  <2>2. c'.session = c.session => SessionsInv'
    BY <1>1, <1>2, <2>1 DEF Inv, SessionsInv
  <2>3. \A n \in 1..MaxRequests : n # c.session => questions'[n] = questions[n]
    BY <1>2, <2>1
  <2>4. c.session \notin crossed => \A r \in Screens : ~ Asked(r, c.session)
    BY <1>5, <2>1 DEF Inv, TurnsInv
  <2>5. CASE questions[c.session] = 1
    <3>1. c' = [c EXCEPT !.state = "PLANNING", !.session = c.session] /\ GoTurn(s, "leader", c.session)
      BY <1>5, <2>5 DEF Answer, AskLeader
    <3>2. c'.state = "PLANNING" /\ c'.session = c.session /\ c'.approved = c.approved
          /\ c'.monitor = c.monitor
      BY <1>2, <3>1 DEF Controls
    <3>3. questions'[c.session] = 0
      BY <1>2, <2>1, <2>5
    <3>4. /\ turn'[s].at = "leader" /\ turn'[s].about = c.session
          /\ \A r \in Screens : r # s => turn'[r] = turn[r]
      BY <1>2, <3>1, TurnTypes DEF Inv
    <3>5. \A r \in Screens : turn'[r].at = "leader" => turn'[r].about \in 1..sessions'
      BY <1>1, <2>1, <3>4 DEF Inv, TurnsInv
    <3>6. ASSUME NEW n \in 1..MaxRequests, NEW r \in Screens, NEW q \in Screens,
                 n \notin crossed', Asked(r, n)', Asked(q, n)'
          PROVE  r = q /\ questions'[n] = 0
      <4>1. CASE n = c.session
        BY <1>1, <2>4, <3>3, <3>4, <3>6, <4>1 DEF Asked
      <4>2. CASE n # c.session
        BY <1>1, <2>3, <3>4, <3>6, <4>2 DEF Asked, Inv, TurnsInv
      <4> QED BY <4>1, <4>2
    <3>7. c'.session \notin crossed' =>
            \A r \in Screens : turn'[r].at = "leader" => turn'[r].about = c'.session
      BY <1>1, <1>5, <3>2, <3>4 DEF Inv, TurnsInv
    <3>8. TurnsInv'
      BY <3>5, <3>6, <3>7 DEF TurnsInv
    <3>9. ApprovalInv' /\ RunningIsAlive'
      BY <1>1, <1>2, <1>3, <3>1, <3>2, TurnKeepsApproval
    <3> QED BY <2>2, <3>2, <3>8, <3>9 DEF Kept
  <2>6. CASE questions[c.session] # 1
    <3>1. GoTurn(s, "idle", 0) /\ UNCHANGED c
      BY <1>5, <2>6 DEF Answer
    <3>2. turn'[s].at = "idle" /\ \A r \in Screens : r # s => turn'[r] = turn[r]
      BY <3>1, TurnTypes DEF Inv
    <3>3. \A r \in Screens : turn'[r].at = "leader" => turn'[r] = turn[r]
      BY <3>2
    <3>4. TurnsInv'
      BY <1>1, <2>3, <2>4, <3>1, <3>3 DEF Inv, TurnsInv, Asked
    <3>5. ApprovalInv' /\ RunningIsAlive'
      BY <1>1, <1>3, <3>1, TurnKeepsApproval
    <3> QED BY <2>2, <3>1, <3>4, <3>5 DEF Kept
  <2> QED BY <2>5, <2>6
<1> QED BY <1>4, <1>5

LEMMA RefusedKeeps ==
  ASSUME Inv, NEW s \in Screens, RequestRefused(s)
  PROVE  Kept'
<1>1. /\ turn[s].at = "request" /\ GoTurn(s, "idle", 0)
      /\ UNCHANGED <<data, runs, ui, fleet, crossed, quiet>>
  BY DEF RequestRefused, past
<1>2. c \in Controls
  BY DEF Inv, TypeOK, Controls
<1>3. /\ c'.session = c.session /\ c'.approved = c.approved /\ c'.monitor = c.monitor
      /\ c'.state \in {c.state, "PLAN_READY", "SETUP"}
  BY <1>2 DEF RequestRefused, Controls
<1>4. Plan' = Plan
  BY <1>1, <1>3 DEF Plan, data
<1>5. SessionsInv' /\ TurnsInv'
  BY <1>1, <1>3, TurnKeepsTurns
<1>6. quiet /\ c'.approved # 0 => c'.state # "NEEDS_ANSWER"
  BY <1>3 DEF Inv, ApprovalInv
<1>7. c'.state = "RUNNING" => c.state = "RUNNING"
  BY <1>3
<1>8. ApprovalInv' /\ RunningIsAlive'
  BY <1>1, <1>3, <1>4, <1>6, <1>7, TurnKeepsApproval
<1> QED BY <1>5, <1>8 DEF Kept

LEMMA ClearsKeeps ==
  ASSUME Inv, NEW s \in Screens, RequestClears(s)
  PROVE  Kept'
<1>1. /\ turn[s].at = "request" /\ GoTurn(s, "cleared", 0)
      /\ UNCHANGED <<data, runs, ui, fleet, crossed, quiet>>
  BY DEF RequestClears, past
<1>2. c'.session = c.session /\ c'.approved = 0 /\ c'.state = c.state
  BY DEF Inv, TypeOK, RequestClears
<1>3. SessionsInv' /\ TurnsInv'
  BY <1>1, <1>2, TurnKeepsTurns
<1>4. quiet => ui.approving = 0
  BY <1>1 DEF Inv, ApprovalInv, Idle
<1>5. ApprovalInv' /\ RunningIsAlive'
  BY <1>1, <1>2, <1>4, TurnKeepsApproval
<1> QED BY <1>3, <1>5 DEF Kept

LEMMA SessionKeeps ==
  ASSUME Inv, NEW s \in Screens, OpenSession(s)
  PROVE  Kept'
<1>1. /\ turn[s].at = "cleared" /\ UNCHANGED <<questions, draft, runs, ui, fleet, quiet>>
      /\ sessions \in Nat /\ MaxRequests \in Nat
  BY ControllerAssumption DEF OpenSession, Inv, TypeOK
<1>2. quiet => c.approved = 0 /\ ui.approving = 0
  BY <1>1, NoQuietApproval
<1>3. CASE GoTurn(s, "idle", 0) /\ UNCHANGED <<c, sessions, crossed>>
  <2>1. SessionsInv' /\ TurnsInv'
    BY <1>1, <1>3, TurnKeepsTurns DEF data
  <2>2. ApprovalInv' /\ RunningIsAlive'
    BY <1>1, <1>2, <1>3, TurnKeepsApproval
  <2> QED BY <2>1, <2>2 DEF Kept
<1>4. CASE /\ sessions < MaxRequests /\ sessions' = sessions + 1 /\ AskLeader(s, sessions + 1)
           /\ crossed' = IF \E r \in Screens : turn[r].at = "leader"
                         THEN crossed \cup {sessions + 1} ELSE crossed
  <2> DEFINE n0 == sessions + 1
  <2>1. c' = [c EXCEPT !.state = "PLANNING", !.session = n0] /\ GoTurn(s, "leader", n0)
    BY <1>4 DEF AskLeader
  <2>2. /\ c'.state = "PLANNING" /\ c'.session = n0 /\ c'.approved = c.approved
        /\ c'.monitor = c.monitor
    BY <1>1, <1>4, <2>1 DEF Inv, TypeOK
  <2>3. n0 \in 1..MaxRequests /\ n0 \in Nat /\ n0 # 0 /\ sessions' = n0
    BY <1>1, <1>4
  <2>4. questions'[n0] = 0 /\ draft'[n0] = 0 /\ n0 \notin 1..sessions /\ n0 \notin crossed
    BY <1>1, <2>3 DEF Inv, SessionsInv, TypeOK
  <2>5. crossed \subseteq crossed' /\ \A n \in 1..sessions : n \in crossed' => n \in crossed
    BY <1>4, <2>4
  <2>6. SessionsInv'
    BY <1>1, <1>4, <2>2, <2>5 DEF Inv, SessionsInv
  <2>7. /\ turn'[s].at = "leader" /\ turn'[s].about = n0
        /\ \A r \in Screens : r # s => turn'[r] = turn[r]
    BY <2>1, <2>3, TurnTypes DEF Inv
  <2>8. \A r \in Screens : r # s /\ turn'[r].at = "leader" =>
            turn[r].about \in 1..sessions /\ turn'[r].about = turn[r].about /\ turn[r].at = "leader"
    BY <2>7 DEF Inv, TurnsInv
  <2>9. \A r \in Screens : turn'[r].at = "leader" => turn'[r].about \in 1..sessions'
    <3>1. \A m \in 1..sessions : m \in 1..n0
      BY <1>1
    <3> QED BY <2>3, <2>7, <2>8, <3>1
  <2>10. ASSUME NEW n \in 1..MaxRequests, NEW r \in Screens, NEW q \in Screens,
                n \notin crossed', Asked(r, n)', Asked(q, n)'
         PROVE  r = q /\ questions'[n] = 0
    <3>1. CASE n = n0
      BY <2>4, <2>7, <2>8, <2>10, <3>1 DEF Asked
    <3>2. CASE n # n0
      <4>1. r # s /\ q # s
        BY <2>7, <2>10, <3>2 DEF Asked
      <4>2. n \notin crossed /\ Asked(r, n) /\ Asked(q, n)
        BY <2>5, <2>7, <2>10, <4>1 DEF Asked
      <4> QED BY <1>1, <4>2 DEF Inv, TurnsInv
    <3> QED BY <3>1, <3>2
  <2>11. c'.session \notin crossed' =>
            \A r \in Screens : turn'[r].at = "leader" => turn'[r].about = c'.session
    <3>1. c'.session \notin crossed' => \A r \in Screens : turn[r].at # "leader"
      BY <1>4, <2>2
    <3> QED BY <2>2, <2>7, <3>1
  <2> HIDE DEF n0
  <2>12. TurnsInv'
    BY <2>9, <2>10, <2>11 DEF TurnsInv
  <2>13. ApprovalInv' /\ RunningIsAlive'
    BY <1>1, <1>2, <2>1, <2>2, <2>3, TurnKeepsApproval
  <2> QED BY <2>6, <2>12, <2>13 DEF Kept
<1> QED BY <1>3, <1>4 DEF OpenSession

LEMMA RespondKeeps ==
  ASSUME Inv, NEW s \in Screens, Respond(s)
  PROVE  Kept'
<1>1. /\ turn[s].at = "leader" /\ GoTurn(s, "idle", 0)
      /\ UNCHANGED <<sessions, runs, fleet, crossed, quiet>>
  BY DEF Respond, past
<1>2. /\ c \in Controls /\ questions \in [1..MaxRequests -> Nat] /\ draft \in [1..MaxRequests -> Nat]
      /\ c.session \in 0..MaxRequests /\ c.session <= sessions /\ sessions \in Nat
      /\ ui \in Windows
  BY Held DEF Inv, TypeOK, Controls, SessionsInv
<1>3. quiet => c.approved = 0 /\ ui.approving = 0
  BY <1>1, NoQuietApproval
<1>4. turn'[s].at = "idle" /\ \A r \in Screens : r # s => turn'[r] = turn[r]
  BY <1>1, TurnTypes DEF Inv
<1>5. \A r \in Screens : turn'[r].at = "leader" => r # s /\ turn'[r] = turn[r]
  BY <1>4
<1>6. CASE c.session = 0
  <2>1. ui' = [ui EXCEPT !.exited = TRUE] /\ UNCHANGED <<c, questions, draft>>
    BY <1>6 DEF Respond
  <2>2. ui'.approving = ui.approving /\ ui'.exited
    BY <1>2, <2>1 DEF Windows
  <2>3. SessionsInv' /\ TurnsInv'
    BY <1>1, <2>1, TurnKeepsTurns DEF data
  <2>4. ApprovalInv' /\ RunningIsAlive'
    BY <1>1, <1>3, <2>1, <2>2, TurnKeepsApproval
  <2> QED BY <2>3, <2>4 DEF Kept
<1>7. CASE c.session # 0
  <2>1. ui' = ui /\ c'.session = c.session /\ c'.approved = c.approved /\ c'.monitor = c.monitor
        /\ c'.state # "RUNNING" /\ c.session \in 1..MaxRequests
    BY <1>2, <1>7 DEF Respond, Controls
  <2>2. c.session \notin crossed => turn[s].about = c.session
    BY <1>1, <1>7 DEF Inv, TurnsInv
  <2>3. draft' = draft \/ draft' = [draft EXCEPT ![c.session] = turn[s].about]
    BY <1>7 DEF Respond
  <2>4. \A n \in 1..MaxRequests : n # c.session => questions'[n] = questions[n] /\ draft'[n] = draft[n]
    BY <1>2, <1>7 DEF Respond
  <2>5. c.session \notin crossed => draft'[c.session] \in {draft[c.session], c.session}
    BY <1>2, <2>1, <2>2, <2>3
  <2>6. SessionsInv'
    <3>1. ASSUME NEW n \in 1..MaxRequests PROVE n > sessions => n # c.session
      BY <1>2
    <3> QED BY <1>1, <1>2, <2>1, <2>4, <2>5, <3>1 DEF Inv, SessionsInv
  <2>7. c.session \notin crossed => \A r \in Screens : ~ Asked(r, c.session)'
    <3> SUFFICES ASSUME c.session \notin crossed, NEW r \in Screens, Asked(r, c.session)'
                 PROVE  FALSE
      BY <2>1
    <3>1. r # s /\ Asked(r, c.session) /\ Asked(s, c.session)
      BY <1>1, <1>5, <2>1, <2>2 DEF Asked
    <3> QED BY <2>1, <3>1 DEF Inv, TurnsInv
  <2>8. TurnsInv'
    BY <1>1, <1>5, <2>1, <2>4, <2>7 DEF Inv, TurnsInv, Asked
  <2>9. ApprovalInv' /\ RunningIsAlive'
    BY <1>1, <1>3, <2>1, TurnKeepsApproval
  <2> QED BY <2>6, <2>8, <2>9 DEF Kept
<1> QED BY <1>6, <1>7

\* Steps that leave conversations and turns alone.
LEMMA OthersKeepTurns ==
  ASSUME Inv, UNCHANGED <<data, turn, crossed>>, c'.session \in {0, c.session}
  PROVE  SessionsInv' /\ TurnsInv'
<1>1. c'.session <= sessions
  BY DEF Inv, TypeOK, SessionsInv
<1> QED BY <1>1 DEF Inv, SessionsInv, TurnsInv, Asked, data

\* Steps of the windows alone.
LEMMA WindowsKeep ==
  ASSUME Inv, UNCHANGED <<data, runs, turn, fleet, past>>, ui'.approving = ui.approving,
         ui.exited => ui'.exited,
         c'.state = c.state, c'.session = c.session, c'.approved = c.approved, c'.monitor = c.monitor
  PROVE  Kept'
<1>1. Plan' = Plan
  BY DEF Plan, data
<1>2. SessionsInv' /\ TurnsInv'
  BY OthersKeepTurns DEF past
<1>3. ApprovalInv'
  BY <1>1 DEF Inv, ApprovalInv, Idle, past
<1>4. RunningIsAlive'
  BY DEF Inv, RunningIsAlive
<1> QED BY <1>2, <1>3, <1>4 DEF Kept

LEMMA ScreensKeep ==
  ASSUME Inv, NEW s \in Screens, NEW what \in {"cancel", "back", "quit"},
         Settings(s) \/ Continue(s) \/ LeaveSettings \/ Quit \/ Ask(what) \/ Decline \/ Confirm
  PROVE  Kept'
<1>1. UNCHANGED <<data, runs, turn, fleet, past>>
  BY DEF Settings, Continue, LeaveSettings, Quit, Ask, Decline, Confirm
<1>2. ui \in Windows /\ c \in Controls /\ ~ ui.exited
  BY Held DEF Inv, Settings, Continue, LeaveSettings, Quit, Ask, Decline, Confirm, On, Free, Present
<1>3. ui'.approving = ui.approving
  BY <1>2 DEF Settings, Continue, Push, LeaveSettings, Quit, Ask, Decline, Confirm, Windows
<1>4. c'.state = c.state /\ c'.session = c.session /\ c'.approved = c.approved /\ c'.monitor = c.monitor
  BY <1>2 DEF Settings, Continue, LeaveSettings, Quit, Ask, Decline, Confirm, Controls
<1> QED BY <1>1, <1>2, <1>3, <1>4, WindowsKeep

LEMMA ApproveKeeps ==
  ASSUME Inv, NEW s \in Screens, Approve(s)
  PROVE  Kept'
<1>1. UNCHANGED <<c, data, runs, turn, fleet, crossed>> /\ c.approved = 0
  BY DEF Approve
<1>2. ui'.approving = Plan /\ ui'.exited = ui.exited
  BY DEF Approve, Inv, TypeOK
<1>3. Plan' = Plan
  BY <1>1 DEF Plan, data
<1>4. SessionsInv' /\ TurnsInv'
  BY <1>1, OthersKeepTurns
<1>5. quiet' => \A r \in Screens : Idle(r)'
  BY <1>1, Zenon DEF Approve, Idle
<1>6. ApprovalInv'
  BY <1>1, <1>2, <1>3, <1>5 DEF ApprovalInv
<1>7. RunningIsAlive'
  BY <1>1, <1>2 DEF Inv, RunningIsAlive
<1> QED BY <1>4, <1>6, <1>7 DEF Kept

LEMMA ApprovedKeeps ==
  ASSUME Inv, Approved
  PROVE  Kept'
<1>1. /\ ui.approving # 0 /\ ~ ui.exited /\ UNCHANGED <<data, turn, fleet, crossed, quiet>>
      /\ quiet => ui.approving = Plan /\ \A s \in Screens : Idle(s)
  BY DEF Approved, Inv, ApprovalInv, past
<1>2. c \in Controls /\ ui \in Windows /\ runs \in Seq(Runs) /\ Len(runs) \in Nat /\ ui.approving \in Nat
  BY Held DEF Inv, Windows
<1>3. /\ c'.session = c.session /\ c'.approved = Len(runs) + 1
      /\ ui'.approving = 0 /\ ui'.exited = (Plan = 0)
      /\ Plan # 0 => c'.state = "AWAITING_START" /\ c'.monitor = Len(runs) + 1
  BY <1>1, <1>2 DEF Approved, Controls, Windows
<1>4. Plan' = Plan
  BY <1>1, <1>3 DEF Plan, data
<1>5. Len(runs) + 1 \in DOMAIN runs' /\ runs'[Len(runs) + 1].plan = ui.approving
  <2> DEFINE run == [plan |-> ui.approving, status |-> "waiting"]
  <2>1. runs' = Append(runs, run) /\ run \in Runs /\ run.plan = ui.approving
    BY <1>2 DEF Approved, Runs
  <2> HIDE DEF run
  <2> QED BY <1>2, <2>1
<1>6. SessionsInv' /\ TurnsInv'
  BY <1>1, <1>3, OthersKeepTurns
<1>7. quiet => Plan # 0 /\ \A s \in Screens : turn'[s].at \in {"idle", "request"}
  BY <1>1 DEF Idle
<1>8. ApprovalInv'
  BY <1>1, <1>2, <1>3, <1>4, <1>5, <1>7 DEF ApprovalInv
<1>9. RunningIsAlive'
  BY <1>1, <1>3 DEF RunningIsAlive
<1> QED BY <1>6, <1>8, <1>9 DEF Kept

LEMMA NotApprovedKeeps ==
  ASSUME Inv, NotApproved
  PROVE  Kept'
<1>1. UNCHANGED <<c, data, runs, turn, fleet, crossed, quiet>> /\ ui'.approving = 0 /\ ui'.exited
  BY DEF NotApproved, Inv, TypeOK, past
<1>2. Plan' = Plan
  BY <1>1 DEF Plan, data
<1>3. SessionsInv' /\ TurnsInv'
  BY <1>1, OthersKeepTurns
<1>4. ApprovalInv'
  BY <1>1, <1>2 DEF Inv, ApprovalInv
<1>5. RunningIsAlive'
  BY <1>1 DEF RunningIsAlive
<1> QED BY <1>3, <1>4, <1>5 DEF Kept

LEMMA StartKeeps ==
  ASSUME Inv, NEW s \in Screens, StartFleet(s)
  PROVE  Kept'
<1>1. /\ UNCHANGED <<data, runs, turn, crossed, quiet>> /\ c.approved # 0 /\ c.monitor # 0
      /\ ui.approving = 0
  BY DEF StartFleet, On, Free, Present, past
<1>2. ui \in Windows /\ c \in Controls
  BY Held DEF Inv
<1>3. /\ c'.session = c.session /\ c'.approved = c.approved /\ c'.monitor = c.monitor /\ c'.state = "RUNNING"
      /\ ui'.approving = 0 /\ fleet'.at = "starting"
  BY <1>1, <1>2 DEF StartFleet, Push, NoFleet, Controls, Windows
<1>4. Plan' = Plan
  BY <1>1, <1>3 DEF Plan, data
<1>5. SessionsInv' /\ TurnsInv'
  BY <1>1, <1>3, OthersKeepTurns
<1>6. ApprovalInv'
  BY <1>1, <1>3, <1>4 DEF Inv, ApprovalInv
<1>7. RunningIsAlive'
  BY <1>3 DEF RunningIsAlive
<1> QED BY <1>5, <1>6, <1>7 DEF Kept

LEMMA NewKeeps ==
  ASSUME Inv, NEW s \in Screens, New(s)
  PROVE  Kept'
<1>1. UNCHANGED <<data, runs, ui, turn, fleet, crossed, quiet>> /\ ui.approving = 0
  BY DEF New, On, Free, Present, past
<1>2. c'.state = "SETUP" /\ c'.session = 0 /\ c'.approved = 0
  BY DEF New
<1>3. SessionsInv' /\ TurnsInv'
  BY <1>1, <1>2, OthersKeepTurns
<1>4. ApprovalInv' /\ RunningIsAlive'
  BY <1>1, <1>2 DEF ApprovalInv, RunningIsAlive
<1> QED BY <1>3, <1>4 DEF Kept

-----------------------------------------------------------------------------
(* The fleet's thread.                                                     *)

FleetActs == FleetBegins \/ FleetHears \/ InterpreterEnds \/ \E verdict \in Verdicts : FleetEnds(verdict)

\* What it may do: hear of a cancellation, or mark a run and show its end.
LEMMA FleetActsAre ==
  ASSUME Inv, FleetActs
  PROVE  /\ UNCHANGED <<data, ui, turn, past>> /\ fleet' \in Fleets
         /\ \/ c' = c /\ (fleet'.at # "none" \/ c.approved = 0 \/ ui.exited)
            \/ \E st \in {"FINISHED", "CANCELLED", "FAILED"} : c' = [c EXCEPT !.state = st]
         /\ \/ runs' = runs
            \/ \E n \in Nat, status \in {"waiting", "open"} \cup Verdicts :
                  runs' = [runs EXCEPT ![n].status = status]
<1>1. fleet \in Fleets /\ c \in Controls
  BY Held DEF Inv
<1>2. CASE FleetBegins
  <2>1. c.approved \in Nat /\ (c.monitor = 0 => c.approved = 0 \/ ui.exited)
    BY <1>1, <1>2 DEF FleetBegins, Inv, ApprovalInv, Controls
  <2>2. UNCHANGED <<data, ui, turn, past>> /\ NoFleet \in Fleets
    BY <1>2 DEF FleetBegins, NoFleet, Fleets
  <2>3. CASE fleet' = NoFleet /\ c' = [c EXCEPT !.state = "FAILED"] /\ UNCHANGED runs
    BY <2>2, <2>3
  <2>4. CASE /\ fleet' = [fleet EXCEPT !.at = "running", !.run = c.approved]
             /\ runs' = [runs EXCEPT ![c.approved].status = "open"] /\ UNCHANGED c
    <3>1. fleet' \in Fleets /\ fleet'.at = "running"
      BY <1>1, <2>1, <2>4 DEF Fleets
    <3> QED BY <2>1, <2>2, <2>4, <3>1
  <2>5. CASE (c.approved = 0 \/ c.monitor = 0) /\ fleet' = NoFleet /\ UNCHANGED <<c, runs>>
    BY <2>1, <2>2, <2>5
  <2> QED BY <1>2, <2>3, <2>4, <2>5 DEF FleetBegins
<1>3. CASE FleetHears
  <2>1. fleet' \in Fleets /\ fleet'.at = "running"
    BY <1>1, <1>3 DEF FleetHears, Fleets
  <2> QED BY <1>3, <2>1 DEF FleetHears
<1>4. CASE InterpreterEnds
  <2>1. fleet' \in Fleets /\ fleet'.at = "killed"
    BY <1>1, <1>4 DEF InterpreterEnds, Fleets
  <2> QED BY <1>4, <2>1 DEF InterpreterEnds
<1>5. ASSUME NEW verdict \in Verdicts, FleetEnds(verdict)
      PROVE  /\ UNCHANGED <<data, ui, turn, past>> /\ fleet' \in Fleets
             /\ \E st \in {"FINISHED", "CANCELLED", "FAILED"} : c' = [c EXCEPT !.state = st]
             /\ \E n \in Nat, status \in {"waiting", "open"} \cup Verdicts :
                   runs' = [runs EXCEPT ![n].status = status]
  <2>1. fleet' \in Fleets
    BY <1>5 DEF FleetEnds, NoFleet, Fleets
  <2>2. ShownAs[verdict] \in {"FINISHED", "CANCELLED", "FAILED"}
    BY DEF Verdicts, ShownAs
  <2>3. fleet.run \in Nat
    BY <1>1 DEF Fleets
  <2> QED BY <1>5, <2>1, <2>2, <2>3 DEF FleetEnds
<1> QED BY <1>2, <1>3, <1>4, <1>5 DEF FleetActs

LEMMA FleetKeeps ==
  ASSUME Inv, FleetActs
  PROVE  TypeOK' /\ Kept'
<1>1. /\ UNCHANGED <<data, ui, turn, past>> /\ fleet' \in Fleets
      /\ \/ c' = c /\ (fleet'.at # "none" \/ c.approved = 0 \/ ui.exited)
         \/ \E st \in {"FINISHED", "CANCELLED", "FAILED"} : c' = [c EXCEPT !.state = st]
      /\ \/ runs' = runs
         \/ \E n \in Nat, status \in {"waiting", "open"} \cup Verdicts :
               runs' = [runs EXCEPT ![n].status = status]
  BY FleetActsAre
<1>2. c \in Controls /\ ui \in Windows /\ runs \in Seq(Runs)
  BY Held DEF Inv
<1>3. /\ c' \in Controls /\ c'.session = c.session /\ c'.approved = c.approved
      /\ c'.monitor = c.monitor
      /\ c'.state \in {c.state, "FINISHED", "CANCELLED", "FAILED"}
      /\ c'.state = "RUNNING" => fleet'.at # "none" \/ c.approved = 0 \/ ui.exited
  BY <1>1, <1>2 DEF Controls, States
<1>4. runs' \in Seq(Runs) /\ DOMAIN runs' = DOMAIN runs /\ \A m \in DOMAIN runs : runs'[m].plan = runs[m].plan
  BY <1>1, <1>2, MarkTypes DEF Inv
<1>5. Plan' = Plan
  BY <1>1, <1>3 DEF Plan, data
<1>6. TypeOK'
  BY <1>1, <1>2, <1>3, <1>4, OtherStepTypes DEF Inv, TypeOK, past
<1>7. SessionsInv' /\ TurnsInv'
  BY <1>1, <1>3, OthersKeepTurns DEF past
<1>8. ApprovalInv'
  BY <1>1, <1>3, <1>4, <1>5 DEF Inv, ApprovalInv, Idle, past
<1>9. RunningIsAlive'
  BY <1>1, <1>3 DEF RunningIsAlive
<1> QED BY <1>6, <1>7, <1>8, <1>9 DEF Kept

LEMMA InvStep == Inv /\ [Next]_vars => Inv'
<1> SUFFICES ASSUME Inv, [Next]_vars
             PROVE  Inv'
  OBVIOUS
<1>0. TypeOK' /\ Kept' => Inv'
  BY DEF Inv, Kept
<1>1. ASSUME NEW s \in Screens, Submit(s) \/ Turn(s) PROVE Inv'
  BY <1>0, <1>1, TurnStepTypes, SubmitKeeps, AnswerKeeps, RefusedKeeps, ClearsKeeps, SessionKeeps,
     RespondKeeps DEF Turn, Inv
<1>2. ASSUME NEW s \in Screens, Approve(s) \/ StartFleet(s) \/ New(s) PROVE Inv'
  BY <1>0, <1>2, UserTypes, ApproveKeeps, StartKeeps, NewKeeps DEF Inv
<1>3. ASSUME NEW s \in Screens, Settings(s) \/ Continue(s) PROVE Inv'
  BY <1>0, <1>3, UserTypes, ScreensKeep DEF Inv
<1>4. CASE LeaveSettings \/ Quit
  <2>1. /\ ui'.approving = ui.approving /\ (ui.exited => ui'.exited)
        /\ UNCHANGED <<c, data, runs, turn, fleet, past>>
    BY <1>4 DEF LeaveSettings, Quit, Inv, TypeOK, On, Free, Present
  <2>2. ui' \in Windows
    BY <1>4, Held, StackTypes, WindowUpdates DEF Inv, LeaveSettings, Quit
  <2>3. TypeOK'
    BY <2>1, <2>2, Held, OtherStepTypes DEF Inv, past, TypeOK
  <2> QED BY <1>0, <2>1, <2>3, WindowsKeep
<1>5. CASE Approved \/ NotApproved
  BY <1>0, <1>5, ApprovedTypes, ApprovedKeeps, NotApprovedKeeps DEF Inv
<1>6. CASE (\E what \in {"cancel", "back", "quit"} : Ask(what)) \/ Decline \/ Confirm
  <2>1. TypeOK'
    BY <1>6, DialogTypes DEF Inv
  <2>2. /\ UNCHANGED <<data, runs, turn, fleet, past>> /\ ui'.approving = ui.approving
        /\ ui.exited => ui'.exited
        /\ c'.state = c.state /\ c'.session = c.session /\ c'.approved = c.approved /\ c'.monitor = c.monitor
    BY <1>6 DEF Ask, Decline, Confirm, Inv, TypeOK, On, Free, Present
  <2> QED BY <1>0, <2>1, <2>2, WindowsKeep
<1>7. CASE FleetActs
  BY <1>0, <1>7, FleetKeeps
<1>8. CASE UNCHANGED vars
  <2>1. UNCHANGED <<c, data, runs, ui, turn, fleet, past>>
    BY <1>8 DEF vars
  <2>2. TypeOK'
    BY <2>1, Held, OtherStepTypes DEF Inv, past, TypeOK
  <2> QED BY <1>0, <2>1, <2>2, WindowsKeep
<1> QED BY <1>1, <1>2, <1>3, <1>4, <1>5, <1>6, <1>7, <1>8 DEF Next, FleetActs, Verdicts

-----------------------------------------------------------------------------
(* The theorems.                                                           *)

\* Turns, approvals and starts leave each other alone as far as the invariant
\* says, for any number of screens and whatever the user presses when.
THEOREM ControllerCorrect == Spec => []Inv
<1>1. Inv /\ [Next]_vars => Inv'
  BY InvStep
<1> QED BY InitInv, <1>1, PTL DEF Spec

\* The Leader is asked only when every question is answered, and a draft is
\* the answer to its own conversation's request (start_request, answer), unless
\* the conversation was opened while the Leader was at work on another.
THEOREM TurnsAreInOrder == Spec => []TurnsInOrder
<1>1. Inv => TurnsInOrder
  <2> SUFFICES ASSUME Inv, NEW n \in 1..MaxRequests, n \notin crossed
               PROVE  /\ draft[n] \in {0, n}
                      /\ \A s \in Screens :
                           turn[s] = [at |-> "leader", about |-> n] => questions[n] = 0
    BY DEF TurnsInOrder
  <2>1. draft[n] \in {0, n}
    BY DEF Inv, SessionsInv
  <2>2. ASSUME NEW s \in Screens, turn[s] = [at |-> "leader", about |-> n] PROVE Asked(s, n)
    BY <2>2 DEF Asked
  <2>3. \A s \in Screens : Asked(s, n) => questions[n] = 0
    BY DEF Inv, TurnsInv
  <2> QED BY <2>1, <2>2, <2>3
<1> QED BY <1>1, ControllerCorrect, PTL

\* RUNNING is shown without a fleet thread only after a request has cleared the
\* approval between Start and the thread's own look at it: _run_fleet sets
\* another state on each of its other ways out.
THEOREM RunningMeansAlive == Spec => []RunningIsAlive
<1>1. Inv => RunningIsAlive
  BY DEF Inv
<1> QED BY <1>1, ControllerCorrect, PTL

\* What Start finds approved, and _run_fleet when it reads it again, is the plan
\* of the open conversation, if Approve was pressed with no turn under way:
\* every turn that comes later begins by clearing the approval.
THEOREM ApprovalIsOfTheShownPlan == Spec => []ApprovedIsShown
<1>1. Inv => ApprovedIsShown
  BY DEF Inv, ApprovalInv, ApprovedIsShown
<1> QED BY <1>1, ControllerCorrect, PTL
=============================================================================
