--------------------------- MODULE Conversation ---------------------------
(***************************************************************************)
(* The prompt shell: personal preferences, the settings in force, and one  *)
(* planning conversation with the selected Leader (shell.py, planning.py,  *)
(* settings.py, preferences.py).  The shell does one thing at a time; the  *)
(* repository, the preferences file, the project's configuration and the   *)
(* installed CLIs change under it at any time.                             *)
(*                                                                         *)
(* A selection, a provider with a model, is a model value.  The questions  *)
(* of a conversation are numbered as the Leader asks them, and Plans are   *)
(* those it may propose.                                                   *)
(***************************************************************************)
EXTENDS PlanValidation

CONSTANTS Selections,   \* what a Leader or a Worker may be chosen from
          Leaders,      \* those of them a Leader adapter exists for
          None,         \* no file, no session, no draft
          Unreadable,   \* preferences that cannot be parsed
          Limits,       \* limits of Workers a project may set
          MaxQuestions, \* bound: questions in one response
          MaxTurns,     \* bound: requests to a Leader
          MaxCommits,   \* bound: commits of the repository
          MaxEdits      \* bound: changes of files and installed CLIs

ASSUME ConversationAssumption ==
    /\ Leaders \subseteq Selections
    /\ Limits \subseteq Nat \ {0}
    /\ MaxQuestions \in Nat /\ MaxTurns \in Nat /\ MaxCommits \in Nat \ {0} /\ MaxEdits \in Nat

VARIABLES
    head,      \* the commit the repository is at
    file,      \* the preferences file: preferences, Unreadable, or None
    project,   \* .patchfleet/config.yaml: its limit, 0 when absent or unusable
    installed, \* the selections whose CLI is installed and capable
    pc,        \* where the shell is
    settings,  \* the settings in force
    statuses,  \* the selections the last discovery found
    offered,   \* those the setup or the editor offers
    session,   \* the planning session
    seen,      \* commits the Leader was shown in the turn under way
    back,      \* has HEAD come back to the session's commit in that turn?
    budget     \* turns and edits so far

world == <<head, file, project, installed>>
vars == <<world, pc, settings, statuses, offered, session, seen, back, budget>>

Preferences == [leader : Selections, workers : (SUBSET Selections) \ {{}}, max : {1}]
Proposals == [leader : Selections, users : SUBSET Selections, plan : Plans, explained : BOOLEAN]

Spend(what, limit) == budget[what] < limit /\ budget' = [budget EXCEPT ![what] = @ + 1]
----------------------------------------------------------------------------
(* Preferences and settings.                                               *)

\* resolve_settings: preferences name the Leader and the Workers, a usable
\* project configuration overrides the number of Workers.
Resolve(prefs) ==
    IF prefs = None
    THEN [leader |-> None, workers |-> {}, max |-> IF project = 0 THEN 1 ELSE project]
    ELSE [prefs EXCEPT !.max = IF project = 0 THEN @ ELSE project]

\* run_shell begins, or resumes, with what was resolved and discovered.
InForce(prefs) == settings' = Resolve(prefs) /\ statuses' = installed /\ UNCHANGED offered

\* run_interactive
Start ==
    /\ pc = "start"
    /\ \/ file \in {None, Unreadable} /\ pc' = "setup"
          /\ settings' = Resolve(None) /\ offered' = installed /\ UNCHANGED statuses
       \/ file = Unreadable /\ pc' = "exited" /\ UNCHANGED <<settings, statuses, offered>>
       \/ file \in Preferences /\ pc' = "shell" /\ InForce(file)
    /\ UNCHANGED <<world, session, seen, back, budget>>

\* /settings opens the editor on the discovered providers.
Settings ==
    /\ pc = "shell"
    /\ pc' = "editor" /\ offered' = statuses
    /\ UNCHANGED <<world, settings, statuses, session, seen, back, budget>>

\* _configure_executables discovers again after an executable was entered.
Configure ==
    /\ pc \in {"setup", "editor"} /\ offered # installed
    /\ offered' = installed
    /\ UNCHANGED <<world, pc, settings, statuses, session, seen, back, budget>>

\* build_preferences, confirmed, and save_preferences: a new file replaces
\* the old one whole.  A first-run setup goes on with what it built, /settings
\* with what it then reads.
Save(prefs) ==
    /\ pc \in {"setup", "editor"}
    /\ prefs.leader \in offered \cap Leaders /\ prefs.workers \subseteq offered
    /\ file' = prefs
    /\ IF pc = "setup" THEN pc' = "shell" /\ InForce(prefs)
       ELSE pc' = "reload" /\ UNCHANGED <<settings, statuses, offered>>
    /\ UNCHANGED <<head, project, installed, session, seen, back, budget>>

\* Cancelled, declined, nothing to choose from, or the file cannot be written.
NotSaved ==
    /\ pc \in {"setup", "editor"}
    /\ pc' = IF pc = "setup" THEN "exited" ELSE "shell"
    /\ UNCHANGED <<world, settings, statuses, offered, session, seen, back, budget>>

\* Faulty variant: the conversation goes on under other settings
ReloadKeeping ==
    /\ pc = "reload"
    /\ pc' = "shell"
    /\ IF file \in {None, Unreadable} THEN UNCHANGED <<settings, statuses, offered, session>>
       ELSE InForce(file) /\ UNCHANGED session
    /\ UNCHANGED <<world, seen, back, budget>>

\* The settings are read back; a conversation begun under others is dropped.
Reload ==
    /\ pc = "reload"
    /\ pc' = "shell"
    /\ IF file \in {None, Unreadable} THEN UNCHANGED <<settings, statuses, offered, session>>
       ELSE InForce(file) /\ session' = None
    /\ UNCHANGED <<world, seen, back, budget>>
----------------------------------------------------------------------------
(* A turn of the Leader: _run_leader_turn and invoke_leader.               *)

TurnEnds == pc' = "shell" /\ seen' = {} /\ back' = FALSE

\* No executable, no context, too long a prompt; the Leader fails, times out,
\* is interrupted or answers at too great length: nothing of it is used.
TurnFails ==
    /\ pc \in {"prompt", "ensure", "leader", "response"}
    /\ TurnEnds
    /\ UNCHANGED <<world, settings, statuses, offered, session, budget>>

\* build_prompt inspects the repository as it is.
BuildPrompt ==
    /\ pc = "prompt"
    /\ seen' = {head}
    /\ pc' = "ensure"
    /\ UNCHANGED <<world, settings, statuses, offered, session, back, budget>>

\* _ensure_head before the Leader is started
EnsureHead ==
    /\ pc = "ensure" /\ head = session.base
    /\ Spend("turns", MaxTurns)
    /\ pc' = "leader"
    /\ UNCHANGED <<world, settings, statuses, offered, session, seen, back>>

\* The Leader reads the repository itself, until it is done.
LeaderReads ==
    /\ pc = "leader"
    /\ seen' = seen \cup {head}
    /\ pc' \in {"leader", "response"}
    /\ UNCHANGED <<world, settings, statuses, offered, session, back, budget>>

\* validate_plan_draft
Acceptable(draft) ==
    /\ Valid(draft.plan)
    /\ draft.leader = session.selected.leader
    /\ draft.users \subseteq session.selected.workers
    /\ draft.explained

\* Faulty variant: HEAD is not looked at again
RespondAnyway ==
    /\ pc = "response"
    /\ TurnEnds
    /\ \/ \E n \in 1..MaxQuestions :
            session' = [session EXCEPT
                !.pending = [i \in 1..n |-> session.asked + i], !.asked = @ + n]
       \/ \E draft \in Proposals :
            IF Acceptable(draft)
            THEN session' = [session EXCEPT
                    !.draft = draft, !.shown = seen, !.back = back, !.pending = <<>>]
            ELSE session' = [session EXCEPT !.pending = <<>>]
    /\ UNCHANGED <<world, settings, statuses, offered, budget>>

\* _ensure_head again, and apply_response: questions, a draft, or a draft that
\* is rejected.
Respond ==
    /\ pc = "response" /\ head = session.base
    /\ TurnEnds
    /\ \/ \E n \in 1..MaxQuestions :
            session' = [session EXCEPT
                !.pending = [i \in 1..n |-> session.asked + i], !.asked = @ + n]
       \/ \E draft \in Proposals :
            IF Acceptable(draft)
            THEN session' = [session EXCEPT
                    !.draft = draft, !.shown = seen, !.back = back, !.pending = <<>>]
            ELSE session' = [session EXCEPT !.pending = <<>>]
    /\ UNCHANGED <<world, settings, statuses, offered, budget>>
----------------------------------------------------------------------------
(* What the user enters: run_shell.                                        *)

\* _start_planning: a request that is refused leaves no session.
StartPlanning ==
    /\ IF settings.leader \in statuses \cap Leaders
       THEN \/ /\ session' = [selected |-> settings, base |-> head, asked |-> 0, dialogue |-> <<>>,
                              pending |-> <<>>, draft |-> None, shown |-> {}, back |-> FALSE]
               /\ pc' = "prompt"
            \/ session' = None /\ UNCHANGED pc \* no repository, an empty or too long request
       ELSE session' = None /\ UNCHANGED pc
    /\ UNCHANGED <<world, settings, statuses, offered, seen, back, budget>>

\* /new [request], or text when no question and no draft is open; what is to
\* be replaced is replaced after a confirmation.
Request == pc = "shell" /\ StartPlanning

\* Faulty variant: every answer is sent to the Leader
AnswerAtOnce ==
    /\ pc = "shell" /\ session # None /\ session.pending # <<>>
    /\ session' = [session EXCEPT !.dialogue = Append(@, Head(session.pending)),
                                  !.pending = Tail(@)]
    /\ pc' = "prompt"
    /\ UNCHANGED <<world, settings, statuses, offered, seen, back, budget>>

\* Text answers the first open question; after the last the Leader is asked.
Answer ==
    /\ pc = "shell" /\ session # None /\ session.pending # <<>>
    /\ session' = [session EXCEPT !.dialogue = Append(@, Head(session.pending)),
                                  !.pending = Tail(@)]
    /\ pc' = IF Len(session.pending) = 1 THEN "prompt" ELSE "shell"
    /\ UNCHANGED <<world, settings, statuses, offered, seen, back, budget>>

\* /cancel
Cancel ==
    /\ pc = "shell" /\ session # None
    /\ session' = None
    /\ UNCHANGED <<world, pc, settings, statuses, offered, seen, back, budget>>

\* /quit, or the end of the input while the shell waits for it
Quit ==
    /\ pc \in {"shell", "setup", "editor"}
    /\ pc' = "exited" /\ session' = None
    /\ UNCHANGED <<world, settings, statuses, offered, seen, back, budget>>
----------------------------------------------------------------------------
(* The world, and another shell's `patchfleet settings`.                   *)

\* A commit, or a checkout of any other.
MoveHead ==
    /\ head' \in (1..MaxCommits) \ {head}
    /\ back' = IF pc \in {"ensure", "leader", "response"} /\ head' = session.base
               THEN TRUE ELSE back
    /\ UNCHANGED <<file, project, installed, pc, settings, statuses, offered, session, seen, budget>>

Edit ==
    /\ Spend("edits", MaxEdits)
    /\ \/ file' \in Preferences \cup {Unreadable, None} /\ UNCHANGED <<project, installed>>
       \/ project' \in Limits \cup {0} /\ UNCHANGED <<file, installed>>
       \/ installed' \in SUBSET Selections /\ UNCHANGED <<file, project>>
    /\ UNCHANGED <<head, pc, settings, statuses, offered, session, seen, back>>

Init ==
    /\ head = 1
    /\ file \in Preferences \cup {Unreadable, None} /\ project = 0
    /\ installed = Selections
    /\ pc = "start" /\ session = None /\ seen = {} /\ back = FALSE
    /\ settings = Resolve(None) /\ statuses = {} /\ offered = {}
    /\ budget = [turns |-> 0, edits |-> 0]

Next ==
    \/ Start \/ Settings \/ Configure \/ NotSaved \/ Reload
    \/ \E prefs \in Preferences : Save(prefs)
    \/ TurnFails \/ BuildPrompt \/ EnsureHead \/ LeaderReads \/ Respond
    \/ Request \/ Answer \/ Cancel \/ Quit
    \/ MoveHead \/ Edit

Spec == Init /\ [][Next]_vars
----------------------------------------------------------------------------
(* Properties.                                                             *)

\* A conversation runs under the settings in force, whatever happened to the
\* files since, and its draft can be carried out by the selected Workers alone:
\* "every Worker/Reviewer assignment matches a user-selected Worker
\* provider/model".
DraftHonoursUser ==
    session # None =>
        /\ session.selected = settings
        /\ session.draft # None =>
             /\ Runnable(session.draft.plan.tasks)
             /\ session.draft.leader = settings.leader
             /\ session.draft.users \subseteq settings.workers

\* All the Leader was shown for a draft, by the prompt and by its own reading,
\* is of the session's commit, wherever commits and checkouts fall, unless HEAD
\* came back to that commit during the turn: "a repository HEAD change between
\* context capture and response invalidates the turn", seen by comparing HEAD
\* before the Leader starts and after it has answered.
DraftOfOneCommit ==
    session # None /\ session.draft # None =>
        session.shown = {session.base} \/ session.back

\* The Leader is asked again only when every question it asked is answered;
\* the history it gets holds each of them once and in order, and a failed or
\* rejected turn neither loses nor repeats one.  After a draft it is not asked.
RoundsInOrder ==
    session # None =>
        /\ session.dialogue \o session.pending = [n \in 1..session.asked |-> n]
        /\ pc \in {"prompt", "ensure", "leader", "response"} =>
             session.pending = <<>> /\ session.draft = None
        /\ session.draft # None => session.pending = <<>>
============================================================================
