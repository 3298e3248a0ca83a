----------------------------- MODULE Supervisor -----------------------------
(***************************************************************************)
(* supervise() of processes.py: one local process under a wall clock, a    *)
(* cancel event and an output bound.                                       *)
(*                                                                         *)
(* A coroutine only loses control where it awaits; pc names those places,  *)
(* and everything up to the next one is one action.  Between them the      *)
(* child exits, the child watcher's thread reaps it, the event loop learns *)
(* of it, pipes close, the deadline passes, and the supervising task may   *)
(* itself be cancelled.  Time is the order of these events: a timer is an  *)
(* action that may come as soon as it is armed.                            *)
(***************************************************************************)
EXTENDS Naturals

CONSTANTS
  Heirs,           \* what the child may leave behind with its pipes open: in its
                   \* process "group", or "escaped" from it
  Builds,          \* which interpreters: TRUE where Process.wait() returns only
                   \* once the pipes are closed too (CPython 3.11), FALSE where
                   \* it returns at the exit
  MaxInterrupts,   \* bound: cancellations of the supervising task
  Limit,           \* max_output_bytes
  MaxTotal         \* bound: bytes of output

ASSUME SupervisorAssumption ==
  /\ Heirs \subseteq {"group", "escaped"} /\ Builds \subseteq BOOLEAN
  /\ MaxInterrupts \in Nat /\ Limit \in Nat \ {0} /\ MaxTotal \in Nat

VARIABLES
  pipesToo,   \* the interpreter at hand, one of Builds
  child,      \* "none", "running", "zombie", "reaped" (waitpid has returned)
  code,       \* its exit code, "zero" or "nonzero"
  heir,       \* a process it left behind, "none" or one of Heirs
  eof,        \* stdout and stderr have reached their end
  seen,       \* process.returncode is not None
  waiter,     \* the waiter task: "new", "waiting", "done"
  asked,      \* cancel_event is set
  expired,    \* the deadline has passed
  pc,         \* where supervise() is
  timedOut,
  cancelled,
  handling,   \* in the except branch for CancelledError
  raising,    \* an exception is on its way through finally
  interrupts, \* CancelledErrors delivered
  signals,    \* signals sent to the process group
  total,      \* bytes read
  retained

world  == <<pipesToo, child, code, heir, eof>>
events == <<seen, waiter, asked, expired>>
locals == <<timedOut, cancelled, handling, raising, interrupts, signals>>
output == <<total, retained>>
vars   == <<world, events, pc, locals, output>>

Ended   == {"returned", "raised"}
Running == pc \notin Ended
Looping == {"loop", "settle", "term", "killed", "finish", "drain"}

-----------------------------------------------------------------------------
(* The child, its heirs, the child watcher and the event loop. *)

Exit(c) ==
  /\ Running /\ child = "running"
  /\ child' = "zombie" /\ code' = c
  /\ UNCHANGED <<pipesToo, heir, eof, events, pc, locals, output>>

Bequeath(h) ==
  /\ Running /\ child = "running" /\ heir = "none"
  /\ heir' = h
  /\ UNCHANGED <<pipesToo, child, code, eof, events, pc, locals, output>>

HeirEnds ==
  /\ Running /\ heir # "none"
  /\ heir' = "none"
  /\ UNCHANGED <<pipesToo, child, code, eof, events, pc, locals, output>>

Reap ==
  /\ Running /\ child = "zombie"
  /\ child' = "reaped"
  /\ UNCHANGED <<pipesToo, code, heir, eof, events, pc, locals, output>>

Learn ==
  /\ Running /\ child = "reaped" /\ ~ seen
  /\ seen' = TRUE
  /\ UNCHANGED <<world, waiter, asked, expired, pc, locals, output>>

PipesClose ==
  /\ Running /\ child \in {"zombie", "reaped"} /\ heir = "none" /\ ~ eof
  /\ eof' = TRUE
  /\ UNCHANGED <<pipesToo, child, code, heir, events, pc, locals, output>>

\* Process.wait() for a caller that began before the exit was known.
Waited == seen /\ (pipesToo => eof)

WaiterRuns ==
  /\ pc \in Looping /\ waiter # "done"
  /\ \/ waiter = "new" /\ waiter' = (IF seen THEN "done" ELSE "waiting")
     \/ waiter = "waiting" /\ Waited /\ waiter' = "done"
  /\ UNCHANGED <<world, seen, asked, expired, pc, locals, output>>

Ask ==
  /\ Running /\ ~ asked
  /\ asked' = TRUE
  /\ UNCHANGED <<world, seen, waiter, expired, pc, locals, output>>

Expire ==
  /\ pc \in Looping /\ ~ expired
  /\ expired' = TRUE
  /\ UNCHANGED <<world, seen, waiter, asked, pc, locals, output>>

\* drain() of either stream takes a chunk.
Read(n) ==
  /\ pc \in Looping /\ ~ eof /\ total + n <= MaxTotal
  /\ total' = total + n
  /\ retained' = IF retained + n <= Limit THEN retained + n ELSE Limit
  /\ UNCHANGED <<world, events, pc, locals>>

-----------------------------------------------------------------------------
(* supervise(). *)

\* killpg() finds nobody: the child is reaped and no one else is in its group.
GroupGone == child = "reaped" /\ heir # "group"

Kill ==
  /\ child' = IF child = "running" THEN "zombie" ELSE child
  /\ code' = IF child = "running" THEN "nonzero" ELSE code
  /\ heir' = IF heir = "group" THEN "none" ELSE heir
  /\ signals' = signals \cup {"KILL"}
  /\ UNCHANGED <<pipesToo, eof>>

Spawn ==
  /\ pc = "spawn"
  /\ \/ child' = "running" /\ pc' = "started"
     \/ UNCHANGED child /\ pc' = "raised"
  /\ UNCHANGED <<pipesToo, code, heir, eof, events, locals, output>>

Started ==
  /\ pc = "started"
  /\ pc' = "loop"
  /\ UNCHANGED <<world, events, locals, output>>

\* Faulty variant: on_start's error is raised without stopping the child.
StartFailsOnly ==
  /\ pc = "started"
  /\ pc' = "raised"
  /\ UNCHANGED <<world, events, locals, output>>

\* on_start raises (the pid cannot be stored): kill, wait, raise again.
StartFails ==
  /\ pc = "started"
  /\ IF GroupGone THEN pc' = "raised" /\ UNCHANGED <<world, signals>>
                  ELSE pc' = "reap" /\ Kill
  /\ UNCHANGED <<events, timedOut, cancelled, handling, raising, interrupts, output>>

StartReaped ==
  /\ pc = "reap" /\ Waited
  /\ pc' = "raised"
  /\ UNCHANGED <<world, events, locals, output>>

\* terminate(): SIGTERM, then wait for the exit.
Terminate == pc' = "term" /\ signals' = signals \cup {"TERM"}

\* Faulty variant: a process that is known to have exited is signalled.
LeaveLoopBlindly(t, c) ==
  /\ cancelled' = c
  /\ IF t \/ c THEN Terminate /\ timedOut' = t
               ELSE pc' = "finish" /\ timedOut' = FALSE /\ UNCHANGED signals

\* Faulty variant: a timeout stays one when terminate() signalled nobody.
LeaveLoopLate(t, c) ==
  /\ cancelled' = c /\ timedOut' = t
  /\ IF (t \/ c) /\ waiter # "done" /\ ~ seen /\ ~ GroupGone
     THEN Terminate
     ELSE pc' = "finish" /\ UNCHANGED signals

\* The loop breaks with timed_out = t and cancelled = c.
LeaveLoop(t, c) ==
  /\ cancelled' = c
  /\ IF (t \/ c) /\ waiter # "done" /\ ~ seen /\ ~ GroupGone
     THEN Terminate /\ timedOut' = t
     ELSE pc' = "finish" /\ timedOut' = FALSE /\ UNCHANGED signals

Loop ==
  /\ pc = "loop"
  /\ \/ waiter = "done" /\ LeaveLoop(FALSE, FALSE)
     \/ waiter # "done" /\ asked /\ LeaveLoop(FALSE, TRUE)
     \/ /\ waiter # "done" /\ ~ asked /\ expired
        /\ pc' = "settle" /\ UNCHANGED <<timedOut, cancelled, signals>>
  /\ UNCHANGED <<world, events, handling, raising, interrupts, output>>

Settle ==
  /\ pc = "settle"
  /\ LeaveLoop(waiter # "done" /\ ~ seen, FALSE)
  /\ UNCHANGED <<world, events, handling, raising, interrupts, output>>

\* terminate() returns True: back behind the loop, or in the except branch.
Terminated ==
  /\ pc' = "finish"
  /\ timedOut' = (cancelled => timedOut)
  /\ UNCHANGED <<cancelled, handling, raising, interrupts>>

TermWorked ==
  /\ pc = "term" /\ Waited
  /\ Terminated
  /\ UNCHANGED <<world, events, signals, output>>

\* Faulty variant: nothing follows a SIGTERM that is ignored.
GraceOverPatient ==
  /\ pc = "term"
  /\ Terminated
  /\ UNCHANGED <<world, events, signals, output>>

\* The grace is over: SIGKILL, which fails if the group has just gone.
GraceOver ==
  /\ pc = "term"
  /\ \/ seen /\ Terminated /\ UNCHANGED <<world, signals>>
     \/ /\ ~ seen /\ ~ GroupGone
        /\ pc' = "killed" /\ Kill
        /\ UNCHANGED <<timedOut, cancelled, handling, raising, interrupts>>
     \/ /\ ~ seen /\ GroupGone
        /\ pc' = "finish" /\ raising' = TRUE
        /\ UNCHANGED <<world, timedOut, cancelled, handling, interrupts, signals>>
  /\ UNCHANGED <<events, output>>

KillWorked ==
  /\ pc = "killed" /\ Waited
  /\ Terminated
  /\ UNCHANGED <<world, events, signals, output>>

Finish ==
  /\ pc = "finish" /\ waiter = "done"
  /\ pc' = "drain"
  /\ UNCHANGED <<world, events, locals, output>>

\* The readers are done, or DRAIN_GRACE_SECONDS are over and they are cancelled.
Drained ==
  /\ pc = "drain"
  /\ pc' = IF raising THEN "raised" ELSE "returned"
  /\ UNCHANGED <<world, events, locals, output>>

\* CancelledError at an await.  The first one inside the try block becomes
\* another terminate(); elsewhere it leaves the function, through finally
\* when it comes during that terminate().
Interrupt ==
  /\ pc \notin Ended \cup {"started"} /\ interrupts < MaxInterrupts
  /\ interrupts' = interrupts + 1
  /\ \/ /\ pc \in {"loop", "settle", "term", "killed"} /\ ~ handling
        /\ cancelled' = TRUE /\ handling' = TRUE
        /\ IF seen \/ GroupGone THEN pc' = "finish" /\ UNCHANGED signals
                                ELSE Terminate
        /\ UNCHANGED raising
     \/ /\ pc \in {"term", "killed"} /\ handling
        /\ pc' = "finish" /\ raising' = TRUE
        /\ UNCHANGED <<cancelled, handling, signals>>
     \/ /\ pc \in {"spawn", "reap", "finish", "drain"}
        /\ pc' = "raised"
        /\ UNCHANGED <<cancelled, handling, raising, signals>>
  /\ UNCHANGED <<world, events, timedOut, output>>

Init ==
  /\ pipesToo \in Builds
  /\ child = "none" /\ code = "none" /\ heir = "none" /\ eof = FALSE
  /\ seen = FALSE /\ waiter = "new" /\ asked = FALSE /\ expired = FALSE
  /\ pc = "spawn" /\ timedOut = FALSE /\ cancelled = FALSE
  /\ handling = FALSE /\ raising = FALSE
  /\ interrupts = 0 /\ signals = {}
  /\ total = 0 /\ retained = 0

World ==
  \/ \E c \in {"zero", "nonzero"} : Exit(c)
  \/ \E h \in Heirs : Bequeath(h)
  \/ HeirEnds \/ Reap \/ Learn \/ PipesClose \/ WaiterRuns \/ Ask \/ Expire
  \/ \E n \in 1..MaxTotal : Read(n)

Supervise ==
  \/ Spawn \/ Started \/ StartFails \/ StartReaped \/ Loop \/ Settle
  \/ TermWorked \/ GraceOver \/ KillWorked \/ Finish \/ Drained

Next == World \/ Supervise \/ Interrupt

Spec == Init /\ [][Next]_vars

\* The operating system reaps and reports what has ended and time passes; the
\* child and its heirs owe nothing.
FairSpec ==
  /\ Spec
  /\ WF_vars(Reap) /\ WF_vars(Learn) /\ WF_vars(PipesClose)
  /\ WF_vars(WaiterRuns) /\ WF_vars(Expire) /\ WF_vars(Supervise)

-----------------------------------------------------------------------------
(* Correctness. *)

\* The status of the ProcessResult.
Status ==
  IF cancelled THEN "cancelled"
  ELSE IF timedOut THEN "timed_out"
  ELSE IF code = "zero" THEN "succeeded" ELSE "failed"

\* The result tells what happened.  It is returned for a process that is dead
\* and whose exit code the event loop has, on every path; success and failure
\* are the child's own doing, a timeout is one only if the child was signalled
\* for it; the two readers kept what fits "at most max_output_bytes in total".
ResultTruthful ==
  pc = "returned" =>
    /\ child = "reaped" /\ seen
    /\ Status \in {"succeeded", "failed"} => signals = {} /\ interrupts = 0
    /\ Status = "timed_out" => expired /\ "TERM" \in signals
    /\ Status = "cancelled" => asked \/ interrupts > 0
    /\ retained = IF total <= Limit THEN total ELSE Limit

\* However supervise() ends, the child is not left running.  A second
\* cancellation of the supervising task takes away the SIGKILL and is excepted.
LeavesNoChild == pc \in Ended /\ interrupts < 2 => child # "running"

\* terminate() signals the process group only while the exit of its leader is
\* unknown: afterwards its number may belong to someone else.  (The kill that
\* follows a failing on_start does not look.)
SignalsOnlyTheUnseen ==
  [][signals' # signals /\ pc # "started" => ~ seen]_vars

\* Whatever the child and its heirs do, supervise() comes to an end; excepted
\* are an heir that holds the pipes for ever where Process.wait() waits for
\* them, and a second cancellation.
Excused == (pipesToo /\ heir # "none") \/ interrupts > 1
Ends == <>(pc \in Ended) \/ <>[]Excused
=============================================================================
