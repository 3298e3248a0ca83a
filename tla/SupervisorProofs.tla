-------------------------- MODULE SupervisorProofs --------------------------
(* What supervise() reports is true, on every path and for any number of    *)
(* interruptions, any output bound and any output.                          *)
EXTENDS Supervisor, TLAPS

-----------------------------------------------------------------------------
(* The inductive invariant.                                                *)

Points == {"spawn", "started", "reap"} \cup Looping \cup Ended
TypeOK ==
  /\ pipesToo \in BOOLEAN /\ eof \in BOOLEAN /\ seen \in BOOLEAN
  /\ asked \in BOOLEAN /\ expired \in BOOLEAN /\ timedOut \in BOOLEAN
  /\ cancelled \in BOOLEAN /\ handling \in BOOLEAN /\ raising \in BOOLEAN
  /\ child \in {"none", "running", "zombie", "reaped"}
  /\ code \in {"none", "zero", "nonzero"}
  /\ waiter \in {"new", "waiting", "done"}
  /\ pc \in Points /\ interrupts \in Nat /\ total \in Nat /\ retained \in Nat

\* What the event loop knows of the child is so: it is not spawned twice, its
\* exit is known only when it has been reaped, and the waiter task only ends
\* when the exit is known.
KnowledgeInv ==
  /\ pc = "spawn" => child = "none"
  /\ seen => child = "reaped"
  /\ waiter = "done" => seen
  /\ pc \in {"drain", "returned"} => waiter = "done"

\* No exit from the loop leaves the child running, unless terminate() was
\* itself interrupted; a child that on_start's error killed is dead.
DeadInv ==
  /\ pc = "reap" => child # "running"
  /\ pc \in {"finish", "raised"} /\ interrupts < 2 => child # "running"

\* Until the loop breaks, nothing has been cancelled, interrupted or signalled;
\* from then on each of these leaves its mark in the status.
Before == {"spawn", "started", "loop", "settle"}
StatusInv ==
  /\ pc \in Before => signals = {}
  /\ pc \in Before \cup {"reap"} => ~ cancelled /\ ~ timedOut /\ interrupts = 0
  /\ pc = "settle" => expired
  /\ pc \in {"term", "killed"} => "TERM" \in signals /\ (cancelled \/ timedOut)
  /\ signals # {} => cancelled \/ timedOut \/ pc \in {"reap", "raised"}
  /\ interrupts > 0 => cancelled \/ pc = "raised"
  /\ handling => interrupts > 0
  /\ timedOut => expired /\ "TERM" \in signals
  /\ cancelled => asked \/ interrupts > 0

\* The readers keep what fits.
OutputInv == retained = IF total <= Limit THEN total ELSE Limit

Inv == TypeOK /\ KnowledgeInv /\ DeadInv /\ StatusInv /\ OutputInv

-----------------------------------------------------------------------------

LEMMA InvInit == Init => Inv
<1> SUFFICES ASSUME Init PROVE Inv
  OBVIOUS
<1> USE SupervisorAssumption DEF Init, Before, Points, Looping, Ended
<1>1. TypeOK
  BY DEF TypeOK
<1>2. KnowledgeInv /\ DeadInv /\ StatusInv /\ OutputInv
  BY DEF KnowledgeInv, DeadInv, StatusInv, OutputInv
<1> QED BY <1>1, <1>2 DEF Inv

\* The child, its watcher and the event loop move without supervise().
LEMMA WorldStep == Inv /\ World => Inv'
<1> SUFFICES ASSUME Inv, World PROVE Inv'
  OBVIOUS
<1> USE DEF Inv, TypeOK, KnowledgeInv, DeadInv, StatusInv, OutputInv, Before, Points, Looping,
            Ended, Running, events, locals, output, world
<1>1. ASSUME NEW c \in {"zero", "nonzero"}, Exit(c) PROVE Inv'
  BY <1>1 DEF Exit
<1>2. ASSUME NEW h \in Heirs, Bequeath(h) PROVE Inv'
  BY <1>2 DEF Bequeath
<1>3. CASE HeirEnds \/ Reap
  BY <1>3 DEF HeirEnds, Reap
<1>4. CASE Learn
  BY <1>4 DEF Learn
<1>5. CASE PipesClose
  BY <1>5 DEF PipesClose
<1>6. CASE WaiterRuns
  BY <1>6 DEF WaiterRuns, Waited
<1>7. CASE Ask
  BY <1>7 DEF Ask
<1>8. CASE Expire
  BY <1>8 DEF Expire
<1>9. ASSUME NEW n \in 1..MaxTotal, Read(n) PROVE Inv'
  BY <1>9, SupervisorAssumption DEF Read
<1> QED
  BY <1>1, <1>2, <1>3, <1>4, <1>5, <1>6, <1>7, <1>8, <1>9 DEF World

\* Leaving the loop: either a living, unseen child is signalled, or its exit
\* is known, or nobody is left in its group.
LEMMA LeaveLoopStep ==
  ASSUME Inv, NEW t \in BOOLEAN, NEW c \in BOOLEAN, LeaveLoop(t, c),
         pc \in {"loop", "settle"}, t => expired, c => asked,
         t \/ c \/ waiter = "done" \/ seen,
         UNCHANGED <<world, events, handling, raising, interrupts, output>>
  PROVE  Inv'
<1> USE DEF Inv, TypeOK, KnowledgeInv, DeadInv, StatusInv, OutputInv, Before, Points, Looping,
            Ended, events, output, world
<1>1. CASE (t \/ c) /\ waiter # "done" /\ ~ seen /\ ~ GroupGone
  BY <1>1 DEF LeaveLoop, Terminate
<1>2. CASE ~ ((t \/ c) /\ waiter # "done" /\ ~ seen /\ ~ GroupGone)
  BY <1>2 DEF LeaveLoop, GroupGone
<1> QED BY <1>1, <1>2

\* supervise() itself.
LEMMA SuperviseStep == Inv /\ Supervise => Inv'
<1> SUFFICES ASSUME Inv, Supervise PROVE Inv'
  OBVIOUS
<1>1. CASE Loop
  <2>1. CASE waiter = "done" /\ LeaveLoop(FALSE, FALSE)
    BY <1>1, <2>1, LeaveLoopStep DEF Loop
  <2>2. CASE asked /\ LeaveLoop(FALSE, TRUE)
    BY <1>1, <2>2, LeaveLoopStep DEF Loop
  <2>3. CASE expired /\ pc' = "settle" /\ UNCHANGED <<timedOut, cancelled, signals>>
    BY <1>1, <2>3 DEF Loop, Inv, TypeOK, KnowledgeInv, DeadInv, StatusInv, OutputInv, Before, Points,
       Looping, Ended, events, output, world
  <2> QED BY <1>1, <2>1, <2>2, <2>3 DEF Loop
<1>2. CASE Settle
  BY <1>2, LeaveLoopStep DEF Settle, Inv, TypeOK, StatusInv
<1> USE DEF Inv, TypeOK, KnowledgeInv, DeadInv, StatusInv, OutputInv, Before, Points, Looping,
            Ended, events, locals, output, world
<1>3. CASE Spawn \/ Started
  BY <1>3 DEF Spawn, Started
<1>4. CASE StartFails \/ StartReaped
  BY <1>4 DEF StartFails, StartReaped, GroupGone, Kill, Waited
<1>5. CASE TermWorked \/ KillWorked
  BY <1>5 DEF TermWorked, KillWorked, Terminated, Waited
<1>6. CASE GraceOver
  <2>1. CASE seen
    BY <1>6, <2>1 DEF GraceOver, Terminated
  <2>2. CASE ~ seen /\ ~ GroupGone
    <3>1. pc = "term" /\ pc' = "killed" /\ Kill
          /\ UNCHANGED <<events, timedOut, cancelled, handling, raising, interrupts, output>>
      BY <1>6, <2>2 DEF GraceOver
    <3>2. child' \in {"none", "running", "zombie", "reaped"} /\ code' \in {"none", "zero", "nonzero"}
          /\ (seen => child' = "reaped")
      BY <3>1 DEF Kill
    <3> QED BY <3>1, <3>2 DEF Kill
  <2>3. CASE ~ seen /\ GroupGone
    <3>1. pc = "term" /\ pc' = "finish" /\ raising' = TRUE /\ child = "reaped"
          /\ UNCHANGED <<world, events, timedOut, cancelled, handling, interrupts, signals, output>>
      BY <1>6, <2>3 DEF GraceOver, GroupGone
    <3>2. TypeOK'
      BY <3>1
    <3> QED BY <3>1, <3>2
  <2> QED BY <2>1, <2>2, <2>3
<1>7. CASE Finish \/ Drained
  BY <1>7 DEF Finish, Drained
<1> QED
  BY <1>1, <1>2, <1>3, <1>4, <1>5, <1>6, <1>7 DEF Supervise

\* A cancellation of the supervising task, wherever it comes.
LEMMA InterruptStep == Inv /\ Interrupt => Inv'
<1> SUFFICES ASSUME Inv, Interrupt PROVE Inv'
  OBVIOUS
<1> USE SupervisorAssumption DEF Inv, TypeOK, KnowledgeInv, DeadInv, StatusInv, OutputInv, Before,
        Points, Looping, Ended, events, output, world
<1>0. interrupts' = interrupts + 1 /\ interrupts' \in Nat /\ interrupts' > 0
      /\ UNCHANGED <<world, events, timedOut, output>>
  BY DEF Interrupt
<1>1. CASE cancelled' = TRUE /\ handling' = TRUE /\ UNCHANGED raising
           /\ pc \in {"loop", "settle", "term", "killed"}
           /\ \/ (seen \/ GroupGone) /\ pc' = "finish" /\ UNCHANGED signals
              \/ Terminate
  <2>1. CASE (seen \/ GroupGone) /\ pc' = "finish" /\ UNCHANGED signals
    <3>1. child = "reaped"
      BY <2>1 DEF GroupGone
    <3>2. TypeOK'
      BY <1>0, <1>1, <2>1
    <3> QED BY <1>0, <1>1, <2>1, <3>1, <3>2
  <2>2. CASE Terminate
    <3>1. TypeOK'
      BY <1>0, <1>1, <2>2 DEF Terminate
    <3> QED BY <1>0, <1>1, <2>2, <3>1 DEF Terminate
  <2> QED BY <1>1, <2>1, <2>2
<1>2. CASE pc \in {"term", "killed"} /\ handling /\ pc' = "finish" /\ raising' = TRUE
           /\ UNCHANGED <<cancelled, handling, signals>>
  <2>1. interrupts' >= 2
    BY <1>0, <1>2
  <2>2. TypeOK'
    BY <1>0, <1>2
  <2> QED BY <1>0, <1>2, <2>1, <2>2
<1>3. CASE pc \in {"spawn", "reap", "finish", "drain"} /\ pc' = "raised"
           /\ UNCHANGED <<cancelled, handling, raising, signals>>
  BY <1>0, <1>3
<1> QED BY <1>1, <1>2, <1>3 DEF Interrupt

LEMMA InvStep == Inv /\ [Next]_vars => Inv'
<1>1. Inv /\ UNCHANGED vars => Inv'
  BY DEF vars, world, events, locals, output, Inv, TypeOK, KnowledgeInv, DeadInv, StatusInv,
     OutputInv
<1> QED BY <1>1, WorldStep, SuperviseStep, InterruptStep DEF Next

\* The five parts hold of every reachable state.
THEOREM SupervisorCorrect == Spec => []Inv
BY InvInit, InvStep, PTL DEF Spec

-----------------------------------------------------------------------------
(* What the runs check.                                                    *)

\* A ProcessResult tells what happened, on every path to it.
THEOREM ResultsAreTruthful == Spec => []ResultTruthful
<1>1. Inv => ResultTruthful
  BY DEF Inv, TypeOK, KnowledgeInv, StatusInv, OutputInv, Points, Before, Looping, Ended,
     ResultTruthful, Status
<1> QED BY <1>1, SupervisorCorrect, PTL

\* No child is left running, unless terminate() was interrupted itself.
THEOREM ChildIsStopped == Spec => []LeavesNoChild
<1>1. Inv => LeavesNoChild
  BY DEF Inv, KnowledgeInv, DeadInv, LeavesNoChild, Ended
<1> QED BY <1>1, SupervisorCorrect, PTL

\* After on_start, only a process whose exit is not known is signalled.
THEOREM SignalsReachTheChild == Spec => SignalsOnlyTheUnseen
<1>1. Inv /\ [Next]_vars => [signals' # signals /\ pc # "started" => ~ seen]_vars
  <2> SUFFICES ASSUME Inv, Next, signals' # signals, pc # "started" PROVE ~ seen
    BY DEF vars
  <2>1. ~ World
    BY DEF World, Exit, Bequeath, HeirEnds, Reap, Learn, PipesClose, WaiterRuns, Ask, Expire, Read,
       locals
  <2>2. CASE Supervise
    BY <2>2 DEF Supervise, Spawn, Started, StartFails, StartReaped, Loop, Settle, LeaveLoop,
       Terminate, TermWorked, GraceOver, KillWorked, Finish, Drained, locals
  <2>3. CASE Interrupt
    BY <2>3 DEF Interrupt, Terminate
  <2> QED BY <2>1, <2>2, <2>3 DEF Next
<1> QED BY <1>1, SupervisorCorrect, PTL DEF Spec, SignalsOnlyTheUnseen
=============================================================================
