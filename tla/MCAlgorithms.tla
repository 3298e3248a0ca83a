---------------------------- MODULE MCAlgorithms ----------------------------
(* The algorithms over bounded inputs: every document of up to ShortLines    *)
(* lines of any kind, longer ones of the kinds that decide the size of       *)
(* chunks, and every plan of up to MaxTasks tasks, roles and paths at fault  *)
(* or not in those of one.  A document is read, parsed and chunked, and a    *)
(* plan is validated, step by step.                                          *)
EXTENDS Chunking, PlanSearch

CONSTANTS ShortLines, LongLines, MaxTasks

LongKinds == {"h1", "h2", "fence", "text", "long"}
TaskIds == 1..MaxTasks

TasksThatAre(flaws) == [id : TaskIds, deps : SUBSET TaskIds, roles : flaws, paths : flaws]
MCPlans ==
    [roles : {TRUE}, tasks : UNION {[1..n -> TasksThatAre({TRUE})] : n \in 0..MaxTasks}]
      \cup [roles : BOOLEAN, tasks : [1..1 -> TasksThatAre(BOOLEAN)]]

\* The bounds of a document, after its last line.
Short == \/ Len(lines) <= ShortLines
         \/ Len(lines) <= LongLines /\ ToSet(lines) \subseteq LongKinds

Chunk ==
    /\ plan.tasks = <<>> /\ phase = "checks"
    /\ ChunkNext /\ Short'
    /\ UNCHANGED search

Validate == stage = "reading" /\ lines = <<>> /\ SearchNext /\ UNCHANGED chunking

Init == ChunkInit /\ SearchInit
Next == Chunk \/ Validate
Spec == Init /\ [][Next]_<<chunking, search>>
=============================================================================
