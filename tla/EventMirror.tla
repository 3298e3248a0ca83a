---------------------------- MODULE EventMirror ----------------------------
(***************************************************************************)
(* The JSONL copy of the event log of one run (storage.py).  SQLite commits*)
(* events 1, 2, ... of the run; after each commit, and for every run when a*)
(* store is opened, the store brings the file up to date: read the rows,   *)
(* read the file, cut an incomplete last line, compare, append what is     *)
(* missing.  Each store is one process; a process may die, and a write may *)
(* fail half-way, at any step.                                             *)
(*                                                                         *)
(* The file is its complete lines, n for the line of event n and Junk for  *)
(* a line that is no event's (a torn line something was appended to), and  *)
(* whether a torn line, without its newline, follows them.                 *)
(***************************************************************************)
EXTENDS Naturals, Sequences

CONSTANTS
  Stores,      \* processes that open the store
  MaxEvents,   \* bound: events of the run
  MaxFaults    \* bound: deaths and failing writes

ASSUME MirrorAssumption == MaxEvents \in Nat /\ MaxFaults \in Nat

Junk == 0

VARIABLES
  rows,      \* number of events committed in SQLite
  lines,     \* the complete lines of the JSONL file
  torn,      \* an incomplete line follows them
  pc,        \* where each store is: see Points
  opening,   \* the stores whose constructor has not returned
  expected,  \* number of rows each store read for the mirroring under way
  view,      \* the complete lines each store read,
  viewTorn,  \* and whether it saw an incomplete one
  lagging,   \* last_mirror_error is set
  corrupt,   \* EventLogCorruption has been raised
  faults

file  == <<lines, torn>>
seenVars == <<expected, view, viewTorn>>
vars  == <<rows, file, pc, opening, seenVars, lagging, corrupt, faults>>

Points == {"closed", "open", "rows", "file", "compare", "append"}

Goto(s, point) == pc' = [pc EXCEPT ![s] = point]

\* O_APPEND: what is written lands at the end of what the file is by now, on
\* the torn line if there is one.
Write(new) ==
  IF new = <<>> THEN UNCHANGED file
  ELSE /\ lines' = lines \o (IF torn THEN <<Junk>> \o Tail(new) ELSE new)
       /\ torn' = FALSE

Suffix(from, to) == [i \in 1..(to - from) |-> from + i]

-----------------------------------------------------------------------------

OpenStore(s) ==
  /\ pc[s] = "closed"
  /\ Goto(s, "rows")
  /\ opening' = opening \cup {s}
  /\ UNCHANGED <<rows, file, seenVars, lagging, corrupt, faults>>

\* A mutating method: its transaction commits, then the run is mirrored.
Commit(s) ==
  /\ pc[s] = "open" /\ rows < MaxEvents
  /\ rows' = rows + 1
  /\ Goto(s, "rows")
  /\ UNCHANGED <<file, opening, seenVars, lagging, corrupt, faults>>

ReadRows(s) ==
  /\ pc[s] = "rows"
  /\ expected' = [expected EXCEPT ![s] = rows]
  /\ Goto(s, "file")
  /\ UNCHANGED <<rows, file, opening, view, viewTorn, lagging, corrupt, faults>>

ReadFile(s) ==
  /\ pc[s] = "file"
  /\ view' = [view EXCEPT ![s] = lines]
  /\ viewTorn' = [viewTorn EXCEPT ![s] = torn]
  /\ Goto(s, "compare")
  /\ UNCHANGED <<rows, file, opening, expected, lagging, corrupt, faults>>

\* Faulty variant: the newline of the last complete line goes too.
CutTooMuch(s) ==
  IF ~ viewTorn[s] THEN UNCHANGED file
  ELSE LET keep == Len(view[s])
       IN /\ lines' = SubSeq(lines, 1, IF keep = 0 THEN 0 ELSE keep - 1)
          /\ torn' = (keep > 0)

\* truncate() to the end of the complete lines that were read: the file may
\* have more of them by now, or fewer and is then padded to that length.
Cut(s) ==
  IF ~ viewTorn[s] THEN UNCHANGED file
  ELSE LET keep == Len(view[s])
       IN /\ lines' = SubSeq(lines, 1, IF keep <= Len(lines) THEN keep ELSE Len(lines))
          /\ torn' = (keep > Len(lines))

Agrees(s) ==
  Len(view[s]) <= expected[s] /\ \A i \in DOMAIN view[s] : view[s][i] = i

\* Corruption is raised to the caller, who closes the store.
Compare(s) ==
  /\ pc[s] = "compare"
  /\ Cut(s)
  /\ IF Agrees(s) THEN Goto(s, "append") /\ UNCHANGED <<opening, corrupt>>
                  ELSE /\ corrupt' = TRUE
                       /\ Goto(s, "closed") /\ opening' = opening \ {s}
  /\ UNCHANGED <<rows, seenVars, lagging, faults>>

\* Faulty variant: everything is written again.
MissingAll(s) == Suffix(0, expected[s])

Missing(s) == Suffix(Len(view[s]), expected[s])

AppendMissing(s) ==
  /\ pc[s] = "append"
  /\ Write(Missing(s))
  /\ lagging' = [lagging EXCEPT ![s] = FALSE]
  /\ Goto(s, "open") /\ opening' = opening \ {s}
  /\ UNCHANGED <<rows, seenVars, corrupt, faults>>

CloseStore(s) ==
  /\ pc[s] = "open"
  /\ Goto(s, "closed")
  /\ UNCHANGED <<rows, file, opening, seenVars, lagging, corrupt, faults>>

\* A write that stops early leaves some of the lines, and perhaps a piece of
\* the next one.
WritePart(new) ==
  \E n \in 0..Len(new) :
    \/ Write(SubSeq(new, 1, n))
    \/ /\ n < Len(new)
       /\ torn' = TRUE
       /\ lines' = lines \o (IF torn /\ n > 0 THEN <<Junk>> \o SubSeq(new, 2, n)
                                            ELSE SubSeq(new, 1, n))

\* Faulty variant: the error of a mirror write is not remembered.
WriteFailsUnnoticed(s) ==
  /\ pc[s] = "append" /\ faults < MaxFaults
  /\ WritePart(Missing(s))
  /\ faults' = faults + 1
  /\ IF s \in opening THEN Goto(s, "closed") ELSE Goto(s, "open")
  /\ opening' = opening \ {s}
  /\ UNCHANGED <<rows, seenVars, lagging, corrupt>>

\* OSError: swallowed and remembered after a commit, raised by the constructor.
WriteFails(s) ==
  /\ pc[s] = "append" /\ faults < MaxFaults
  /\ WritePart(Missing(s))
  /\ faults' = faults + 1
  /\ IF s \in opening THEN Goto(s, "closed") /\ UNCHANGED lagging
                      ELSE Goto(s, "open") /\ lagging' = [lagging EXCEPT ![s] = TRUE]
  /\ opening' = opening \ {s}
  /\ UNCHANGED <<rows, seenVars, corrupt>>

\* The process dies, wherever it is.
Die(s) ==
  /\ pc[s] # "closed" /\ faults < MaxFaults
  /\ IF pc[s] = "append" THEN WritePart(Missing(s)) ELSE UNCHANGED file
  /\ faults' = faults + 1
  /\ Goto(s, "closed") /\ opening' = opening \ {s}
  /\ UNCHANGED <<rows, seenVars, lagging, corrupt>>

Init ==
  /\ rows = 0 /\ lines = <<>> /\ torn = FALSE /\ opening = {} /\ corrupt = FALSE /\ faults = 0
  /\ pc = [s \in Stores |-> "closed"]
  /\ expected = [s \in Stores |-> 0]
  /\ view = [s \in Stores |-> <<>>] /\ viewTorn = [s \in Stores |-> FALSE]
  /\ lagging = [s \in Stores |-> FALSE]

Next == \E s \in Stores :
  \/ OpenStore(s) \/ Commit(s) \/ ReadRows(s) \/ ReadFile(s) \/ Compare(s)
  \/ AppendMissing(s) \/ CloseStore(s) \/ WriteFails(s) \/ Die(s)

Spec == Init /\ [][Next]_vars

-----------------------------------------------------------------------------
(* Correctness. *)

\* "A per-run JSONL file mirrors committed events with ... increasing sequence
\* number": the complete lines are events 1, 2, ... that SQLite has committed.
MirrorsCommitted ==
  Len(lines) <= rows /\ \A i \in DOMAIN lines : lines[i] = i

\* Between two calls, a store that reports no mirror error has every event of
\* the run in the file; and it never takes its own file for a corrupted one,
\* whatever crashes and failing writes left in it.
ComplaintOrCopy ==
  /\ ~ corrupt
  /\ \A s \in Stores : pc[s] = "open" => lagging[s] \/ (Len(lines) = rows /\ ~ torn)

\* "Trims only an incomplete trailing write": a complete line is never taken
\* back or changed.
LinesStay ==
  [][/\ Len(lines) <= Len(lines')
     /\ \A i \in DOMAIN lines : lines'[i] = lines[i]]_vars
=============================================================================
