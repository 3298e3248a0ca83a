-------------------------- MODULE EventMirrorProofs --------------------------
(* While one process at a time has the store open, the JSONL copy survives   *)
(* every crash and every failing write, however many there are of either and *)
(* however many events.  (With two processes it does not: see the run of     *)
(* EventMirror with two stores.)                                             *)
EXTENDS EventMirror, SequenceTheorems, TLAPS

-----------------------------------------------------------------------------
(* The inductive invariant.                                                *)

OneStore == \A r, s \in Stores : r = s

TypeOK ==
  /\ rows \in Nat /\ lines \in Seq(Nat) /\ torn \in BOOLEAN
  /\ pc \in [Stores -> Points] /\ opening \subseteq Stores
  /\ expected \in [Stores -> Nat] /\ view \in [Stores -> Seq(Nat)]
  /\ viewTorn \in [Stores -> BOOLEAN] /\ lagging \in [Stores -> BOOLEAN]
  /\ corrupt \in BOOLEAN /\ faults \in Nat

\* What the store read is still so when it writes.
ReadInv ==
  \A s \in Stores :
    /\ pc[s] \in {"file", "compare", "append"} => expected[s] = rows
    /\ pc[s] \in {"compare", "append"} => view[s] = lines
    /\ pc[s] = "compare" => viewTorn[s] = torn
    /\ pc[s] = "append" => ~ torn

Inv == TypeOK /\ ReadInv /\ MirrorsCommitted /\ ComplaintOrCopy

-----------------------------------------------------------------------------
(* Appending events to a copy of the first of them.                        *)

Copies(file_, n) == Len(file_) <= n /\ \A i \in DOMAIN file_ : file_[i] = i

LEMMA SuffixIs ==
  ASSUME NEW a \in Nat, NEW b \in Nat, a <= b
  PROVE  /\ Suffix(a, b) \in Seq(Nat) /\ Len(Suffix(a, b)) = b - a
         /\ \A i \in 1..(b - a) : Suffix(a, b)[i] = a + i
<1>1. b - a \in Nat
  OBVIOUS
<1>2. Suffix(a, b) \in [1..(b - a) -> Nat]
  BY DEF Suffix
<1>3. Suffix(a, b) \in Seq(Nat) /\ Len(Suffix(a, b)) = b - a
  BY <1>1, <1>2
<1> QED BY <1>3 DEF Suffix

\* The first k of the missing lines continue the copy.
LEMMA CopyGrows ==
  ASSUME NEW l \in Seq(Nat), NEW n \in Nat, Copies(l, n), NEW k \in 0..(n - Len(l))
  PROVE  LET grown == l \o SubSeq(Suffix(Len(l), n), 1, k)
         IN  grown \in Seq(Nat) /\ Len(grown) = Len(l) + k /\ Copies(grown, n)
             /\ \A i \in DOMAIN l : grown[i] = l[i]
<1> DEFINE new == Suffix(Len(l), n)
           part == SubSeq(new, 1, k)
<1>1. Len(l) \in Nat /\ Len(l) <= n
  BY DEF Copies
<1>2. new \in Seq(Nat) /\ Len(new) = n - Len(l) /\ \A i \in 1..(n - Len(l)) : new[i] = Len(l) + i
  BY <1>1, SuffixIs
<1>3. part \in Seq(Nat) /\ Len(part) = k /\ \A i \in 1..k : part[i] = Len(l) + i
  BY <1>1, <1>2
<1> HIDE DEF new, part
<1>4. l \o part \in Seq(Nat) /\ Len(l \o part) = Len(l) + k
  BY <1>3
<1>5. \A i \in 1..(Len(l) + k) : (l \o part)[i] = IF i <= Len(l) THEN l[i] ELSE part[i - Len(l)]
  BY <1>3, <1>1
<1>6. \A i \in 1..(Len(l) + k) : (l \o part)[i] = i
  BY <1>1, <1>3, <1>5 DEF Copies
<1>7. \A i \in DOMAIN l : (l \o part)[i] = l[i]
  BY <1>1, <1>5
<1> QED BY <1>1, <1>4, <1>6, <1>7 DEF Copies, part, new

-----------------------------------------------------------------------------
(* What the steps do to the file.                                          *)

\* A write, whole or broken off, in the state in which the store makes it.
Grown ==
  \E k \in 0..(rows - Len(lines)) : lines' = lines \o SubSeq(Suffix(Len(lines), rows), 1, k)

LEMMA WritesGrow ==
  ASSUME Inv, NEW s \in Stores, pc[s] = "append"
  PROVE  /\ Write(Missing(s)) => Grown /\ torn' \in BOOLEAN /\ ~ torn' /\ Len(lines') = rows /\ lines' \in Seq(Nat)
         /\ WritePart(Missing(s)) => Grown /\ torn' \in BOOLEAN
<1> DEFINE new == Missing(s)
           m == rows - Len(lines)
<1>1. /\ Missing(s) = Suffix(Len(lines), rows) /\ ~ torn /\ torn \in BOOLEAN /\ Len(lines) \in Nat /\ rows \in Nat
      /\ Len(lines) <= rows /\ lines \in Seq(Nat)
  BY DEF Inv, TypeOK, ReadInv, MirrorsCommitted, Missing
<1>2. new \in Seq(Nat) /\ Len(new) = m /\ m \in Nat
  <2>1. Suffix(Len(lines), rows) \in Seq(Nat) /\ Len(Suffix(Len(lines), rows)) = rows - Len(lines)
    BY <1>1, SuffixIs
  <2>2. rows - Len(lines) \in Nat
    BY <1>1
  <2> QED BY <1>1, <2>1, <2>2
<1>3. ASSUME NEW k \in 0..m, Write(SubSeq(new, 1, k))
      PROVE  ~ torn' /\ torn' \in BOOLEAN /\ lines' = lines \o SubSeq(new, 1, k)
  <2>1. CASE SubSeq(new, 1, k) = <<>>
    <3>1. lines' = lines /\ torn' = torn
      BY <1>3, <2>1 DEF Write, file
    <3> QED BY <1>1, <2>1, <3>1, ConcatEmptySeq
  <2>2. CASE SubSeq(new, 1, k) # <<>>
    BY <1>1, <1>3, <2>2 DEF Write
  <2> QED BY <2>1, <2>2
<1>4. SubSeq(new, 1, m) = new
  BY <1>2
<1>5. ASSUME Write(new)
      PROVE Grown /\ torn' \in BOOLEAN /\ ~ torn' /\ Len(lines') = rows /\ lines' \in Seq(Nat)
  <2>1. m \in 0..m /\ lines' = lines \o SubSeq(new, 1, m) /\ torn' \in BOOLEAN /\ ~ torn'
    <3>1. m \in 0..m
      BY <1>2
    <3> HIDE DEF m, new
    <3> QED BY <3>1, <1>3, <1>4, <1>5
  <2>2. Copies(lines, rows)
    BY DEF Inv, MirrorsCommitted, Copies
  <2>3. lines' \in Seq(Nat) /\ Len(lines') = Len(lines) + m
    BY <1>1, <1>2, <2>1, <2>2, CopyGrows
  <2>4. Len(lines') = rows
    BY <1>1, <2>3
  <2> QED BY <1>1, <2>1, <2>3, <2>4 DEF Grown
<1>6. ASSUME WritePart(new) PROVE Grown /\ torn' \in BOOLEAN
  <2>1. PICK k \in 0..m : \/ Write(SubSeq(new, 1, k))
                          \/ torn' = TRUE /\ lines' = lines \o SubSeq(new, 1, k)
    BY <1>1, <1>2, <1>6 DEF WritePart
  <2>2. lines' = lines \o SubSeq(new, 1, k) /\ torn' \in BOOLEAN
    BY <2>1, <1>3
  <2> QED BY <1>1, <2>2 DEF Grown
<1> QED BY <1>5, <1>6

\* A cut only takes the torn line away.
LEMMA CutTrims ==
  ASSUME Inv, NEW s \in Stores, pc[s] = "compare", Cut(s)
  PROVE  lines' = lines /\ torn' \in BOOLEAN /\ ~ torn'
<1>1. view[s] = lines /\ viewTorn[s] = torn /\ lines \in Seq(Nat) /\ torn \in BOOLEAN
  BY DEF Inv, TypeOK, ReadInv
<1>2. SubSeq(lines, 1, Len(lines)) = lines /\ Len(lines) \in Nat
  BY <1>1
<1>3. CASE torn
  <2>1. lines' = SubSeq(lines, 1, Len(lines)) /\ torn' = (Len(lines) > Len(lines))
    BY <1>1, <1>2, <1>3 DEF Cut
  <2>2. (Len(lines) > Len(lines)) = FALSE
    BY <1>2
  <2>3. torn' = FALSE
    BY <2>1, <2>2
  <2> QED BY <1>2, <2>1, <2>3
<1>4. CASE ~ torn
  BY <1>1, <1>4 DEF Cut, file
<1> QED BY <1>3, <1>4

\* Grown files are copies still.
LEMMA GrownCopies ==
  ASSUME Inv, Grown
  PROVE  /\ lines' \in Seq(Nat) /\ Len(lines') <= rows /\ \A i \in DOMAIN lines' : lines'[i] = i
         /\ Len(lines) <= Len(lines') /\ \A i \in DOMAIN lines : lines'[i] = lines[i]
<1>1. Copies(lines, rows) /\ lines \in Seq(Nat) /\ rows \in Nat
  BY DEF Inv, TypeOK, MirrorsCommitted, Copies
<1>2. PICK k \in 0..(rows - Len(lines)) : lines' = lines \o SubSeq(Suffix(Len(lines), rows), 1, k)
  BY DEF Grown
<1>3. /\ lines' \in Seq(Nat) /\ Len(lines') = Len(lines) + k /\ Copies(lines', rows)
      /\ \A i \in DOMAIN lines : lines'[i] = lines[i]
  BY <1>1, <1>2, CopyGrows
<1> QED BY <1>1, <1>3 DEF Copies

-----------------------------------------------------------------------------

LEMMA InvInit == Init => Inv
<1> SUFFICES ASSUME Init PROVE Inv
  OBVIOUS
<1> USE DEF Init
<1>1. TypeOK
  <2>1. <<>> \in Seq(Nat)
    OBVIOUS
  <2>2. view \in [Stores -> Seq(Nat)] /\ lines \in Seq(Nat)
    BY <2>1
  <2>3. torn \in BOOLEAN /\ corrupt \in BOOLEAN
    OBVIOUS
  <2>4. viewTorn \in [Stores -> BOOLEAN] /\ lagging \in [Stores -> BOOLEAN]
    OBVIOUS
  <2> QED BY <2>2, <2>3, <2>4 DEF TypeOK, Points
<1>2. ReadInv /\ MirrorsCommitted /\ ComplaintOrCopy
  BY DEF ReadInv, MirrorsCommitted, ComplaintOrCopy
<1> QED BY <1>1, <1>2 DEF Inv

\* The only store there is: its step is everybody's.
LEMMA InvStep == OneStore /\ Inv /\ [Next]_vars => Inv'
<1> SUFFICES ASSUME OneStore, Inv, [Next]_vars PROVE Inv'
  OBVIOUS
<1> USE MirrorAssumption DEF Inv, TypeOK, ReadInv, MirrorsCommitted, ComplaintOrCopy, Points, Goto
<1>1. ASSUME NEW s \in Stores, OpenStore(s) \/ CloseStore(s) PROVE Inv'
  <2>1. TypeOK'
    BY <1>1 DEF OpenStore, CloseStore, file, seenVars
  <2>2. ReadInv'
    BY <1>1 DEF OpenStore, CloseStore, file, seenVars
  <2>3. MirrorsCommitted' /\ ComplaintOrCopy'
    BY <1>1 DEF OpenStore, CloseStore, file, seenVars
  <2> QED BY <2>1, <2>2, <2>3
<1>2. ASSUME NEW s \in Stores, Commit(s) PROVE Inv'
  BY <1>2 DEF Commit, file, seenVars, OneStore
<1>3. ASSUME NEW s \in Stores, ReadRows(s) PROVE Inv'
  BY <1>3 DEF ReadRows, file, OneStore
<1>4. ASSUME NEW s \in Stores, ReadFile(s) PROVE Inv'
  BY <1>4 DEF ReadFile, file, OneStore
<1>5. ASSUME NEW s \in Stores, Compare(s) PROVE Inv'
  <2>1. lines' = lines /\ torn' \in BOOLEAN /\ ~ torn'
    BY <1>5, CutTrims DEF Compare
  <2>2. Agrees(s)
    BY <1>5 DEF Compare, Agrees
  <2>3. TypeOK'
    <3>1. /\ rows' \in Nat /\ faults' \in Nat /\ pc' \in [Stores -> Points]
          /\ UNCHANGED <<expected, view, viewTorn>>
      BY <1>5, <2>2 DEF Compare, seenVars
    <3>2. corrupt' = corrupt /\ opening' = opening /\ lagging' = lagging
      BY <1>5, <2>2 DEF Compare
    <3> QED BY <2>1, <2>2, <3>1, <3>2
  <2>4. ReadInv'
    <3>1. pc'[s] = "append" /\ UNCHANGED <<rows, expected, view>>
      BY <1>5, <2>2 DEF Compare, seenVars
    <3> QED BY <1>5, <2>1, <3>1 DEF OneStore, Compare
  <2>5. MirrorsCommitted'
    BY <1>5, <2>1, <2>2 DEF Compare
  <2>6. pc'[s] = "append" /\ ~ corrupt'
    BY <1>5, <2>1, <2>2 DEF Compare
  <2>7. ComplaintOrCopy'
    BY <2>6 DEF OneStore
  <2> QED BY <2>3, <2>4, <2>5, <2>7
<1>6. ASSUME NEW s \in Stores, AppendMissing(s) PROVE Inv'
  <2>1. Grown /\ torn' \in BOOLEAN /\ ~ torn' /\ Len(lines') = rows
    BY <1>6, WritesGrow DEF AppendMissing
  <2>2. lines' \in Seq(Nat) /\ Len(lines') <= rows /\ \A i \in DOMAIN lines' : lines'[i] = i
    BY <2>1, GrownCopies
  <2>3. TypeOK'
    <3>1. /\ rows' \in Nat /\ faults' \in Nat /\ pc' \in [Stores -> Points]
          /\ UNCHANGED <<expected, view, viewTorn>>
      BY <1>6, <2>2 DEF AppendMissing, seenVars
    <3>2. corrupt' = corrupt /\ opening' \subseteq Stores /\ lagging' \in [Stores -> BOOLEAN]
      BY <1>6, <2>2 DEF AppendMissing
    <3> QED BY <2>1, <2>2, <3>1, <3>2
  <2>4. ReadInv'
    <3>1. pc'[s] = "open"
      BY <1>6, <2>2 DEF AppendMissing, seenVars
    <3> QED BY <1>6, <2>1, <3>1 DEF OneStore
  <2>5. MirrorsCommitted'
    BY <1>6, <2>1, <2>2 DEF AppendMissing
  <2>6. pc'[s] = "open" /\ Len(lines') = rows' /\ ~ torn' /\ ~ corrupt'
    BY <1>6, <2>1, <2>2 DEF AppendMissing
  <2>7. ComplaintOrCopy'
    BY <2>6 DEF OneStore
  <2> QED BY <2>3, <2>4, <2>5, <2>7
<1>7. ASSUME NEW s \in Stores, WriteFails(s) PROVE Inv'
  <2>1. Grown /\ torn' \in BOOLEAN
    BY <1>7, WritesGrow DEF WriteFails
  <2>2. lines' \in Seq(Nat) /\ Len(lines') <= rows /\ \A i \in DOMAIN lines' : lines'[i] = i
    BY <2>1, GrownCopies
  <2>3. TypeOK'
    <3>1. (Goto(s, "closed") \/ Goto(s, "open")) /\ rows' = rows /\ faults' = faults + 1
          /\ UNCHANGED <<expected, view, viewTorn>>
      BY <1>7 DEF WriteFails, seenVars
    <3>2. pc' \in [Stores -> Points]
      BY <3>1
    <3>3. rows' \in Nat /\ faults' \in Nat /\ pc' \in [Stores -> Points]
      BY <3>1, <3>2
    <3>4. corrupt' = corrupt /\ opening' \subseteq Stores /\ lagging' \in [Stores -> BOOLEAN]
      BY <1>7, <2>2 DEF WriteFails
    <3> QED BY <2>1, <2>2, <3>1, <3>3, <3>4
  <2>4. ReadInv'
    <3>1. pc'[s] \in {"open", "closed"}
      BY <1>7, <2>2 DEF WriteFails, seenVars
    <3> QED BY <1>7, <2>1, <3>1 DEF OneStore
  <2>5. MirrorsCommitted'
    BY <1>7, <2>1, <2>2 DEF WriteFails
  <2>6. (pc'[s] = "open" => lagging'[s]) /\ ~ corrupt'
    BY <1>7, <2>1, <2>2 DEF WriteFails
  <2>7. ComplaintOrCopy'
    BY <2>6 DEF OneStore
  <2> QED BY <2>3, <2>4, <2>5, <2>7
<1>8. ASSUME NEW s \in Stores, Die(s) PROVE Inv'
  <2>1. /\ lines' \in Seq(Nat) /\ Len(lines') <= rows /\ \A i \in DOMAIN lines' : lines'[i] = i
        /\ torn' \in BOOLEAN
    BY <1>8, WritesGrow, GrownCopies DEF Die, file
  <2> QED BY <1>8, <2>1 DEF Die, seenVars, OneStore
<1>9. CASE UNCHANGED vars
  BY <1>9 DEF vars, file, seenVars
<1> QED
  BY <1>1, <1>2, <1>3, <1>4, <1>5, <1>6, <1>7, <1>8, <1>9 DEF Next

\* The inductive core, for a store that is open in one process at a time.
THEOREM MirrorCorrect == OneStore => (Spec => []Inv)
<1> SUFFICES ASSUME OneStore PROVE Spec => []Inv
  OBVIOUS
<1>1. Inv /\ [Next]_vars => Inv'
  BY InvStep
<1> QED BY InvInit, <1>1, PTL DEF Spec

-----------------------------------------------------------------------------
(* What the runs check.                                                    *)

\* The complete lines of the file are the first events SQLite has committed.
THEOREM LinesAreCommitted == OneStore => (Spec => []MirrorsCommitted)
BY MirrorCorrect, PTL DEF Inv

\* The store has all events in the file or remembers an error, and never takes
\* its own file for a corrupted one.
THEOREM FileIsCompleteOrComplainedOf == OneStore => (Spec => []ComplaintOrCopy)
BY MirrorCorrect, PTL DEF Inv

\* No complete line is taken back or changed.
THEOREM LinesAreKept == OneStore => (Spec => LinesStay)
<1>1. ASSUME Inv, Next
      PROVE  Len(lines) <= Len(lines') /\ \A i \in DOMAIN lines : lines'[i] = lines[i]
  <2>1. PICK s \in Stores :
           \/ OpenStore(s) \/ Commit(s) \/ ReadRows(s) \/ ReadFile(s) \/ Compare(s)
           \/ AppendMissing(s) \/ CloseStore(s) \/ WriteFails(s) \/ Die(s)
    BY <1>1 DEF Next
  <2>2. CASE OpenStore(s) \/ Commit(s) \/ ReadRows(s) \/ ReadFile(s) \/ CloseStore(s)
    BY <1>1, <2>2 DEF OpenStore, Commit, ReadRows, ReadFile, CloseStore, file, Inv, TypeOK
  <2>3. CASE Compare(s)
    BY <1>1, <2>3, CutTrims DEF Compare, Inv, TypeOK
  <2>4. CASE AppendMissing(s) \/ WriteFails(s) \/ Die(s)
    BY <1>1, <2>4, WritesGrow, GrownCopies DEF AppendMissing, WriteFails, Die, file, Inv, TypeOK
  <2> QED BY <2>1, <2>2, <2>3, <2>4
<1>2. Inv /\ [Next]_vars => [/\ Len(lines) <= Len(lines')
                             /\ \A i \in DOMAIN lines : lines'[i] = lines[i]]_vars
  BY <1>1
<1> QED BY <1>2, MirrorCorrect, PTL DEF Spec, LinesStay
=============================================================================
