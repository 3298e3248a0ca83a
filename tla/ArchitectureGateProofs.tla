----------------------- MODULE ArchitectureGateProofs -----------------------
(* Theorems about evidence and the gate, for any files, charters and limits, *)
(* any number of inspectors and gates, and any changes of the checkout.      *)
EXTENDS ArchitectureGate, TLAPS

-----------------------------------------------------------------------------
(* What has been seen of the checkout.                                     *)

Checkouts == [head : Nat, charter : Charters \cup {None}, files : [Paths -> Contents \cup {None}]]

\* The checkouts there have been, and who may be reading them.
PastInv ==
    /\ past \in Seq(Checkouts) /\ past # <<>>
    /\ DOMAIN at = Inspectors \cup Gates

\* An item of evidence was true at some moment from one checkout to another.
Seen(item, first, last) == \E n \in first..last : past[n].files[item[1]] = item[2]

Evidenced(evidence, first, last) ==
    \A n \in 1..Len(evidence) : Seen(evidence[n], first, last)

\* Evidence is a sequence, of whatever items.
IsSequence(s) == s \in Seq({s[n] : n \in DOMAIN s})

Reading == {"pc", "selected", "base", "count", "todo", "truncated", "evidence"}
Claiming == {"pc", "dossier", "head", "from"}

-----------------------------------------------------------------------------
(* The inductive invariant.                                                *)

\* What an inspector holds, and what is stored, was true when it was read.
InspectorReads(r) ==
    r.pc # "away" =>
        /\ Reading \subseteq DOMAIN r
        /\ IsSequence(r.evidence)
        /\ Evidenced(r.evidence, 1, Len(past))

InspectorInv == \A i \in Inspectors : InspectorReads(at[i])

StoredInv ==
    \A context \in whole \cup partial :
        IsSequence(context.evidence) /\ Evidenced(context.evidence, 1, Len(past))

\* A dossier cites what was evidence before its validation began.
DossierInv(r) ==
    /\ r.from \in 1..Len(past)
    /\ r.dossier.cites \in Items
    /\ IsSequence(r.dossier.context.evidence)
    /\ Evidenced(r.dossier.context.evidence, 1, r.from)

\* The gate reads HEAD, then the charter, then HEAD again, then files.
HeadRead(r) == Claiming \subseteq DOMAIN r /\ past[r.from].head = r.head

CharterRead(r) ==
    "charter" \in DOMAIN r /\ \E n \in r.from..Len(past) : past[n].charter = r.charter

FilesRead(r) ==
    \E n \in r.from..Len(past) : \E m \in n..Len(past) :
        /\ past[n].charter = r.charter
        /\ past[m].head = r.base
        /\ Evidenced(r.evidence, m, Len(past))

\* What an accepted dossier says was read in that order.
Upheld(d, from) ==
    /\ past[from].head = d.base
    /\ Seen(d.cites, 1, from)
    /\ \E n \in from..Len(past) : \E m \in n..Len(past) : \E k \in m..Len(past) :
          /\ past[n].charter = d.charter
          /\ past[m].head = d.base
          /\ past[k].files[d.cites[1]] = d.cites[2]

GateReads(r) ==
    /\ r.pc # "away" => DossierInv(r)
    /\ r.pc \in {"charter", "load", "base", "list", "file"} => HeadRead(r)
    /\ r.pc \in {"load", "base", "list", "file"} => CharterRead(r)
    /\ r.pc \in {"base", "list", "file"} => Reading \subseteq DOMAIN r /\ IsSequence(r.evidence)
    /\ r.pc \in {"base", "list"} => r.evidence = <<>>
    /\ r.pc \in {"list", "file"} => FilesRead(r)
    /\ r.pc = "ready" => Upheld(r.dossier, r.from)

GateInv == \A g \in Gates : GateReads(at[g])

Inv == PastInv /\ InspectorInv /\ StoredInv /\ GateInv
-----------------------------------------------------------------------------
(* Checkouts only add to what has been seen.                               *)

\* The checkouts there have been stay, and more may follow.
Grown ==
    /\ Len(past) \in Nat /\ Len(past') \in Nat /\ Len(past) <= Len(past')
    /\ \A n \in 1..Len(past) : past'[n] = past[n]

LEMMA PresentCheckout ==
    ASSUME PastInv
    PROVE  Len(past) \in Nat \ {0} /\ Now = past[Len(past)] /\ Now \in Checkouts
<1>1. past \in Seq(Checkouts) /\ past # <<>>
  BY DEF PastInv
<1>2. Len(past) \in Nat \ {0} /\ past[Len(past)] \in Checkouts
  BY <1>1
<1> QED BY <1>2 DEF Now, Last

LEMMA StandsStill ==
    ASSUME PastInv, past' = past
    PROVE  Grown
BY PresentCheckout DEF Grown

\* A change appends a checkout.
LEMMA ChangeGrows ==
    ASSUME PastInv, NEW w \in Checkouts, past' = Append(past, w)
    PROVE  Grown /\ past' \in Seq(Checkouts) /\ past' # <<>>
<1>1. past \in Seq(Checkouts)
  BY DEF PastInv
<1>2. Len(past') = Len(past) + 1 /\ \A n \in 1..Len(past) : past'[n] = past[n]
  BY <1>1
<1>3. past' \in Seq(Checkouts)
  BY <1>1
<1>4. past' # <<>> /\ Len(past) \in Nat
  BY <1>1, <1>2
<1> QED BY <1>2, <1>3, <1>4 DEF Grown

LEMMA SeenStays ==
    ASSUME Grown, NEW item, NEW first \in Nat \ {0}, NEW last \in Nat, NEW later \in Nat,
           last <= Len(past), last <= later, Seen(item, first, last)
    PROVE  Seen(item, first, later)'
BY DEF Grown, Seen

LEMMA EvidencedStays ==
    ASSUME Grown, NEW evidence, NEW first \in Nat \ {0}, NEW last \in Nat, NEW later \in Nat,
           last <= Len(past), last <= later, Evidenced(evidence, first, last)
    PROVE  Evidenced(evidence, first, later)'
BY SeenStays DEF Evidenced

\* What a gate has read, a later checkout leaves read.
LEMMA GateReadsStay ==
    ASSUME Grown, NEW r, GateReads(r)
    PROVE  GateReads(r)'
<1>1. ASSUME DossierInv(r) PROVE DossierInv(r)'
  <2>1. r.from \in Nat \ {0} /\ r.from <= Len(past) /\ r.from <= Len(past')
    BY <1>1 DEF DossierInv, Grown
  <2>2. Evidenced(r.dossier.context.evidence, 1, r.from)'
    BY <1>1, <2>1, EvidencedStays DEF DossierInv
  <2> QED BY <1>1, <2>1, <2>2 DEF DossierInv, Grown
<1>2. ASSUME DossierInv(r), HeadRead(r) PROVE HeadRead(r)'
  BY <1>2 DEF DossierInv, HeadRead, Grown
<1>3. ASSUME DossierInv(r), CharterRead(r) PROVE CharterRead(r)'
  BY <1>3 DEF DossierInv, CharterRead, Grown
<1>4. ASSUME DossierInv(r), FilesRead(r) PROVE FilesRead(r)'
  <2>0. PICK n \in r.from..Len(past) : \E m \in n..Len(past) :
          past[n].charter = r.charter /\ past[m].head = r.base /\ Evidenced(r.evidence, m, Len(past))
    BY <1>4 DEF FilesRead
  <2>1. PICK m \in n..Len(past) :
          past[n].charter = r.charter /\ past[m].head = r.base /\ Evidenced(r.evidence, m, Len(past))
    BY <2>0
  <2>2. /\ n \in 1..Len(past) /\ m \in 1..Len(past) /\ n \in r.from..Len(past')
        /\ m \in n..Len(past')
    BY <1>4 DEF DossierInv, Grown
  <2>3. Evidenced(r.evidence, m, Len(past))'
    BY <2>1, <2>2, EvidencedStays DEF Grown
  <2>4. past'[n] = past[n] /\ past'[m] = past[m]
    BY <2>2 DEF Grown
  <2> QED BY <2>1, <2>2, <2>3, <2>4 DEF FilesRead
<1>5. ASSUME DossierInv(r), Upheld(r.dossier, r.from) PROVE Upheld(r.dossier, r.from)'
  <2>1. r.from \in 1..Len(past) /\ r.from \in Nat \ {0}
    BY <1>5 DEF DossierInv, Grown
  <2> DEFINE Read(n, m, k) ==
          /\ past[n].charter = r.dossier.charter
          /\ past[m].head = r.dossier.base
          /\ past[k].files[r.dossier.cites[1]] = r.dossier.cites[2]
  <2>2a. PICK n \in r.from..Len(past) : \E m \in n..Len(past) : \E k \in m..Len(past) : Read(n, m, k)
    BY <1>5 DEF Upheld
  <2>2b. PICK m \in n..Len(past) : \E k \in m..Len(past) : Read(n, m, k)
    BY <2>2a
  <2>2. PICK k \in m..Len(past) : Read(n, m, k)
    BY <2>2b
  <2>3. /\ n \in 1..Len(past) /\ m \in 1..Len(past) /\ k \in 1..Len(past)
        /\ n \in r.from..Len(past') /\ m \in n..Len(past') /\ k \in m..Len(past')
    BY <2>1, <2>2 DEF Grown
  <2>4. past'[n] = past[n] /\ past'[m] = past[m] /\ past'[k] = past[k]
    BY <2>3 DEF Grown
  <2>5. Seen(r.dossier.cites, 1, r.from)'
    BY <1>5, <2>1, SeenStays DEF Upheld
  <2>6. past'[r.from].head = r.dossier.base
    BY <1>5, <2>1 DEF Upheld, Grown
  <2> QED BY <2>2, <2>3, <2>4, <2>5, <2>6 DEF Upheld
<1> QED
  <2> HIDE DEF Reading, Claiming
  <2> QED BY <1>1, <1>2, <1>3, <1>4, <1>5 DEF GateReads

\* One more item of evidence, true now.
LEMMA EvidenceGrows ==
    ASSUME NEW s, IsSequence(s), NEW item
    PROVE  /\ IsSequence(Append(s, item)) /\ Len(s) \in Nat
           /\ Len(Append(s, item)) = Len(s) + 1
           /\ \A n \in 1..Len(s) : Append(s, item)[n] = s[n]
           /\ Append(s, item)[Len(s) + 1] = item
<1> DEFINE S == {s[n] : n \in DOMAIN s}
           more == S \cup {item}
           t == Append(s, item)
<1>1. s \in Seq(S)
  BY DEF IsSequence
<1> HIDE DEF S
<1>2. s \in Seq(more) /\ item \in more
  BY <1>1
<1> HIDE DEF more
<1>3. /\ Len(s) \in Nat /\ t \in Seq(more) /\ Len(t) = Len(s) + 1
      /\ \A n \in 1..Len(s) : t[n] = s[n]
      /\ t[Len(s) + 1] = item
  BY <1>2
<1>4. t \in Seq({t[n] : n \in DOMAIN t})
  <2> HIDE DEF t
  <2>1. DOMAIN t = 1..Len(t) /\ Len(t) \in Nat /\ t = [n \in 1..Len(t) |-> t[n]]
    BY <1>3
  <2>2. \A n \in 1..Len(t) : t[n] \in {t[k] : k \in DOMAIN t}
    BY <2>1
  <2> QED BY <2>1, <2>2
<1> QED BY <1>3, <1>4 DEF IsSequence

LEMMA EmptyEvidence == IsSequence(<<>>) /\ Len(<<>>) = 0
BY DEF IsSequence
-----------------------------------------------------------------------------
(* One process moves.                                                      *)

LEMMA InspectorReadsStay ==
    ASSUME Grown, NEW r, InspectorReads(r)
    PROVE  InspectorReads(r)'
<1>1. ASSUME Evidenced(r.evidence, 1, Len(past)) PROVE Evidenced(r.evidence, 1, Len(past))'
  BY <1>1, EvidencedStays DEF Grown
<1> QED
  <2> HIDE DEF Reading
  <2> QED BY <1>1 DEF InspectorReads

LEMMA StoredStay == ASSUME Grown, StoredInv, UNCHANGED <<whole, partial>> PROVE StoredInv'
<1>1. ASSUME NEW c \in whole \cup partial, Evidenced(c.evidence, 1, Len(past))
      PROVE  Evidenced(c.evidence, 1, Len(past))'
  BY <1>1, EvidencedStays DEF Grown
<1> QED BY <1>1 DEF StoredInv

\* What a process holds after a step is what it was given.
LEMMA HoldsWhatIsGiven ==
    ASSUME NEW p, NEW r, at'[p] = r
    PROVE  /\ InspectorReads(r)' => InspectorReads(at[p])'
           /\ GateReads(r)' => GateReads(at[p])'
<1>1. InspectorReads(r)' => InspectorReads(at[p])'
  BY DEF InspectorReads, Evidenced, Seen
<1>2. GateReads(r)' => GateReads(at[p])'
  BY DEF GateReads, DossierInv, HeadRead, CharterRead, FilesRead, Upheld, Evidenced, Seen
<1> QED BY <1>1, <1>2

\* A step of one process leaves what the others hold as it was.
LEMMA OneMoves ==
    ASSUME Inv, NEW p \in Inspectors \cup Gates, DOMAIN at' = DOMAIN at,
           \A q \in (Inspectors \cup Gates) \ {p} : at'[q] = at[q],
           past' = past, StoredInv',
           p \in Inspectors => InspectorReads(at[p])',
           p \in Gates => GateReads(at[p])'
    PROVE  Inv'
<1>1. Grown
  BY StandsStill DEF Inv
<1>2. \A q \in (Inspectors \cup Gates) \ {p} : at'[q] = at[q]
  OBVIOUS
<1>3. PastInv'
  BY DEF Inv, PastInv
<1>4. ASSUME NEW i \in Inspectors PROVE InspectorReads(at[i])'
  <2>1. CASE i = p
    BY <2>1
  <2>2. CASE i # p
    <3>1. PICK x : x = at[i]
      OBVIOUS
    <3>2. InspectorReads(x)' /\ at'[i] = x
      BY <1>1, <1>2, <2>2, <3>1, InspectorReadsStay DEF Inv, InspectorInv
    <3> QED BY <3>2, HoldsWhatIsGiven
  <2> QED BY <2>1, <2>2
<1>5. ASSUME NEW g \in Gates PROVE GateReads(at[g])'
  <2>1. CASE g = p
    BY <2>1
  <2>2. CASE g # p
    <3>1. PICK x : x = at[g]
      OBVIOUS
    <3>2. GateReads(x)' /\ at'[g] = x
      BY <1>1, <1>2, <2>2, <3>1, GateReadsStay DEF Inv, GateInv
    <3> QED BY <3>2, HoldsWhatIsGiven
  <2> QED BY <2>1, <2>2
<1> QED BY <1>3, <1>4, <1>5 DEF Inv, InspectorInv, GateInv

\* A process that stops holds nothing.
LEMMA AwayHoldsNothing == InspectorReads(Away)' /\ GateReads(Away)'
BY DEF Away, InspectorReads, GateReads

\* A gate's claim, once read, stays through its inspection.
LEMMA ClaimStays ==
    ASSUME NEW r, NEW u, DOMAIN u = DOMAIN r, u.dossier = r.dossier, u.from = r.from,
           u.head = r.head, u.charter = r.charter, DossierInv(r), HeadRead(r), CharterRead(r)
    PROVE  DossierInv(u) /\ HeadRead(u) /\ CharterRead(u)
BY DEF DossierInv, HeadRead, CharterRead

\* What a process that inspects has in its record.
Inspecting == {"base", "list", "file"}

LEMMA RecordInInspection ==
    ASSUME Inv, NEW p \in Inspectors \cup Gates, at[p].pc \in Inspecting
    PROVE  /\ Reading \subseteq DOMAIN at[p] /\ IsSequence(at[p].evidence)
           /\ p \in Gates => Claiming \cup {"charter"} \subseteq DOMAIN at[p]
<1>1. CASE p \in Inspectors
  <2>1. p \notin Gates
    BY <1>1, GateAssumption
  <2>2. InspectorReads(at[p]) /\ at[p].pc # "away"
    BY <1>1 DEF Inv, InspectorInv, Inspecting
  <2> QED BY <2>1, <2>2 DEF InspectorReads
<1>2. CASE p \in Gates
  <2>1. GateReads(at[p])
    BY <1>2 DEF Inv, GateInv
  <2> QED BY <1>2, <2>1 DEF GateReads, HeadRead, CharterRead, Inspecting
<1> QED BY <1>1, <1>2

LEMMA ReadBaseStep == ASSUME Inv, NEW p \in Inspectors \cup Gates, ReadBase(p) PROVE Inv'
<1> DEFINE r == at[p]
           u == at'[p]
<1>1. /\ r.pc = "base" /\ past' = past /\ whole' = whole /\ partial' = partial
      /\ at' = [at EXCEPT ![p].pc = "list", ![p].base = Now.head]
  BY DEF ReadBase
<1>2. /\ Reading \subseteq DOMAIN r /\ IsSequence(r.evidence)
      /\ p \in Gates => Claiming \cup {"charter"} \subseteq DOMAIN r
  BY <1>1, RecordInInspection DEF Inspecting
<1>3. p \in DOMAIN at
  BY DEF Inv, PastInv
<1>4. /\ DOMAIN at' = DOMAIN at /\ \A q \in (Inspectors \cup Gates) \ {p} : at'[q] = at[q]
      /\ u = [r EXCEPT !.pc = "list", !.base = Now.head]
  BY <1>1, <1>3 DEF Inv, PastInv
<1>5. /\ DOMAIN u = DOMAIN r /\ u.pc = "list" /\ u.base = Now.head /\ u.evidence = r.evidence
      /\ p \in Gates => /\ u.dossier = r.dossier /\ u.from = r.from /\ u.head = r.head
                        /\ u.charter = r.charter
  BY <1>2, <1>4 DEF Reading, Claiming
<1>6. Grown /\ StoredInv'
  BY <1>1, StandsStill, StoredStay DEF Inv
<1>7. ASSUME p \in Inspectors PROVE InspectorReads(at[p])'
  <2>1. InspectorReads(r)
    BY <1>7 DEF Inv, InspectorInv
  <2> QED BY <1>1, <1>2, <1>5, <2>1 DEF InspectorReads, Evidenced, Seen
<1>8. ASSUME p \in Gates PROVE GateReads(at[p])'
  <2>1. GateReads(r)
    BY <1>8 DEF Inv, GateInv
  <2>2. DossierInv(r) /\ HeadRead(r) /\ CharterRead(r) /\ r.evidence = <<>>
    BY <1>1, <2>1 DEF GateReads
  <2>3. DossierInv(u) /\ HeadRead(u) /\ CharterRead(u)
    BY <1>5, <1>8, <2>2, ClaimStays
  <2>4. FilesRead(u)
    <3>1. PICK n \in u.from..Len(past) : past[n].charter = u.charter
      BY <2>3 DEF CharterRead
    <3>2. u.from \in 1..Len(past) /\ Len(past) \in n..Len(past) /\ past[Len(past)].head = u.base
      BY <1>5, <2>3, <3>1, PresentCheckout DEF DossierInv, Inv
    <3>3. Evidenced(u.evidence, Len(past), Len(past))
      BY <1>5, <2>2, EmptyEvidence DEF Evidenced
    <3> QED BY <3>1, <3>2, <3>3 DEF FilesRead
  <2>5. GateReads(u)
    <3> HIDE DEF u, r, Reading
    <3> QED BY <1>2, <1>5, <2>2, <2>3, <2>4 DEF GateReads
  <2>6. PICK x : x = u
    OBVIOUS
  <2>7. GateReads(x)' /\ at'[p] = x
    BY <1>6, <2>5, <2>6, GateReadsStay
  <2> QED BY <2>7, HoldsWhatIsGiven
<1> QED BY <1>1, <1>4, <1>6, <1>7, <1>8, OneMoves

\* A process that fails, rejects or is done.
LEMMA StopStep ==
    ASSUME Inv, NEW p \in Inspectors \cup Gates, at' = [at EXCEPT ![p] = Away],
           past' = past, StoredInv'
    PROVE  Inv'
<1>1. p \in DOMAIN at
  BY DEF Inv, PastInv
<1>2. /\ DOMAIN at' = DOMAIN at /\ \A q \in (Inspectors \cup Gates) \ {p} : at'[q] = at[q]
      /\ at'[p] = Away
  BY <1>1 DEF Inv, PastInv
<1>3. InspectorReads(at[p])' /\ GateReads(at[p])'
  BY <1>2, AwayHoldsNothing, HoldsWhatIsGiven
<1> QED BY <1>2, <1>3, OneMoves

LEMMA ListFilesStep == ASSUME Inv, NEW p \in Inspectors \cup Gates, ListFiles(p) PROVE Inv'
<1> DEFINE r == at[p]
           u == at'[p]
           tracked == {q \in Paths : Now.files[q] # None}
<1>1. /\ r.pc = "list" /\ past' = past /\ whole' = whole /\ partial' = partial
      /\ \/ at' = [at EXCEPT ![p].pc = "file", ![p].count = Cardinality(tracked),
                             ![p].todo = Ordered(at[p].selected, tracked)]
         \/ at' = [at EXCEPT ![p] = Away]
  BY DEF ListFiles
<1>2. Grown /\ StoredInv'
  BY <1>1, StandsStill, StoredStay DEF Inv
<1>3. CASE at' = [at EXCEPT ![p] = Away]
  BY <1>1, <1>2, <1>3, StopStep
<1>4. CASE at' = [at EXCEPT ![p].pc = "file", ![p].count = Cardinality(tracked),
                            ![p].todo = Ordered(at[p].selected, tracked)]
  <2>1. /\ Reading \subseteq DOMAIN r /\ IsSequence(r.evidence)
        /\ p \in Gates => Claiming \cup {"charter"} \subseteq DOMAIN r
    BY <1>1, RecordInInspection DEF Inspecting
  <2>2. p \in DOMAIN at
    BY DEF Inv, PastInv
  <2>3. /\ DOMAIN at' = DOMAIN at /\ \A q \in (Inspectors \cup Gates) \ {p} : at'[q] = at[q]
        /\ u = [r EXCEPT !.pc = "file", !.count = Cardinality(tracked),
                         !.todo = Ordered(at[p].selected, tracked)]
    BY <1>4, <2>2 DEF Inv, PastInv
  <2>4. /\ DOMAIN u = DOMAIN r /\ u.pc = "file" /\ u.base = r.base /\ u.evidence = r.evidence
        /\ p \in Gates => /\ u.dossier = r.dossier /\ u.from = r.from /\ u.head = r.head
                          /\ u.charter = r.charter
    BY <2>1, <2>3 DEF Reading, Claiming
  <2>5. ASSUME p \in Inspectors PROVE InspectorReads(at[p])'
    <3>1. InspectorReads(r)
      BY <2>5 DEF Inv, InspectorInv
    <3> QED BY <1>1, <2>1, <2>4, <3>1 DEF InspectorReads, Evidenced, Seen
  <2>6. ASSUME p \in Gates PROVE GateReads(at[p])'
    <3>1. GateReads(r)
      BY <2>6 DEF Inv, GateInv
    <3>2. DossierInv(r) /\ HeadRead(r) /\ CharterRead(r) /\ FilesRead(r)
      BY <1>1, <3>1 DEF GateReads
    <3>3. DossierInv(u) /\ HeadRead(u) /\ CharterRead(u)
      BY <2>4, <2>6, <3>2, ClaimStays
    <3>4. FilesRead(u)
      BY <2>4, <2>6, <3>2 DEF FilesRead
    <3>5. GateReads(u)
      <4> HIDE DEF u, r, Reading
      <4> QED BY <2>1, <2>4, <3>3, <3>4 DEF GateReads
    <3>6. PICK x : x = u
      OBVIOUS
    <3>7. GateReads(x)' /\ at'[p] = x
      BY <1>2, <3>5, <3>6, GateReadsStay
    <3> QED BY <3>7, HoldsWhatIsGiven
  <2> QED BY <1>1, <1>2, <2>3, <2>5, <2>6, OneMoves
<1> QED BY <1>1, <1>3, <1>4

LEMMA ReadFileStep == ASSUME Inv, NEW p \in Inspectors \cup Gates, ReadFile(p) PROVE Inv'
<1> DEFINE r == at[p]
           u == at'[p]
           item == <<Head(r.todo), Now.files[Head(r.todo)]>>
<1>1. /\ r.pc = "file" /\ past' = past /\ whole' = whole /\ partial' = partial
      /\ \/ at' = [at EXCEPT ![p].todo = Tail(@)]
         \/ at' = [at EXCEPT ![p].todo = <<>>, ![p].truncated = TRUE]
         \/ at' = [at EXCEPT ![p].todo = Tail(@), ![p].evidence = Append(@, item)]
  BY DEF ReadFile
<1>2. /\ Reading \subseteq DOMAIN r /\ IsSequence(r.evidence)
      /\ p \in Gates => Claiming \cup {"charter"} \subseteq DOMAIN r
  BY <1>1, RecordInInspection DEF Inspecting
<1>3. p \in DOMAIN at
  BY DEF Inv, PastInv
<1>4. /\ DOMAIN at' = DOMAIN at /\ \A q \in (Inspectors \cup Gates) \ {p} : at'[q] = at[q]
      /\ \/ u = [r EXCEPT !.todo = Tail(@)]
         \/ u = [r EXCEPT !.todo = <<>>, !.truncated = TRUE]
         \/ u = [r EXCEPT !.todo = Tail(@), !.evidence = Append(@, item)]
  <2> HIDE DEF item
  <2> QED BY <1>1, <1>3 DEF Inv, PastInv
<1>5. /\ DOMAIN u = DOMAIN r /\ u.pc = "file" /\ u.base = r.base
      /\ u.evidence \in {r.evidence, Append(r.evidence, item)}
      /\ p \in Gates => /\ u.dossier = r.dossier /\ u.from = r.from /\ u.head = r.head
                        /\ u.charter = r.charter
  <2> HIDE DEF item
  <2> QED BY <1>1, <1>2, <1>4 DEF Reading, Claiming
<1>6. Grown /\ StoredInv'
  BY <1>1, StandsStill, StoredStay DEF Inv
<1>7. IsSequence(u.evidence)
  <2>1. IsSequence(Append(r.evidence, item))
    BY <1>2, EvidenceGrows
  <2> HIDE DEF item, u, r
  <2> QED BY <1>2, <1>5, <2>1
<1>8. ASSUME NEW first \in 1..Len(past), Evidenced(r.evidence, first, Len(past))
      PROVE  Evidenced(u.evidence, first, Len(past))
  <2>1. Seen(item, first, Len(past))
    <3>1. Len(past) \in first..Len(past) /\ Now = past[Len(past)]
      BY PresentCheckout DEF Inv
    <3> QED BY <3>1 DEF Seen
  <2> HIDE DEF item, u, r
  <2>2. CASE u.evidence = r.evidence
    BY <1>8, <2>2
  <2>3. CASE u.evidence = Append(r.evidence, item)
    <3>1. /\ Len(r.evidence) \in Nat /\ Len(u.evidence) = Len(r.evidence) + 1
          /\ \A n \in 1..Len(r.evidence) : u.evidence[n] = r.evidence[n]
          /\ u.evidence[Len(r.evidence) + 1] = item
      BY <1>2, <2>3, EvidenceGrows
    <3> QED BY <1>8, <2>1, <3>1 DEF Evidenced
  <2> QED BY <1>5, <2>2, <2>3
<1>9. ASSUME p \in Inspectors PROVE InspectorReads(at[p])'
  <2>1. InspectorReads(r) /\ 1 \in 1..Len(past)
    BY <1>9, PresentCheckout DEF Inv, InspectorInv
  <2>2. Evidenced(u.evidence, 1, Len(past))
    BY <1>1, <1>8, <2>1 DEF InspectorReads
  <2> QED BY <1>1, <1>2, <1>5, <1>7, <2>2 DEF InspectorReads, Evidenced, Seen
<1>10. ASSUME p \in Gates PROVE GateReads(at[p])'
  <2>1. GateReads(r)
    BY <1>10 DEF Inv, GateInv
  <2>2. DossierInv(r) /\ HeadRead(r) /\ CharterRead(r) /\ FilesRead(r)
    BY <1>1, <2>1 DEF GateReads
  <2>3. DossierInv(u) /\ HeadRead(u) /\ CharterRead(u)
    BY <1>5, <1>10, <2>2, ClaimStays
  <2>4. FilesRead(u)
    <3>1. PICK n \in r.from..Len(past) : \E m \in n..Len(past) :
            /\ past[n].charter = r.charter
            /\ past[m].head = r.base
            /\ Evidenced(r.evidence, m, Len(past))
      BY <2>2 DEF FilesRead
    <3>2. PICK m \in n..Len(past) :
            /\ past[n].charter = r.charter
            /\ past[m].head = r.base
            /\ Evidenced(r.evidence, m, Len(past))
      BY <3>1
    <3>3. m \in 1..Len(past)
      BY <2>2, PresentCheckout DEF DossierInv, Inv
    <3>4. Evidenced(u.evidence, m, Len(past))
      BY <1>8, <3>2, <3>3
    <3> HIDE DEF u, r
    <3> QED BY <1>5, <1>10, <3>1, <3>2, <3>4 DEF FilesRead
  <2>5. GateReads(u)
    <3> HIDE DEF u, r, Reading
    <3> QED BY <1>2, <1>5, <1>7, <2>3, <2>4 DEF GateReads
  <2>6. PICK x : x = u
    OBVIOUS
  <2>7. GateReads(x)' /\ at'[p] = x
    BY <1>6, <2>5, <2>6, GateReadsStay
  <2> QED BY <2>7, HoldsWhatIsGiven
<1> QED BY <1>1, <1>4, <1>6, <1>9, <1>10, OneMoves
-----------------------------------------------------------------------------
(* Inspectors.                                                             *)

LEMMA InspectStep ==
    ASSUME Inv, NEW i \in Inspectors, NEW selected \in SUBSET Paths, Inspect(i, selected)
    PROVE  Inv'
<1>1. /\ at' = [at EXCEPT ![i] = Unread(selected)]
      /\ past' = past /\ whole' = whole /\ partial' = partial /\ i \notin Gates
  BY GateAssumption DEF Inspect
<1>2. i \in DOMAIN at
  BY DEF Inv, PastInv
<1>3. /\ DOMAIN at' = DOMAIN at /\ \A q \in (Inspectors \cup Gates) \ {i} : at'[q] = at[q]
      /\ at'[i] = Unread(selected)
  BY <1>1, <1>2 DEF Inv, PastInv
<1>4. InspectorReads(Unread(selected))'
  BY EmptyEvidence DEF InspectorReads, Unread, Reading, Evidenced
<1>5. StoredInv'
  BY <1>1, StandsStill, StoredStay DEF Inv
<1> QED BY <1>1, <1>3, <1>4, <1>5, HoldsWhatIsGiven, OneMoves

\* The context of an inspection is what it has read.
LEMMA ContextIsEvidenced ==
    ASSUME Inv, NEW i \in Inspectors, at[i].pc \in {"file", "open", "fill"}
    PROVE  IsSequence(Context(i).evidence) /\ Evidenced(Context(i).evidence, 1, Len(past))
<1>1. InspectorReads(at[i])
  BY DEF Inv, InspectorInv
<1> QED BY <1>1 DEF InspectorReads, Context

\* An inspector that goes on holds what it held.
LEMMA StillHeld ==
    ASSUME Inv, NEW i \in Inspectors, NEW pc, at[i].pc \in {"file", "open", "fill"},
           at' = [at EXCEPT ![i].pc = pc], past' = past, StoredInv'
    PROVE  Inv'
<1>1. i \in DOMAIN at /\ i \notin Gates
  BY GateAssumption DEF Inv, PastInv
<1>2. InspectorReads(at[i])
  BY DEF Inv, InspectorInv
<1>3. Reading \subseteq DOMAIN at[i]
  BY <1>2 DEF InspectorReads
<1>4. /\ DOMAIN at' = DOMAIN at /\ \A q \in (Inspectors \cup Gates) \ {i} : at'[q] = at[q]
      /\ at'[i] = [at[i] EXCEPT !.pc = pc]
  BY <1>1 DEF Inv, PastInv
<1>5. DOMAIN at'[i] = DOMAIN at[i] /\ at'[i].evidence = at[i].evidence
  BY <1>3, <1>4 DEF Reading
<1>6. InspectorReads(at[i])'
  BY <1>2, <1>3, <1>5 DEF InspectorReads, Evidenced, Seen
<1> QED BY <1>1, <1>4, <1>6, OneMoves

LEMMA PersistStep == ASSUME Inv, NEW i \in Inspectors, Persist(i) PROVE Inv'
<1>1. /\ UNCHANGED <<past, whole, partial>> /\ at[i].pc = "file"
      /\ at' = [at EXCEPT ![i] = Away] \/ at' = [at EXCEPT ![i].pc = "open"]
  BY Zenon DEF Persist, Inspected
<1>2. StoredInv'
  BY <1>1 DEF Inv, StoredInv, Evidenced, Seen
<1> QED BY <1>1, <1>2, StopStep, StillHeld

LEMMA OpenStep == ASSUME Inv, NEW i \in Inspectors, Open(i) PROVE Inv'
<1>1. /\ past' = past /\ at[i].pc = "open" /\ at' = [at EXCEPT ![i].pc = "fill"]
      /\ whole' = whole \ {Context(i)} /\ partial' = partial \cup {Context(i)}
  BY DEF Open
<1>2. \A c \in (whole \cup partial)' :
        IsSequence(c.evidence) /\ Evidenced(c.evidence, 1, Len(past))
  BY <1>1, ContextIsEvidenced DEF Inv, StoredInv
<1>3. StoredInv'
  BY <1>1, <1>2 DEF StoredInv, Evidenced, Seen
<1> QED BY <1>1, <1>3, StillHeld

LEMMA FillStep == ASSUME Inv, NEW i \in Inspectors, Fill(i) PROVE Inv'
<1>1. /\ past' = past /\ at[i].pc = "fill" /\ at' = [at EXCEPT ![i] = Away]
      /\ whole' = whole \cup {Context(i)} /\ partial' = partial \ {Context(i)}
  BY DEF Fill
<1>2. \A c \in (whole \cup partial)' :
        IsSequence(c.evidence) /\ Evidenced(c.evidence, 1, Len(past))
  BY <1>1, ContextIsEvidenced DEF Inv, StoredInv
<1>3. StoredInv'
  BY <1>1, <1>2 DEF StoredInv, Evidenced, Seen
<1> QED BY <1>1, <1>3, StopStep

LEMMA LoseStep == ASSUME Inv, NEW i \in Inspectors, Lose(i) PROVE Inv'
<1>1. at' = [at EXCEPT ![i] = Away] /\ past' = past /\ UNCHANGED <<whole, partial>>
  BY DEF Lose
<1>2. StoredInv'
  BY <1>1, StandsStill, StoredStay DEF Inv
<1> QED BY <1>1, <1>2, StopStep
-----------------------------------------------------------------------------
(* Gates.                                                                  *)

\* A gate that goes on with a record of its own.
LEMMA GateMoves ==
    ASSUME Inv, NEW g \in Gates, NEW r, at' = [at EXCEPT ![g] = r],
           UNCHANGED <<past, whole, partial>>, GateReads(r)
    PROVE  Inv'
<1>1. g \in DOMAIN at /\ g \notin Inspectors
  BY GateAssumption DEF Inv, PastInv
<1>2. /\ DOMAIN at' = DOMAIN at /\ \A q \in (Inspectors \cup Gates) \ {g} : at'[q] = at[q]
      /\ at'[g] = r
  BY <1>1 DEF Inv, PastInv
<1>3. Grown /\ StoredInv'
  BY StandsStill, StoredStay DEF Inv
<1>4. GateReads(r)'
  BY <1>3, GateReadsStay
<1> QED BY <1>1, <1>2, <1>3, <1>4, HoldsWhatIsGiven, OneMoves

LEMMA ValidateStep ==
    ASSUME Inv, NEW g \in Gates, NEW dossier \in Dossiers, Validate(g, dossier)
    PROVE  Inv'
<1> DEFINE r == [pc |-> "charter", dossier |-> dossier, head |-> Now.head, from |-> Len(past)]
<1>1. at' = [at EXCEPT ![g] = r] /\ UNCHANGED <<past, whole, partial>>
  BY DEF Validate
<1>2. dossier.context \in whole \cup partial /\ dossier.cites \in Items
  BY DEF Dossiers
<1>3. /\ IsSequence(dossier.context.evidence)
      /\ Evidenced(dossier.context.evidence, 1, Len(past))
  BY <1>2 DEF Inv, StoredInv
<1>4. Len(past) \in 1..Len(past) /\ past[Len(past)] = Now
  BY PresentCheckout DEF Inv
<1>5. r.pc = "charter" /\ r.dossier = dossier /\ r.from = Len(past) /\ r.head = Now.head
      /\ Claiming \subseteq DOMAIN r
  BY DEF Claiming
<1> HIDE DEF r
<1>6. DossierInv(r) /\ HeadRead(r)
  BY <1>2, <1>3, <1>4, <1>5 DEF DossierInv, HeadRead
<1>7. GateReads(r)
  BY <1>5, <1>6 DEF GateReads
<1> QED BY <1>1, <1>7, GateMoves

LEMMA ReadCharterStep == ASSUME Inv, NEW g \in Gates, ReadCharter(g) PROVE Inv'
<1> DEFINE o == at[g]
           r == [pc |-> "load", dossier |-> o.dossier, head |-> o.head, from |-> o.from,
                 charter |-> Now.charter]
<1>1. /\ o.pc = "charter" /\ UNCHANGED <<past, whole, partial>>
      /\ at' = [at EXCEPT ![g] = Away] \/ at' = [at EXCEPT ![g] = r]
  BY DEF ReadCharter, Reject
<1>2. CASE at' = [at EXCEPT ![g] = Away]
  BY <1>1, <1>2, StandsStill, StoredStay, StopStep DEF Inv
<1>3. CASE at' = [at EXCEPT ![g] = r]
  <2>1. DossierInv(o) /\ HeadRead(o)
    BY <1>1 DEF Inv, GateInv, GateReads
  <2>2. /\ r.pc = "load" /\ r.dossier = o.dossier /\ r.head = o.head /\ r.from = o.from
        /\ r.charter = Now.charter /\ Claiming \cup {"charter"} \subseteq DOMAIN r
    BY DEF Claiming
  <2>3. Len(past) \in Nat /\ past[Len(past)] = Now
    BY PresentCheckout DEF Inv
  <2> HIDE DEF r, o
  <2>4. DossierInv(r) /\ HeadRead(r)
    BY <2>1, <2>2 DEF DossierInv, HeadRead
  <2>5. Len(past) \in r.from..Len(past)
    BY <2>3, <2>4 DEF DossierInv
  <2>6. CharterRead(r)
    BY <2>2, <2>3, <2>5 DEF CharterRead
  <2>7. GateReads(r)
    BY <2>2, <2>4, <2>6 DEF GateReads
  <2> QED BY <1>1, <1>3, <2>7, GateMoves
<1> QED BY <1>1, <1>2, <1>3

LEMMA LoadContextStep == ASSUME Inv, NEW g \in Gates, LoadContext(g) PROVE Inv'
<1> DEFINE o == at[g]
           r == Reinspecting(o)
<1>1. /\ o.pc = "load" /\ UNCHANGED <<past, whole, partial>>
      /\ at' = [at EXCEPT ![g] = Away] \/ at' = [at EXCEPT ![g] = r]
  BY DEF LoadContext, Reject
<1>2. CASE at' = [at EXCEPT ![g] = Away]
  BY <1>1, <1>2, StandsStill, StoredStay, StopStep DEF Inv
<1>3. CASE at' = [at EXCEPT ![g] = r]
  <2>1. DossierInv(o) /\ HeadRead(o) /\ CharterRead(o)
    BY <1>1 DEF Inv, GateInv, GateReads
  <2>2. /\ r.pc = "base" /\ r.dossier = o.dossier /\ r.head = o.head /\ r.from = o.from
        /\ r.charter = o.charter /\ r.evidence = <<>>
        /\ Claiming \cup Reading \cup {"charter"} \subseteq DOMAIN r
    BY DEF Claiming, Reading, Reinspecting
  <2> HIDE DEF r, o
  <2>3. DossierInv(r) /\ HeadRead(r) /\ CharterRead(r)
    BY <2>1, <2>2 DEF DossierInv, HeadRead, CharterRead
  <2>4. GateReads(r)
    BY <2>2, <2>3, EmptyEvidence DEF GateReads
  <2> QED BY <1>1, <1>3, <2>4, GateMoves
<1> QED BY <1>1, <1>2, <1>3

\* What the gate accepts has been read: HEAD twice, with the charter between,
\* and after them what is cited, which was evidence before.
LEMMA AcceptedIsUpheld ==
    ASSUME Inv, NEW g \in Gates, Inspected(g), Accepts(g)
    PROVE  DossierInv(at[g]) /\ Upheld(at[g].dossier, at[g].from)
<1> DEFINE r == at[g]
           d == r.dossier
<1>1. /\ DossierInv(r) /\ HeadRead(r) /\ FilesRead(r) /\ IsSequence(r.evidence)
  BY DEF Inspected, Inv, GateInv, GateReads
<1>2. /\ d.context = Context(g) /\ d.base = r.head /\ d.context.base = r.head
      /\ d.charter = r.charter /\ d.cites \in ToSet(d.context.evidence)
  BY DEF Accepts
<1>3. d.context.evidence = r.evidence /\ r.base = d.base
  BY <1>2 DEF Context
<1>4. PICK c \in 1..Len(r.evidence) : r.evidence[c] = d.cites
  <2>1. DOMAIN r.evidence = 1..Len(r.evidence)
    BY <1>1 DEF IsSequence
  <2> QED BY <1>2, <1>3, <2>1 DEF ToSet
<1>5. past[r.from].head = d.base
  BY <1>1, <1>2 DEF HeadRead
<1>6. Seen(d.cites, 1, r.from)
  BY <1>1, <1>3, <1>4 DEF DossierInv, Evidenced
<1>7. PICK n \in r.from..Len(past) : \E m \in n..Len(past) :
        /\ past[n].charter = r.charter
        /\ past[m].head = r.base
        /\ Evidenced(r.evidence, m, Len(past))
  BY <1>1 DEF FilesRead
<1>8. PICK m \in n..Len(past) :
        /\ past[n].charter = r.charter
        /\ past[m].head = r.base
        /\ Evidenced(r.evidence, m, Len(past))
  BY <1>7
<1>9. PICK k \in m..Len(past) : past[k].files[d.cites[1]] = d.cites[2]
  BY <1>4, <1>8 DEF Evidenced, Seen
<1> HIDE DEF r, d
<1>10. Upheld(d, r.from)
  BY <1>2, <1>3, <1>5, <1>6, <1>8, <1>9 DEF Upheld
<1> QED BY <1>1, <1>10 DEF r, d

LEMMA JudgeStep == ASSUME Inv, NEW g \in Gates, Judge(g) PROVE Inv'
<1> DEFINE o == at[g]
           r == [pc |-> "ready", dossier |-> o.dossier, from |-> o.from]
<1>1. /\ Inspected(g) /\ UNCHANGED <<past, whole, partial>>
      /\ \/ at' = [at EXCEPT ![g] = Away]
         \/ Accepts(g) /\ at' = [at EXCEPT ![g] = r]
  BY DEF Judge, Reject
<1>2. CASE at' = [at EXCEPT ![g] = Away]
  BY <1>1, <1>2, StandsStill, StoredStay, StopStep DEF Inv
<1>3. CASE Accepts(g) /\ at' = [at EXCEPT ![g] = r]
  <2>1. DossierInv(o) /\ Upheld(o.dossier, o.from)
    BY <1>1, <1>3, AcceptedIsUpheld
  <2>2. r.pc = "ready" /\ r.dossier = o.dossier /\ r.from = o.from
    OBVIOUS
  <2> HIDE DEF r, o
  <2>3. DossierInv(r) /\ Upheld(r.dossier, r.from)
    BY <2>1, <2>2 DEF DossierInv
  <2>4. GateReads(r)
    BY <2>2, <2>3 DEF GateReads
  <2> QED BY <1>1, <1>3, <2>4, GateMoves
<1> QED BY <1>1, <1>2, <1>3
-----------------------------------------------------------------------------
(* The checkout.                                                           *)

LEMMA ChangeStep == ASSUME Inv, NEW w \in Checkouts, Change(w) PROVE Inv'
<1>1. past' = Append(past, w) /\ UNCHANGED <<whole, partial, at>>
  BY DEF Change
<1>2. Grown /\ past' \in Seq(Checkouts) /\ past' # <<>>
  BY <1>1, ChangeGrows DEF Inv
<1>3. PastInv' /\ StoredInv'
  BY <1>1, <1>2, StoredStay DEF Inv, PastInv
<1>4. ASSUME NEW p, at'[p] = at[p]
      PROVE  /\ InspectorReads(at[p]) => InspectorReads(at[p])'
             /\ GateReads(at[p]) => GateReads(at[p])'
  <2>1. PICK x : x = at[p]
    OBVIOUS
  <2>2. InspectorReads(at[p]) => InspectorReads(x)'
    BY <1>2, <2>1, InspectorReadsStay
  <2>3. GateReads(at[p]) => GateReads(x)'
    BY <1>2, <2>1, GateReadsStay
  <2> QED BY <1>4, <2>1, <2>2, <2>3, HoldsWhatIsGiven
<1>5. InspectorInv'
  BY <1>1, <1>4 DEF Inv, InspectorInv
<1>6. GateInv'
  BY <1>1, <1>4 DEF Inv, GateInv
<1> QED BY <1>3, <1>5, <1>6 DEF Inv

LEMMA CheckoutChanges == ASSUME Inv, Edit \/ Commit \/ Checkout PROVE Inv'
<1>1. Now \in Checkouts /\ Len(past) \in Nat
  BY PresentCheckout DEF Inv
<1>2. ASSUME NEW q \in Paths, NEW c \in Contents \cup {None}
      PROVE  [Now EXCEPT !.files[q] = c] \in Checkouts
  BY <1>1 DEF Checkouts
<1>3. ASSUME NEW c \in (Charters \cup {None}) \ {Now.charter}
      PROVE  [Now EXCEPT !.charter = c] \in Checkouts
  BY <1>1 DEF Checkouts
<1>4. [Now EXCEPT !.head = Len(past) + 1] \in Checkouts
  BY <1>1 DEF Checkouts
<1>5. \A w \in ToSet(past) : w \in Checkouts
  <2>1. past \in Seq(Checkouts)
    BY DEF Inv, PastInv
  <2> QED BY <2>1 DEF ToSet
<1>6. \E w \in Checkouts : Change(w)
  <2>1. CASE Edit
    BY <1>2, <1>3, <2>1 DEF Edit
  <2>2. CASE Commit
    BY <1>4, <2>2 DEF Commit
  <2>3. CASE Checkout
    BY <1>5, <2>3 DEF Checkout
  <2> QED BY <2>1, <2>2, <2>3
<1> QED BY <1>6, ChangeStep
-----------------------------------------------------------------------------

LEMMA InvInit == Init => Inv
<1> SUFFICES ASSUME Init PROVE Inv
  OBVIOUS
<1>1. PICK c \in Charters, f \in [Paths -> Contents \cup {None}] :
        past = <<[head |-> 1, charter |-> c, files |-> f]>>
  BY DEF Init
<1>2. [head |-> 1, charter |-> c, files |-> f] \in Checkouts
  BY DEF Checkouts
<1>3. past \in Seq(Checkouts) /\ past # <<>>
  BY <1>1, <1>2
<1>4. at = [p \in Inspectors \cup Gates |-> Away] /\ whole = {} /\ partial = {}
  BY DEF Init
<1>5. PastInv /\ StoredInv
  BY <1>3, <1>4 DEF PastInv, StoredInv
<1>6. InspectorReads(Away) /\ GateReads(Away)
  BY DEF Away, InspectorReads, GateReads
<1>7. InspectorInv /\ GateInv
  BY <1>4, <1>6 DEF InspectorInv, GateInv
<1> QED BY <1>5, <1>7 DEF Inv

LEMMA InvNext == Inv /\ [Next]_vars => Inv'
<1> SUFFICES ASSUME Inv, [Next]_vars PROVE Inv'
  OBVIOUS
<1>1. CASE UNCHANGED vars
  BY <1>1
     DEF vars, Inv, PastInv, InspectorInv, InspectorReads, StoredInv, GateInv, GateReads,
         DossierInv, HeadRead, CharterRead, FilesRead, Upheld, Evidenced, Seen
<1>2. ASSUME NEW p \in Inspectors \cup Gates, ReadBase(p) \/ ListFiles(p) \/ ReadFile(p)
      PROVE  Inv'
  BY <1>2, ReadBaseStep, ListFilesStep, ReadFileStep
<1>3. ASSUME NEW i \in Inspectors,
             \/ \E selected \in SUBSET Paths : Inspect(i, selected)
             \/ Persist(i) \/ Open(i) \/ Fill(i) \/ Lose(i)
      PROVE  Inv'
  BY <1>3, InspectStep, PersistStep, OpenStep, FillStep, LoseStep
<1>4. ASSUME NEW g \in Gates,
             \/ \E dossier \in Dossiers : Validate(g, dossier)
             \/ ReadCharter(g) \/ LoadContext(g) \/ Judge(g)
      PROVE  Inv'
  BY <1>4, ValidateStep, ReadCharterStep, LoadContextStep, JudgeStep
<1>5. CASE Edit \/ Commit \/ Checkout
  BY <1>5, CheckoutChanges
<1> QED BY <1>1, <1>2, <1>3, <1>4, <1>5 DEF Next

\* What inspectors and gates hold of the checkout, and what is stored, was
\* true when it was read, and gates read in their order.
THEOREM GateCorrect == Spec => []Inv
BY InvInit, InvNext, PTL DEF Spec

\* What an accepted dossier says was true while it was validated, and true
\* together unless something was changed and changed back, for any number of
\* files, changes and processes.
THEOREM AcceptedIsTrue == Spec => []AcceptedWasCurrent
<1>1. ASSUME Inv, NEW g \in Gates, at[g].pc = "ready"
      PROVE  LET d == at[g].dossier
                 during == {past[n] : n \in at[g].from..Len(past)}
             IN  /\ \E w \in during : w.head = d.base
                 /\ \E w \in during : w.charter = d.charter
                 /\ \E w \in during : w.files[d.cites[1]] = d.cites[2]
                 /\ NothingReturned => \E w \in during : Supports(w, d)
  <2> DEFINE d == at[g].dossier
             from == at[g].from
             during == {past[n] : n \in from..Len(past)}
             q == d.cites[1]
  <2>1. DossierInv(at[g]) /\ Upheld(d, from)
    BY <1>1 DEF Inv, GateInv, GateReads
  <2>2. from \in 1..Len(past) /\ Len(past) \in Nat /\ q \in Paths /\ DOMAIN past = 1..Len(past)
    <3>1. from \in 1..Len(past) /\ d.cites \in Items
      BY <2>1 DEF DossierInv
    <3>2. q \in Paths
      BY <3>1 DEF Items
    <3>3. past \in Seq(Checkouts)
      BY <1>1 DEF Inv, PastInv
    <3> QED BY <3>1, <3>2, <3>3
  <2> DEFINE Read(n, m, k) == /\ past[n].charter = d.charter
                              /\ past[m].head = d.base
                              /\ past[k].files[q] = d.cites[2]
  <2>3. PICK n \in from..Len(past) : \E m \in n..Len(past) : \E k \in m..Len(past) : Read(n, m, k)
    BY <2>1 DEF Upheld
  <2>4. PICK m \in n..Len(past) : \E k \in m..Len(past) : Read(n, m, k)
    BY <2>3
  <2>5. PICK k \in m..Len(past) : Read(n, m, k)
    BY <2>4
  <2>6. past[from].head = d.base
    BY <2>1 DEF Upheld
  <2>7. PICK j \in 1..from : past[j].files[q] = d.cites[2]
    BY <2>1 DEF Upheld, Seen
  <2>8. /\ from \in from..Len(past) /\ k \in from..Len(past)
        /\ from \in DOMAIN past /\ n \in DOMAIN past /\ m \in DOMAIN past /\ k \in DOMAIN past
        /\ j \in DOMAIN past /\ from <= n /\ n <= m /\ j <= n /\ n <= k
    BY <2>2
  <2> HIDE DEF d, from, q
  <2>9. ASSUME NothingReturned PROVE Supports(past[n], d)
    <3>1. past[n].head = d.base
      <4>1. CASE from < n /\ n < m
        <5>1. past[from].head = past[m].head => past[n].head = past[from].head
          BY <2>8, <2>9, <4>1 DEF NothingReturned
        <5> QED BY <5>1, <2>5, <2>6
      <4>2. CASE from = n \/ n = m
        BY <2>5, <2>6, <4>2
      <4> QED BY <2>8, <4>1, <4>2
    <3>2. past[n].files[q] = d.cites[2]
      <4>1. CASE j < n /\ n < k
        <5>1. past[j].files[q] = past[k].files[q] => past[n].files[q] = past[j].files[q]
          BY <2>2, <2>8, <2>9, <4>1 DEF NothingReturned
        <5> QED BY <5>1, <2>5, <2>7
      <4>2. CASE j = n \/ n = k
        BY <2>5, <2>7, <4>2
      <4> QED BY <2>8, <4>1, <4>2
    <3> QED BY <2>5, <3>1, <3>2 DEF Supports, q
  <2>10. /\ past[from] \in during /\ past[n] \in during /\ past[k] \in during
    BY <2>8
  <2> HIDE DEF during
  <2>11. /\ \E w \in during : w.head = d.base
         /\ \E w \in during : w.charter = d.charter
         /\ \E w \in during : w.files[q] = d.cites[2]
         /\ NothingReturned => \E w \in during : Supports(w, d)
    BY <2>5, <2>6, <2>9, <2>10
  <2> QED BY <2>11 DEF d, during, from, q
<1>2. Inv => AcceptedWasCurrent
  BY <1>1 DEF AcceptedWasCurrent
<1> QED BY <1>2, GateCorrect, PTL
=============================================================================
