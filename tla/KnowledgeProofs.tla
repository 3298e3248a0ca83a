-------------------------- MODULE KnowledgeProofs --------------------------
(* The knowledge store keeps its promises for any number of ingesters and    *)
(* indexers, any sources and documents, and wherever processes are lost; and *)
(* every document is cut into chunks that keep its text.                     *)
EXTENDS Knowledge, Chunking, SequenceTheorems, FiniteSetTheorems, WellFoundedInduction, TLAPS

-----------------------------------------------------------------------------
(* The inductive invariant.                                                *)

Words == {"nav"} \cup UNION {ToSet(raw) : raw \in Raws}
Documents == {Normalized(s, raw, main) : s \in Sources, raw \in Raws, main \in BOOLEAN}
Versions == Raws \cup {None} \cup {<<path>> : path \in DOMAIN Pinned}

\* Points up to the row, with the whole document at hand, and after it.
Whole == {"hash", "find", "raw", "raw-open", "raw-fill", "md", "md-open", "md-fill", "row"}
Storage == {"chunk", "fts"}

Readers == [pc : {"read"}, source : Sources, paths : Seq(DOMAIN Pinned \cup {""})]
Holders == [pc : Whole \cup Storage, source : Sources, paths : Seq(DOMAIN Pinned \cup {""}),
            raw : Raws, version : Versions, text : Seq(Words)]

IngOK ==
  /\ ing \in [Ingesters -> {Away} \cup Readers \cup Holders]
  /\ \A p \in Ingesters :
        /\ ing[p] # Away /\ ing[p].source = "git" =>
              ing[p].paths \in Seq(DOMAIN Pinned) /\ ing[p].paths # <<>>
        /\ ing[p].pc = "hash" => ing[p].source = "markdown"
        /\ ing[p].pc \in Whole => ing[p].text \in Documents
        /\ ing[p].pc = "fts" => ing[p].text # <<>>

TypeOK ==
  /\ page \in [Sources \ {"git"} -> Raws] /\ extractor \in BOOLEAN /\ enabled \subseteq Sources
  /\ IngOK
  /\ \A k \in DOMAIN snapshots : k \in Sources \X Raws /\ snapshots[k].text \in Documents

\* A file that has been compared or filled stays as it is; one that is being
\* filled is nobody else's.
FilesInv ==
  \A p \in Ingesters :
    /\ ing[p].pc \in {"md", "md-open", "md-fill", "row"} => FileOf(File(p, "raw")) = ing[p].raw
    /\ ing[p].pc = "row" => FileOf(File(p, "md")) = ing[p].text
    /\ \A kind \in {"raw", "md"} : ing[p].pc = Filling(kind) =>
          /\ FileOf(File(p, kind)) = Partial
          /\ \A q \in Ingesters : q # p /\ ing[q].pc = Filling(kind) => File(q, kind) # File(p, kind)

\* The chunks an ingester has not come to yet, and all those of its document.
Remaining(p) == ChunkIds(ing[p].source, ing[p].version, ing[p].text)
Ids(s, raw, version) == ChunkIds(s, version, snapshots[<<s, raw>>].text)
OwnIds(p) == Ids(ing[p].source, ing[p].raw, ing[p].version)

\* What an ingester has not stored of its document is still at hand, and
\* nothing of a document stored to its end is missing.
ChunksInv ==
  /\ \A p \in Ingesters : ing[p].pc \in Storage =>
        Key(p) \in DOMAIN snapshots /\ OwnIds(p) \subseteq DOMAIN chunks \cup Remaining(p)
  /\ \A d \in stored : <<d[1], d[2]>> \in DOMAIN snapshots /\ Ids(d[1], d[2], d[3]) \subseteq DOMAIN chunks

\* A chunk that is not in the full-text index is about to be, by the one
\* ingester that inserted it, unless that was lost.
FtsInv ==
  /\ DOMAIN fts \subseteq DOMAIN chunks
  /\ \A c \in DOMAIN fts : fts[c] = 1
  /\ \A p \in Ingesters : ing[p].pc = "fts" =>
        /\ NextId(p) \in DOMAIN chunks \ DOMAIN fts
        /\ \A q \in Ingesters : q # p /\ ing[q].pc = "fts" => NextId(q) # NextId(p)
  /\ \A c \in DOMAIN chunks \ DOMAIN fts :
        c \in orphans \/ \E p \in Ingesters : Between(p, c)

\* What an indexer has left to do is all that the chunks it listed lack.
IndexInv ==
  /\ DOMAIN idx = Indexers
  /\ \A q \in Indexers : idx[q].pc = "embed" =>
        (idx[q].seen \ idx[q].todo) \X {idx[q].rev} \subseteq vectors

Inv == TypeOK /\ FilesInv /\ SnapshotsIntact /\ ChunksInv /\ FtsInv

-----------------------------------------------------------------------------
(* Documents are sequences, taken apart passage by passage.                *)

LEMMA DocumentsAreTexts ==
  /\ Raws \subseteq Seq(Words) /\ Documents \subseteq Seq(Words)
  /\ Partial \notin Documents \cup Raws /\ None \notin Documents \cup Raws
<1>1. \A raw \in Raws : raw \in Seq(Words)
  <2> SUFFICES ASSUME NEW raw \in Raws
               PROVE  raw \in Seq(Words)
    OBVIOUS
  <2>1. raw \in Seq(ToSet(raw)) /\ ToSet(raw) \subseteq Words
    BY RawsAssumption DEF Words
  <2> QED BY <2>1
<1>2. \A raw \in Raws : Append(raw, "nav") \in Seq(Words)
  <2> SUFFICES ASSUME NEW raw \in Raws
               PROVE  Append(raw, "nav") \in Seq(Words)
    OBVIOUS
  <2>1. raw \in Seq(Words)
    BY <1>1
  <2>2. "nav" \in Words
    BY DEF Words
  <2> QED BY <2>1, <2>2
<1>3. \A d \in Documents : d \in Seq(Words)
  BY <1>1, <1>2 DEF Documents, Normalized
<1> QED BY <1>1, <1>3, RawsAssumption DEF Documents

LEMMA NextPassage ==
  ASSUME NEW text \in Seq(Words), text # <<>>
  PROVE  /\ Head(text) \in Words /\ Tail(text) \in Seq(Words)
         /\ ToSet(text) = {Head(text)} \cup ToSet(Tail(text))
<1>1. Head(text) \in Words /\ Tail(text) \in Seq(Words) /\ Len(text) \in Nat \ {0}
  OBVIOUS
<1>2. ToSet(Tail(text)) \subseteq ToSet(text)
  <2> SUFFICES ASSUME NEW i \in DOMAIN Tail(text)
               PROVE  Tail(text)[i] \in ToSet(text)
    BY DEF ToSet
  <2>1. i \in 1..(Len(text) - 1) /\ Tail(text)[i] = text[i + 1]
    BY <1>1
  <2> QED BY <2>1, <1>1 DEF ToSet
<1>3. ToSet(text) \subseteq {Head(text)} \cup ToSet(Tail(text))
  <2> SUFFICES ASSUME NEW i \in DOMAIN text, text[i] # Head(text)
               PROVE  text[i] \in ToSet(Tail(text))
    BY DEF ToSet
  <2>1. i \in 1..Len(text) /\ i # 1
    OBVIOUS
  <2>2. i - 1 \in 1..Len(Tail(text)) /\ Tail(text)[i - 1] = text[i]
    BY <2>1, <1>1
  <2> QED BY <2>2, <1>1 DEF ToSet
<1>4. Head(text) \in ToSet(text)
  BY <1>1 DEF ToSet
<1> QED BY <1>1, <1>2, <1>3, <1>4

LEMMA NextChunk ==
  ASSUME NEW s, NEW v, NEW text \in Seq(Words), text # <<>>
  PROVE  ChunkIds(s, v, text) = {ChunkId(s, v, Head(text))} \cup ChunkIds(s, v, Tail(text))
BY NextPassage DEF ChunkIds

-----------------------------------------------------------------------------
(* Where an ingester is says what it holds.                                *)

LEMMA AtRest == \A p \in Ingesters : ing[p] = Away => ing[p].pc = "away"
BY DEF Away

LEMMA ReaderHolds ==
  ASSUME TypeOK, NEW p \in Ingesters, ing[p].pc = "read"
  PROVE  ing[p] \in Readers /\ ing[p] # Away
<1>1. ing[p] # Away
  BY AtRest
<1> QED BY <1>1 DEF TypeOK, IngOK, Holders, Whole, Storage

LEMMA HolderHolds ==
  ASSUME TypeOK, NEW p \in Ingesters, ing[p].pc \in Whole \cup Storage
  PROVE  ing[p] \in Holders /\ ing[p] # Away
<1>1. ing[p] # Away
  BY AtRest DEF Whole, Storage
<1> QED BY <1>1 DEF TypeOK, IngOK, Readers, Whole, Storage

-----------------------------------------------------------------------------
(* The types.                                                              *)

\* What the others hold stays; only the record of the one that steps is new.
LEMMA IngStep ==
  ASSUME TypeOK, NEW p \in Ingesters, NEW r \in {Away} \cup Readers \cup Holders,
         ing' = [ing EXCEPT ![p] = r],
         r # Away /\ r.source = "git" => r.paths \in Seq(DOMAIN Pinned) /\ r.paths # <<>>,
         r.pc = "hash" => r.source = "markdown",
         r.pc \in Whole => r.text \in Documents,
         r.pc = "fts" => r.text # <<>>
  PROVE  IngOK'
<1>1. ing'[p] = r /\ \A q \in Ingesters : q # p => ing'[q] = ing[q]
  BY DEF TypeOK, IngOK
<1>2. ing' \in [Ingesters -> {Away} \cup Readers \cup Holders]
  BY DEF TypeOK, IngOK
<1> QED BY <1>1, <1>2 DEF TypeOK, IngOK

LEMMA QuitTypes ==
  ASSUME TypeOK, NEW p \in Ingesters, Quit(p)
  PROVE  IngOK'
BY IngStep DEF Quit, Away, Whole

LEMMA GotoTypes ==
  ASSUME TypeOK, NEW p \in Ingesters, ing[p].pc \in Whole \cup Storage,
         NEW pc \in (Whole \cup Storage) \ {"hash"}, Goto(p, pc),
         pc \in Whole => ing[p].pc \in Whole, pc = "fts" => ing[p].text # <<>>
  PROVE  IngOK'
<1> DEFINE r == [ing[p] EXCEPT !.pc = pc]
<1>1. ing[p] \in Holders /\ ing[p] # Away
  BY HolderHolds
<1>2. r \in Holders /\ r.pc = pc /\ r.text = ing[p].text
      /\ r.source = ing[p].source /\ r.paths = ing[p].paths
  BY <1>1 DEF Holders
<1>3. ing' = [ing EXCEPT ![p] = r]
  BY DEF Goto
<1>4. r.source = "git" => r.paths \in Seq(DOMAIN Pinned) /\ r.paths # <<>>
  BY <1>1, <1>2 DEF TypeOK, IngOK
<1>5. r.pc \in Whole => r.text \in Documents
  BY <1>2 DEF TypeOK, IngOK
<1> QED BY <1>2, <1>3, <1>4, <1>5, IngStep

LEMMA TextTypes ==
  ASSUME TypeOK, NEW p \in Ingesters, ing[p].pc \in Storage, ing[p].text # <<>>,
         ing' = [ing EXCEPT ![p].text = Tail(@), ![p].pc = "chunk"]
  PROVE  IngOK'
<1> DEFINE r == [ing[p] EXCEPT !.text = Tail(@), !.pc = "chunk"]
<1>1. ing[p] \in Holders /\ ing[p] # Away
  BY HolderHolds
<1>2. Tail(ing[p].text) \in Seq(Words)
  BY <1>1, NextPassage DEF Holders
<1>3. r \in Holders /\ r.pc = "chunk" /\ r.source = ing[p].source /\ r.paths = ing[p].paths
  BY <1>1, <1>2 DEF Holders, Storage
<1>4. ing' = [ing EXCEPT ![p] = r]
  BY DEF TypeOK, IngOK
<1>5. r.source = "git" => r.paths \in Seq(DOMAIN Pinned) /\ r.paths # <<>>
  BY <1>1, <1>3 DEF TypeOK, IngOK
<1> QED BY <1>3, <1>4, <1>5, IngStep DEF Whole

LEMMA RestOfPaths ==
  ASSUME NEW S, NEW paths \in Seq(S), Len(paths) > 1
  PROVE  Tail(paths) \in Seq(S) /\ Tail(paths) # <<>>
<1>1. paths # <<>> /\ Len(paths) \in Nat
  OBVIOUS
<1>2. Tail(paths) \in Seq(S) /\ Len(Tail(paths)) = Len(paths) - 1
  BY <1>1
<1>3. \A t : t = <<>> => Len(t) = 0
  OBVIOUS
<1>4. Len(Tail(paths)) # 0
  BY <1>1, <1>2
<1> QED BY Zenon, <1>2, <1>3, <1>4

LEMMA ProceedTypes ==
  ASSUME TypeOK, NEW p \in Ingesters, ing[p].pc \in Whole \cup Storage, Proceed(p)
  PROVE  IngOK'
<1>1. ing[p] \in Holders /\ ing[p] # Away
  BY HolderHolds
<1>2. CASE ~ (Len(ing[p].paths) > 1)
  BY <1>2, QuitTypes DEF Proceed
<1>3. CASE Len(ing[p].paths) > 1
  <2> DEFINE rest == Tail(ing[p].paths)
             r == Reading(ing[p].source, rest)
  <2>1. ing' = [ing EXCEPT ![p] = r]
    BY <1>3 DEF Proceed
  <2>2. ing[p].paths \in Seq(DOMAIN Pinned \cup {""}) /\ ing[p].source \in Sources
    BY <1>1 DEF Holders
  <2>3. rest \in Seq(DOMAIN Pinned \cup {""}) /\ rest # <<>>
    BY <2>2, <1>3, RestOfPaths
  <2>4. ing[p].source = "git" => rest \in Seq(DOMAIN Pinned)
    <3>1. ing[p].source = "git" => ing[p].paths \in Seq(DOMAIN Pinned)
      BY <1>1 DEF TypeOK, IngOK
    <3> QED BY <3>1, <1>3, RestOfPaths
  <2> HIDE DEF rest
  <2>5. r \in Readers /\ r.pc = "read" /\ r.source = ing[p].source /\ r.paths = rest
    BY <2>2, <2>3 DEF Reading, Readers
  <2> HIDE DEF r
  <2> QED BY <2>1, <2>3, <2>4, <2>5, IngStep DEF Whole
<1> QED BY <1>2, <1>3

LEMMA InitTypes == Init => TypeOK
BY DEF Init, TypeOK, IngOK, Away, Empty, Whole

LEMMA WiderSeq ==
  ASSUME NEW S, NEW T, S \subseteq T, NEW s \in Seq(S)
  PROVE  s \in Seq(T)
<1>1. Len(s) \in Nat /\ s \in [1..Len(s) -> S]
  OBVIOUS
<1>2. s \in [1..Len(s) -> T]
  BY <1>1
<1> QED BY <1>1, <1>2

LEMMA OpenTypes ==
  ASSUME TypeOK, NEW p \in Ingesters, NEW s \in Sources, Open(p, s)
  PROVE  IngOK'
<1> DEFINE paths == IF s = "git" THEN GitPaths ELSE <<"">>
           r == Reading(s, paths)
<1>1. ing' = [ing EXCEPT ![p] = r]
  BY DEF Open
<1>2. GitPaths \in Seq(DOMAIN Pinned) /\ GitPaths # <<>>
  BY KnowledgeAssumption
<1>3. paths \in Seq(DOMAIN Pinned \cup {""})
  <2>1. GitPaths \in Seq(DOMAIN Pinned \cup {""})
    BY <1>2, WiderSeq
  <2>2. <<"">> \in Seq(DOMAIN Pinned \cup {""})
    OBVIOUS
  <2> QED BY <2>1, <2>2
<1>4. s = "git" => paths \in Seq(DOMAIN Pinned) /\ paths # <<>>
  BY <1>2
<1> HIDE DEF paths
<1>5. r \in Readers /\ r.pc = "read" /\ r.source = s /\ r.paths = paths
  BY <1>3 DEF Reading, Readers
<1> HIDE DEF r
<1> QED BY <1>1, <1>4, <1>5, IngStep DEF Whole

LEMMA GotTypes ==
  ASSUME TypeOK, NEW p \in Ingesters, ing[p].pc = "read", NEW raw \in Raws, NEW version \in Versions,
         NEW pc \in {"hash", "find"}, pc = "hash" => ing[p].source = "markdown",
         Got(p, raw, version, pc)
  PROVE  IngOK'
<1> DEFINE text == Normalized(ing[p].source, raw, extractor)
           r == [pc |-> pc, source |-> ing[p].source, paths |-> ing[p].paths, raw |-> raw,
                 version |-> version, text |-> text]
<1>1. ing[p] \in Readers /\ ing[p] # Away
  BY ReaderHolds
<1>2. text \in Documents
  <2>1. \A s \in Sources, main \in BOOLEAN : Normalized(s, raw, main) \in Documents
    BY DEF Documents
  <2>2. ing[p].source \in Sources /\ extractor \in BOOLEAN
    BY <1>1 DEF Readers, TypeOK
  <2> QED BY <2>1, <2>2
<1>3. text \in Seq(Words)
  BY <1>2, DocumentsAreTexts
<1>4. ing' = [ing EXCEPT ![p] = r]
  BY DEF Got
<1> HIDE DEF text
<1>5. r \in Holders
  BY <1>1, <1>3 DEF Readers, Holders, Whole
<1>6. r.source = "git" => r.paths \in Seq(DOMAIN Pinned) /\ r.paths # <<>>
  BY <1>1 DEF TypeOK, IngOK
<1>7. r.pc = pc /\ r.source = ing[p].source /\ r.text = text
  OBVIOUS
<1> HIDE DEF r
<1> QED BY <1>2, <1>4, <1>5, <1>6, <1>7, IngStep

LEMMA ReadTypes ==
  ASSUME TypeOK, NEW p \in Ingesters, Read(p)
  PROVE  IngOK'
<1>1. ing[p].pc = "read" /\ ing[p] \in Readers /\ ing[p] # Away
  BY ReaderHolds DEF Read
<1>2. ing[p].source \in {"markdown", "html", "git"} /\ ing[p].source \in Sources
  BY <1>1, KnowledgeAssumption DEF Readers
<1>3. CASE ing[p].source = "markdown"
  <2>1. page["markdown"] \in Raws /\ None \in Versions
    BY <1>2, <1>3 DEF TypeOK, Versions
  <2>2. Got(p, page["markdown"], None, "hash")
    BY <1>3 DEF Read
  <2> QED BY <1>1, <1>3, <2>1, <2>2, GotTypes
<1>4. CASE ing[p].source = "html"
  <2>1. page["html"] \in Raws /\ page["html"] \in Versions
    BY <1>2, <1>4 DEF TypeOK, Versions
  <2>2. Got(p, page["html"], page["html"], "find")
    BY <1>4 DEF Read
  <2> QED BY <1>1, <1>4, <2>1, <2>2, GotTypes
<1>5. CASE ing[p].source = "git"
  <2> DEFINE path == Head(ing[p].paths)
  <2>1. path \in DOMAIN Pinned
    BY <1>1, <1>5 DEF TypeOK, IngOK
  <2>2. Pinned[path] \in Raws /\ <<path>> \in Versions
    BY <2>1, KnowledgeAssumption DEF Versions
  <2>3. Got(p, Pinned[path], <<path>>, "find")
    BY <1>5 DEF Read
  <2> QED BY <1>1, <2>2, <2>3, GotTypes
<1> QED BY <1>2, <1>3, <1>4, <1>5

LEMMA HashTypes ==
  ASSUME TypeOK, NEW p \in Ingesters, HashBlob(p)
  PROVE  IngOK'
<1> DEFINE r == [ing[p] EXCEPT !.version = page["markdown"], !.pc = "find"]
<1>1. ing[p].pc = "hash" /\ ing[p] \in Holders /\ ing[p] # Away
  BY HolderHolds DEF HashBlob, Whole
<1>2. page["markdown"] \in Versions
  BY <1>1 DEF TypeOK, IngOK, Holders, Versions
<1>3. r \in Holders /\ r.pc = "find" /\ r.source = ing[p].source /\ r.paths = ing[p].paths /\ r.text = ing[p].text
  BY <1>1, <1>2 DEF Holders, Whole
<1>4. ing' = [ing EXCEPT ![p] = r]
  BY DEF HashBlob, TypeOK, IngOK
<1>5. r.source = "git" => r.paths \in Seq(DOMAIN Pinned) /\ r.paths # <<>>
  BY <1>1, <1>3 DEF TypeOK, IngOK
<1>6. r.text \in Documents
  BY <1>1, <1>3 DEF TypeOK, IngOK, Whole
<1> QED BY <1>3, <1>4, <1>5, <1>6, IngStep

LEMMA FileStepTypes ==
  ASSUME TypeOK, NEW p \in Ingesters, NEW kind \in {"raw", "md"},
         Compare(p, kind) \/ Create(p, kind) \/ Fill(p, kind)
  PROVE  IngOK'
<1>1. /\ kind \in Whole /\ Opening(kind) \in Whole \ {"hash"} /\ Filling(kind) \in Whole \ {"hash"}
      /\ After(kind) \in Whole \ {"hash"}
  BY DEF Whole, Opening, Filling, After
<1>2. ing[p].pc \in Whole
  BY <1>1 DEF Compare, Create, Fill
<1>3. \/ Quit(p) \/ Goto(p, Opening(kind)) \/ Goto(p, Filling(kind)) \/ Goto(p, After(kind))
  BY DEF Compare, Create, Fill
<1>4. "fts" \notin Whole
  BY DEF Whole
<1> QED BY <1>1, <1>2, <1>3, <1>4, QuitTypes, GotoTypes

LEMMA RowTypes ==
  ASSUME TypeOK, NEW p \in Ingesters, InsertSnapshot(p)
  PROVE  IngOK' /\ \A k \in DOMAIN snapshots' : k \in Sources \X Raws /\ snapshots'[k].text \in Documents
<1>1. ing[p].pc = "row" /\ Goto(p, "chunk") /\ ing[p].text \in Documents
  BY DEF InsertSnapshot, TypeOK, IngOK, Whole
<1>2. IngOK'
  BY <1>1, GotoTypes DEF Whole, Storage
<1>3. CASE Key(p) \in DOMAIN snapshots
  BY <1>2, <1>3 DEF InsertSnapshot, TypeOK
<1>4. CASE Key(p) \notin DOMAIN snapshots
  <2>1. snapshots' = [k \in DOMAIN snapshots \cup {Key(p)} |->
                         IF k = Key(p) THEN [version |-> ing[p].version, text |-> ing[p].text]
                         ELSE snapshots[k]]
    BY <1>4 DEF InsertSnapshot
  <2>2. Key(p) \in Sources \X Raws
    BY <1>1, HolderHolds DEF Key, Holders, Whole
  <2> QED BY <1>1, <1>2, <2>1, <2>2 DEF TypeOK
<1> QED BY <1>3, <1>4

LEMMA EditTypes ==
  ASSUME TypeOK, Edit
  PROVE  TypeOK'
<1>1. IngOK' /\ \A k \in DOMAIN snapshots' : k \in Sources \X Raws /\ snapshots'[k].text \in Documents
  BY DEF Edit, TypeOK, IngOK, tables
<1>2. page' \in [Sources \ {"git"} -> Raws] /\ enabled' \subseteq Sources
  BY DEF Edit, TypeOK
<1>3. extractor' \in BOOLEAN
  <2>1. extractor' = ~ extractor \/ extractor' = extractor
    BY DEF Edit
  <2> QED BY <2>1 DEF TypeOK
<1> QED BY <1>1, <1>2, <1>3 DEF TypeOK

LEMMA TypeStep == TypeOK /\ [Next]_vars => TypeOK'
<1> SUFFICES ASSUME TypeOK, [Next]_vars
             PROVE  TypeOK'
  OBVIOUS
<1> DEFINE Frame == UNCHANGED <<page, extractor, enabled, snapshots>>
<1>0. IngOK' /\ Frame => TypeOK'
  BY DEF TypeOK
<1>1. ASSUME NEW p \in Ingesters, NEW s \in Sources, Open(p, s) PROVE TypeOK'
  BY <1>0, <1>1, OpenTypes DEF Open, world, tables
<1>2. ASSUME NEW p \in Ingesters, Read(p) PROVE TypeOK'
  BY <1>0, <1>2, ReadTypes DEF Read, world, tables
<1>3. ASSUME NEW p \in Ingesters, ReadFails(p) PROVE TypeOK'
  BY <1>0, <1>3, QuitTypes DEF ReadFails, world, tables
<1>4. ASSUME NEW p \in Ingesters, HashBlob(p) PROVE TypeOK'
  BY <1>0, <1>4, HashTypes DEF HashBlob, world, tables
<1>5. ASSUME NEW p \in Ingesters, Find(p) PROVE TypeOK'
  <2>1. ing[p].pc \in Whole /\ (Proceed(p) \/ Goto(p, "raw")) /\ Frame
    BY <1>5 DEF Find, Whole, world, tables
  <2>2. "raw" \in Whole \ {"hash"}
    BY DEF Whole
  <2> QED BY <1>0, <2>1, <2>2, ProceedTypes, GotoTypes
<1>6. ASSUME NEW p \in Ingesters, NEW kind \in {"raw", "md"},
             Compare(p, kind) \/ Create(p, kind) \/ Fill(p, kind)
      PROVE  TypeOK'
  <2>1. Frame
    BY <1>6 DEF Compare, Create, Fill, world, tables
  <2> QED BY <1>0, <1>6, <2>1, FileStepTypes
<1>7. ASSUME NEW p \in Ingesters, InsertSnapshot(p) PROVE TypeOK'
  <2>1. UNCHANGED <<page, extractor, enabled>>
    BY <1>7 DEF InsertSnapshot, world
  <2> QED BY <1>7, <2>1, RowTypes DEF TypeOK
<1>8. ASSUME NEW p \in Ingesters, InsertChunk(p) PROVE TypeOK'
  <2>1. Frame /\ ing[p].pc = "chunk" /\ ing[p].text # <<>>
    BY <1>8 DEF InsertChunk, world
  <2>2. \/ ing' = [ing EXCEPT ![p].text = Tail(@)]
        \/ Goto(p, "fts")
    BY <1>8 DEF InsertChunk
  <2>3. ing' = [ing EXCEPT ![p].text = Tail(@)] => ing' = [ing EXCEPT ![p].text = Tail(@), ![p].pc = "chunk"]
    <3>1. ing[p] \in Holders
      BY <2>1, HolderHolds DEF Storage
    <3>2. [ing[p] EXCEPT !.text = Tail(@)] = [ing[p] EXCEPT !.text = Tail(@), !.pc = "chunk"]
      BY <2>1, <3>1 DEF Holders
    <3> QED BY <3>2 DEF TypeOK, IngOK
  <2> QED BY <1>0, <2>1, <2>2, <2>3, TextTypes, GotoTypes DEF Whole, Storage
<1>9. ASSUME NEW p \in Ingesters, InsertFts(p) PROVE TypeOK'
  <2>1. Frame /\ ing[p].pc = "fts" /\ ing[p].text # <<>> /\ ing' = [ing EXCEPT ![p].text = Tail(@), ![p].pc = "chunk"]
    BY <1>9 DEF InsertFts, world, TypeOK, IngOK
  <2> QED BY <1>0, <1>9, <2>1, TextTypes DEF Storage
<1>10. ASSUME NEW p \in Ingesters, EndDocument(p) PROVE TypeOK'
  BY <1>0, <1>10, ProceedTypes DEF EndDocument, Storage, world, tables
<1>11. ASSUME NEW p \in Ingesters, LoseIngester(p) PROVE TypeOK'
  BY <1>0, <1>11, QuitTypes DEF LoseIngester, world, tables
<1>12. ASSUME NEW q \in Indexers, IndexStep(q) \/ LoseIndexer(q) PROVE TypeOK'
  BY <1>12 DEF IndexStep, ListChunks, Embed, SetIndex, LoseIndexer, world, tables, TypeOK, IngOK
<1>13. CASE UNCHANGED vars
  BY <1>13 DEF vars, world, tables, TypeOK, IngOK
<1> QED BY <1>1, <1>2, <1>3, <1>4, <1>5, <1>6, <1>7, <1>8, <1>9, <1>10, <1>11, <1>12, <1>13,
           EditTypes DEF Next, Ingest

-----------------------------------------------------------------------------
(* The snapshot files.                                                     *)

FilesOK == FilesInv /\ SnapshotsIntact

\* Points at which an ingester claims something of a file.
Claiming == {"md", "md-open", "md-fill", "row", "raw-fill"}

LEMMA FilesAside ==
  ASSUME TypeOK, FilesOK, NEW p \in Ingesters, NEW r, ing' = [ing EXCEPT ![p] = r],
         r.pc \notin Claiming, files' = files, snapshots' = snapshots
  PROVE  FilesOK'
<1>1. ing'[p] = r /\ \A q \in Ingesters : q # p => ing'[q] = ing[q]
  BY DEF TypeOK, IngOK
<1>2. SnapshotsIntact'
  BY DEF FilesOK, SnapshotsIntact, FileOf
<1>3. \A q \in Ingesters : ing'[q].pc \in Claiming => q # p /\ ing'[q] = ing[q]
  BY <1>1
<1>4. FilesInv'
  <2> SUFFICES ASSUME NEW q \in Ingesters, ing'[q].pc \in Claiming
               PROVE  /\ ing'[q].pc \in {"md", "md-open", "md-fill", "row"} => FileOf(File(q, "raw"))' = ing'[q].raw
                      /\ ing'[q].pc = "row" => FileOf(File(q, "md"))' = ing'[q].text
                      /\ \A kind \in {"raw", "md"} : ing'[q].pc = Filling(kind) =>
                            /\ FileOf(File(q, kind))' = Partial
                            /\ \A o \in Ingesters : o # q /\ ing'[o].pc = Filling(kind)
                                  => File(o, kind)' # File(q, kind)'
    BY DEF FilesInv, Claiming, Filling
  <2>1. \A o \in Ingesters, kind \in {"raw", "md"} : ing'[o].pc \in Claiming =>
           File(o, kind)' = File(o, kind) /\ FileOf(File(o, kind))' = FileOf(File(o, kind))
    BY <1>3 DEF File, FileOf
  <2>2. \A kind \in {"raw", "md"} : Filling(kind) \in Claiming
    BY DEF Filling, Claiming
  <2> QED BY <1>3, <2>1, <2>2 DEF FilesOK, FilesInv
<1> QED BY <1>2, <1>4 DEF FilesOK

\* Going on with the same document.
LEMMA GotoKeeps ==
  ASSUME TypeOK, NEW p \in Ingesters, NEW pc, Goto(p, pc), ing[p].pc \in Whole \cup Storage
  PROVE  /\ ing'[p].pc = pc /\ ing'[p].source = ing[p].source /\ ing'[p].raw = ing[p].raw
         /\ ing'[p].text = ing[p].text /\ ing'[p].version = ing[p].version
         /\ \A q \in Ingesters : q # p => ing'[q] = ing[q]
         /\ \A q \in Ingesters, kind \in {"raw", "md"} : File(q, kind)' = File(q, kind)
<1>1. ing[p] \in Holders /\ ing \in [Ingesters -> {Away} \cup Readers \cup Holders]
  BY HolderHolds DEF TypeOK, IngOK
<1>2. ing' = [ing EXCEPT ![p] = [ing[p] EXCEPT !.pc = pc]]
  BY DEF Goto
<1>3. /\ ing'[p].pc = pc /\ ing'[p].source = ing[p].source /\ ing'[p].raw = ing[p].raw
      /\ ing'[p].text = ing[p].text /\ ing'[p].version = ing[p].version
  BY <1>1, <1>2 DEF Holders
<1>4. \A q \in Ingesters : q # p => ing'[q] = ing[q]
  BY <1>1, <1>2
<1> QED BY <1>3, <1>4 DEF File

LEMMA CompareFiles ==
  ASSUME TypeOK, FilesOK, NEW p \in Ingesters, NEW kind \in {"raw", "md"}, Compare(p, kind)
  PROVE  FilesOK'
<1>1. files' = files /\ snapshots' = snapshots /\ ing[p].pc = kind /\ kind \in Whole
  BY DEF Compare, tables, Whole
<1>2. CASE Quit(p)
  BY <1>1, <1>2, FilesAside DEF Quit, Away, Claiming
<1>3. CASE ~ Quit(p)
  <2>1. PICK pc \in {Opening(kind), After(kind)} :
           Goto(p, pc) /\ (pc = After(kind) => FileOf(File(p, kind)) = Data(p, kind))
    BY <1>3 DEF Compare, Opening, After
  <2>2. /\ ing'[p].pc = pc /\ ing'[p].source = ing[p].source /\ ing'[p].raw = ing[p].raw
        /\ ing'[p].text = ing[p].text
        /\ \A q \in Ingesters : q # p => ing'[q] = ing[q]
        /\ \A q \in Ingesters, k \in {"raw", "md"} : File(q, k)' = File(q, k)
    BY <1>1, <2>1, GotoKeeps
  <2>3. \A q \in Ingesters, k \in {"raw", "md"} : FileOf(File(q, k))' = FileOf(File(q, k))
    BY <1>1, <2>2 DEF FileOf
  <2>4. SnapshotsIntact'
    BY <1>1 DEF FilesOK, SnapshotsIntact, FileOf
  <2>5. /\ pc \in {"md", "md-open", "md-fill", "row"} => FileOf(File(p, "raw")) = ing[p].raw
        /\ pc = "row" => FileOf(File(p, "md")) = ing[p].text
        /\ pc \notin {"raw-fill", "md-fill"}
    BY <1>1, <2>1 DEF FilesOK, FilesInv, Data, Opening, After
  <2>6. \A q \in Ingesters :
           /\ ing'[q].pc \in {"md", "md-open", "md-fill", "row"} => FileOf(File(q, "raw"))' = ing'[q].raw
           /\ ing'[q].pc = "row" => FileOf(File(q, "md"))' = ing'[q].text
    BY <2>2, <2>3, <2>5 DEF FilesOK, FilesInv
  <2>7. \A q \in Ingesters, k \in {"raw", "md"} : ing'[q].pc = Filling(k) => q # p /\ ing[q].pc = Filling(k)
    BY <2>2, <2>5 DEF Filling
  <2>8. \A q \in Ingesters : \A k \in {"raw", "md"} : ing'[q].pc = Filling(k) =>
           /\ FileOf(File(q, k))' = Partial
           /\ \A o \in Ingesters : o # q /\ ing'[o].pc = Filling(k) => File(o, k)' # File(q, k)'
    BY <2>2, <2>3, <2>7 DEF FilesOK, FilesInv
  <2> QED BY <2>4, <2>6, <2>8 DEF FilesOK, FilesInv
<1> QED BY <1>2, <1>3

\* What is claimed of a file is a content: neither absent nor partial.
LEMMA ClaimsAreContents ==
  ASSUME TypeOK, FilesOK
  PROVE  /\ \A q \in Ingesters :
              /\ ing[q].pc \in {"md", "md-open", "md-fill", "row"} =>
                    FileOf(File(q, "raw")) \notin {None, Partial}
              /\ ing[q].pc = "row" => FileOf(File(q, "md")) \notin {None, Partial}
         /\ \A k \in DOMAIN snapshots : /\ FileOf(<<k[1], k[2], "raw">>) \notin {None, Partial}
                                        /\ FileOf(<<k[1], k[2], "md">>) \notin {None, Partial}
<1>1. \A q \in Ingesters : ing[q].pc \in {"md", "md-open", "md-fill", "row"} =>
         ing[q].raw \in Raws /\ ing[q].text \in Documents
  BY HolderHolds DEF TypeOK, IngOK, Whole, Holders
<1>2. \A k \in DOMAIN snapshots : k[2] \in Raws /\ snapshots[k].text \in Documents
  BY DEF TypeOK
<1> QED BY <1>1, <1>2, DocumentsAreTexts DEF FilesOK, FilesInv, SnapshotsIntact

\* Writing a file that held no content disturbs no claim.
LEMMA WriteKeeps ==
  ASSUME TypeOK, FilesOK, NEW p \in Ingesters, NEW kind \in {"raw", "md"}, NEW data,
         NEW pc, Goto(p, pc), ing[p].pc \in {Opening(kind), Filling(kind)}, snapshots' = snapshots,
         FileOf(File(p, kind)) \in {None, Partial},
         \A f : FileOf(f)' = IF f = File(p, kind) THEN data ELSE FileOf(f)
  PROVE  /\ SnapshotsIntact'
         /\ \A q \in Ingesters : q # p =>
              /\ ing'[q].pc \in {"md", "md-open", "md-fill", "row"} => FileOf(File(q, "raw"))' = ing'[q].raw
              /\ ing'[q].pc = "row" => FileOf(File(q, "md"))' = ing'[q].text
         /\ kind = "md" => FileOf(File(p, "raw"))' = ing'[p].raw
         /\ FileOf(File(p, kind))' = data
         /\ ing'[p].pc = pc /\ ing'[p].raw = ing[p].raw /\ ing'[p].text = ing[p].text
         /\ \A q \in Ingesters : q # p => ing'[q] = ing[q]
         /\ \A q \in Ingesters, k \in {"raw", "md"} : File(q, k)' = File(q, k)
<1> DEFINE F == File(p, kind)
<1>1. ing[p].pc \in Whole
  BY DEF Opening, Filling, Whole
<1>2. /\ ing'[p].pc = pc /\ ing'[p].raw = ing[p].raw /\ ing'[p].text = ing[p].text
      /\ \A q \in Ingesters : q # p => ing'[q] = ing[q]
      /\ \A q \in Ingesters, k \in {"raw", "md"} : File(q, k)' = File(q, k)
  BY <1>1, GotoKeeps
<1>3. SnapshotsIntact'
  <2>1. \A k \in DOMAIN snapshots : <<k[1], k[2], "raw">> # F /\ <<k[1], k[2], "md">> # F
    BY ClaimsAreContents
  <2> QED BY <2>1 DEF FilesOK, SnapshotsIntact
<1>4. \A q \in Ingesters : q # p =>
         /\ ing'[q].pc \in {"md", "md-open", "md-fill", "row"} => FileOf(File(q, "raw"))' = ing'[q].raw
         /\ ing'[q].pc = "row" => FileOf(File(q, "md"))' = ing'[q].text
  <2>1. \A q \in Ingesters :
           /\ ing[q].pc \in {"md", "md-open", "md-fill", "row"} => File(q, "raw") # F
           /\ ing[q].pc = "row" => File(q, "md") # F
    BY ClaimsAreContents
  <2>2. \A q \in Ingesters, k \in {"raw", "md"} :
           FileOf(File(q, k))' = IF File(q, k) = F THEN data ELSE FileOf(File(q, k))
    BY <1>2 DEF FileOf
  <2> QED BY <1>2, <2>1, <2>2 DEF FilesOK, FilesInv
<1>5. FileOf(File(p, kind))' = data
  BY <1>2 DEF FileOf
<1>6. kind = "md" => FileOf(File(p, "raw"))' = ing'[p].raw
  <2>1. kind = "md" => FileOf(File(p, "raw")) = ing[p].raw /\ File(p, "raw") # F
    BY DEF FilesOK, FilesInv, Opening, Filling, File
  <2> QED BY <1>2, <2>1 DEF FileOf
<1> QED BY <1>2, <1>3, <1>4, <1>5, <1>6

LEMMA CreateFiles ==
  ASSUME TypeOK, FilesOK, NEW p \in Ingesters, NEW kind \in {"raw", "md"}, Create(p, kind)
  PROVE  FilesOK'
<1> DEFINE F == File(p, kind)
<1>1. snapshots' = snapshots /\ ing[p].pc = Opening(kind)
  BY DEF Create, tables
<1>2. CASE FileOf(F) # None
  BY <1>1, <1>2, FilesAside DEF Create, Quit, Away, Claiming
<1>3. CASE FileOf(F) = None
  <2>1. /\ files' = [f \in DOMAIN files \cup {F} |-> IF f = F THEN Partial ELSE files[f]]
        /\ Goto(p, Filling(kind))
    BY <1>3 DEF Create
  <2>2. \A f : FileOf(f)' = IF f = F THEN Partial ELSE FileOf(f)
    BY <2>1 DEF FileOf
  <2>3. /\ SnapshotsIntact'
        /\ \A q \in Ingesters : q # p =>
             /\ ing'[q].pc \in {"md", "md-open", "md-fill", "row"} => FileOf(File(q, "raw"))' = ing'[q].raw
             /\ ing'[q].pc = "row" => FileOf(File(q, "md"))' = ing'[q].text
        /\ kind = "md" => FileOf(File(p, "raw"))' = ing'[p].raw
        /\ FileOf(File(p, kind))' = Partial
        /\ ing'[p].pc = Filling(kind)
        /\ \A q \in Ingesters : q # p => ing'[q] = ing[q]
        /\ \A q \in Ingesters, k \in {"raw", "md"} : File(q, k)' = File(q, k)
    BY <1>1, <1>3, <2>1, <2>2, WriteKeeps
  <2>4. \A q \in Ingesters :
           /\ ing'[q].pc \in {"md", "md-open", "md-fill", "row"} => FileOf(File(q, "raw"))' = ing'[q].raw
           /\ ing'[q].pc = "row" => FileOf(File(q, "md"))' = ing'[q].text
    BY <2>3 DEF Filling
  <2>5. \A q \in Ingesters, k \in {"raw", "md"} : ing[q].pc = Filling(k) => File(q, k) # F
    BY <1>3, RawsAssumption DEF FilesOK, FilesInv
  <2>6. \A q \in Ingesters, k \in {"raw", "md"} : ing'[q].pc = Filling(k) =>
           (IF q = p THEN k = kind ELSE ing[q].pc = Filling(k))
    BY <2>3 DEF Filling
  <2>7. \A q \in Ingesters, k \in {"raw", "md"} : ing'[q].pc = Filling(k) => FileOf(File(q, k))' = Partial
    BY <2>2, <2>3, <2>6 DEF FilesOK, FilesInv, FileOf
  <2>8. \A q, o \in Ingesters, k \in {"raw", "md"} :
           ing'[q].pc = Filling(k) /\ o # q /\ ing'[o].pc = Filling(k) => File(o, k)' # File(q, k)'
    <3> SUFFICES ASSUME NEW q \in Ingesters, NEW o \in Ingesters, NEW k \in {"raw", "md"},
                        ing'[q].pc = Filling(k), o # q, ing'[o].pc = Filling(k)
                 PROVE  File(o, k) # File(q, k)
      BY <2>3
    <3>1. CASE q = p
      BY <3>1, <2>5, <2>6
    <3>2. CASE o = p
      BY <3>2, <2>5, <2>6
    <3>3. CASE q # p /\ o # p
      BY <3>3, <2>6 DEF FilesOK, FilesInv
    <3> QED BY <3>1, <3>2, <3>3
  <2>9. FilesInv'
    BY <2>4, <2>7, <2>8 DEF FilesInv
  <2> QED BY <2>3, <2>9 DEF FilesOK
<1> QED BY <1>2, <1>3

LEMMA FillFiles ==
  ASSUME TypeOK, FilesOK, NEW p \in Ingesters, NEW kind \in {"raw", "md"}, Fill(p, kind)
  PROVE  FilesOK'
<1> DEFINE F == File(p, kind)
<1>1. /\ snapshots' = snapshots /\ ing[p].pc = Filling(kind) /\ Goto(p, After(kind))
      /\ files' = [files EXCEPT ![F] = Data(p, kind)]
  BY DEF Fill, tables
<1>2. FileOf(F) = Partial
  BY <1>1 DEF FilesOK, FilesInv
<1>3. F \in DOMAIN files
  BY <1>2, RawsAssumption DEF FileOf
<1>4. \A f : FileOf(f)' = IF f = F THEN Data(p, kind) ELSE FileOf(f)
  BY <1>1, <1>3 DEF FileOf
<1>5. /\ SnapshotsIntact'
      /\ \A q \in Ingesters : q # p =>
           /\ ing'[q].pc \in {"md", "md-open", "md-fill", "row"} => FileOf(File(q, "raw"))' = ing'[q].raw
           /\ ing'[q].pc = "row" => FileOf(File(q, "md"))' = ing'[q].text
      /\ kind = "md" => FileOf(File(p, "raw"))' = ing'[p].raw
      /\ FileOf(File(p, kind))' = Data(p, kind)
      /\ ing'[p].pc = After(kind) /\ ing'[p].raw = ing[p].raw /\ ing'[p].text = ing[p].text
      /\ \A q \in Ingesters : q # p => ing'[q] = ing[q]
      /\ \A q \in Ingesters, k \in {"raw", "md"} : File(q, k)' = File(q, k)
  BY <1>1, <1>2, <1>4, WriteKeeps
<1>6. /\ ing'[p].pc \in {"md", "md-open", "md-fill", "row"} => FileOf(File(p, "raw"))' = ing'[p].raw
      /\ ing'[p].pc = "row" => FileOf(File(p, "md"))' = ing'[p].text
      /\ ing'[p].pc \notin {"raw-fill", "md-fill"}
  BY <1>5 DEF After, Data
<1>7. \A q \in Ingesters, k \in {"raw", "md"} : ing'[q].pc = Filling(k) => q # p /\ ing[q].pc = Filling(k)
  BY <1>5, <1>6 DEF Filling
<1>8. \A q \in Ingesters, k \in {"raw", "md"} : ing'[q].pc = Filling(k) => File(q, k) # F
  <2> SUFFICES ASSUME NEW q \in Ingesters, NEW k \in {"raw", "md"}, q # p, ing[q].pc = Filling(k)
               PROVE  File(q, k) # F
    BY <1>7
  <2>1. CASE k = kind
    BY <2>1, <1>1 DEF FilesOK, FilesInv
  <2>2. CASE k # kind
    BY <2>2 DEF File
  <2> QED BY <2>1, <2>2
<1>9. \A q \in Ingesters : \A k \in {"raw", "md"} : ing'[q].pc = Filling(k) =>
         /\ FileOf(File(q, k))' = Partial
         /\ \A o \in Ingesters : o # q /\ ing'[o].pc = Filling(k) => File(o, k)' # File(q, k)'
  BY <1>4, <1>5, <1>7, <1>8 DEF FilesOK, FilesInv, FileOf
<1>10. FilesInv'
  BY <1>5, <1>6, <1>9 DEF FilesInv
<1> QED BY <1>5, <1>10 DEF FilesOK

LEMMA RowFiles ==
  ASSUME TypeOK, FilesOK, NEW p \in Ingesters, InsertSnapshot(p)
  PROVE  FilesOK'
<1>1. files' = files /\ ing[p].pc = "row" /\ Goto(p, "chunk")
  BY DEF InsertSnapshot
<1>2. FileOf(File(p, "raw")) = ing[p].raw /\ FileOf(File(p, "md")) = ing[p].text
  BY <1>1 DEF FilesOK, FilesInv
<1>3. SnapshotsIntact'
  <2>1. \A k \in DOMAIN snapshots' : \/ k \in DOMAIN snapshots /\ snapshots'[k] = snapshots[k]
                                     \/ k = Key(p) /\ snapshots'[k].text = ing[p].text
    BY DEF InsertSnapshot
  <2>2. \A f : FileOf(f)' = FileOf(f)
    BY <1>1 DEF FileOf
  <2>3. \A k \in DOMAIN snapshots' : /\ FileOf(<<k[1], k[2], "raw">>) = k[2]
                                     /\ FileOf(<<k[1], k[2], "md">>) = snapshots'[k].text
    <3> SUFFICES ASSUME NEW k \in DOMAIN snapshots'
                 PROVE  /\ FileOf(<<k[1], k[2], "raw">>) = k[2]
                        /\ FileOf(<<k[1], k[2], "md">>) = snapshots'[k].text
      OBVIOUS
    <3>1. CASE k \in DOMAIN snapshots /\ snapshots'[k] = snapshots[k]
      BY <3>1 DEF FilesOK, SnapshotsIntact
    <3>2. CASE k = Key(p) /\ snapshots'[k].text = ing[p].text
      BY <3>2, <1>2 DEF Key, File
    <3> QED BY <3>1, <3>2, <2>1
  <2> QED BY <2>2, <2>3 DEF SnapshotsIntact
<1>4. FilesInv'
  <2>1. /\ ing'[p].pc = "chunk"
        /\ \A q \in Ingesters : q # p => ing'[q] = ing[q]
        /\ \A q \in Ingesters, k \in {"raw", "md"} : File(q, k)' = File(q, k)
    BY <1>1, GotoKeeps DEF Whole
  <2>2. \A q \in Ingesters, k \in {"raw", "md"} : FileOf(File(q, k))' = FileOf(File(q, k))
    BY <1>1, <2>1 DEF FileOf
  <2>3. \A q \in Ingesters : /\ ing'[q].pc \in {"md", "md-open", "md-fill", "row"} => q # p
                             /\ \A k \in {"raw", "md"} : ing'[q].pc = Filling(k) => q # p
    BY <2>1 DEF Filling
  <2> QED BY <2>1, <2>2, <2>3 DEF FilesOK, FilesInv
<1> QED BY <1>3, <1>4 DEF FilesOK

LEMMA ReadGets ==
  ASSUME TypeOK, NEW p \in Ingesters, Read(p)
  PROVE  \E r : ing' = [ing EXCEPT ![p] = r] /\ r.pc \in {"hash", "find"}
<1>1. ing[p].source \in {"markdown", "html", "git"}
  BY ReaderHolds, KnowledgeAssumption DEF Read, Readers
<1>2. \A raw, version, pc : Got(p, raw, version, pc) /\ pc \in {"hash", "find"} =>
         \E r : ing' = [ing EXCEPT ![p] = r] /\ r.pc \in {"hash", "find"}
  <2> SUFFICES ASSUME NEW raw, NEW version, NEW pc \in {"hash", "find"}, Got(p, raw, version, pc)
               PROVE  \E r : ing' = [ing EXCEPT ![p] = r] /\ r.pc \in {"hash", "find"}
    OBVIOUS
  <2> DEFINE r == [pc |-> pc, source |-> ing[p].source, paths |-> ing[p].paths, raw |-> raw,
                   version |-> version, text |-> Normalized(ing[p].source, raw, extractor)]
  <2>1. ing' = [ing EXCEPT ![p] = r] /\ r.pc = pc
    BY DEF Got
  <2> HIDE DEF r
  <2> QED BY <2>1
<1>3. \E raw, version, pc : Got(p, raw, version, pc) /\ pc \in {"hash", "find"}
  BY <1>1 DEF Read
<1> QED BY <1>2, <1>3

LEMMA FilesStep == TypeOK /\ FilesOK /\ [Next]_vars => FilesOK'
<1> SUFFICES ASSUME TypeOK, FilesOK, [Next]_vars
             PROVE  FilesOK'
  OBVIOUS
<1>1. ASSUME NEW p \in Ingesters, NEW s \in Sources, Open(p, s) PROVE FilesOK'
  <2> DEFINE r == Reading(s, IF s = "git" THEN GitPaths ELSE <<"">>)
  <2>1. ing' = [ing EXCEPT ![p] = r] /\ files' = files /\ snapshots' = snapshots
    BY <1>1 DEF Open, tables
  <2>2. r.pc \notin Claiming
    BY DEF Reading, Claiming
  <2> HIDE DEF r
  <2> QED BY <2>1, <2>2, FilesAside
<1>2. ASSUME NEW p \in Ingesters, Read(p) PROVE FilesOK'
  <2>1. PICK r : ing' = [ing EXCEPT ![p] = r] /\ r.pc \in {"hash", "find"}
    BY <1>2, ReadGets
  <2>2. files' = files /\ snapshots' = snapshots
    BY <1>2 DEF Read, tables
  <2> QED BY <2>1, <2>2, FilesAside DEF Claiming
<1>3. ASSUME NEW p \in Ingesters, Quit(p), files' = files, snapshots' = snapshots PROVE FilesOK'
  BY <1>3, FilesAside DEF Quit, Away, Claiming
<1>4. ASSUME NEW p \in Ingesters, NEW pc, Goto(p, pc), pc \notin Claiming, ing[p].pc \in Whole \cup Storage,
             files' = files, snapshots' = snapshots
      PROVE  FilesOK'
  <2>1. [ing[p] EXCEPT !.pc = pc].pc = pc
    BY <1>4, HolderHolds DEF Holders
  <2> QED BY <1>4, <2>1, FilesAside DEF Goto
<1>5. ASSUME NEW p \in Ingesters, Proceed(p), files' = files, snapshots' = snapshots PROVE FilesOK'
  <2>1. CASE Quit(p)
    BY <1>3, <1>5, <2>1
  <2>2. CASE ~ Quit(p)
    BY <1>5, <2>2, FilesAside DEF Proceed, Reading, Claiming
  <2> QED BY <2>1, <2>2
<1>6. ASSUME NEW p \in Ingesters, HashBlob(p) PROVE FilesOK'
  <2> DEFINE r == [ing[p] EXCEPT !.version = page["markdown"], !.pc = "find"]
  <2>1. ing' = [ing EXCEPT ![p] = r] /\ r.pc = "find" /\ files' = files /\ snapshots' = snapshots
    BY <1>6, HolderHolds DEF HashBlob, TypeOK, IngOK, Holders, Whole, tables
  <2> QED BY <2>1, FilesAside DEF Claiming
<1>7. ASSUME NEW p \in Ingesters, Find(p) PROVE FilesOK'
  BY <1>4, <1>5, <1>7 DEF Find, Whole, Claiming, tables
<1>8. ASSUME NEW p \in Ingesters, InsertChunk(p) PROVE FilesOK'
  <2>1. files' = files /\ snapshots' = snapshots /\ ing[p].pc = "chunk" /\ ing[p] \in Holders
    BY <1>8, HolderHolds DEF InsertChunk, Storage
  <2>2. CASE Goto(p, "fts")
    BY <1>4, <2>1, <2>2 DEF Storage, Claiming
  <2>3. CASE ing' = [ing EXCEPT ![p].text = Tail(@)]
    <3> DEFINE r == [ing[p] EXCEPT !.text = Tail(@)]
    <3>1. ing' = [ing EXCEPT ![p] = r] /\ r.pc = "chunk"
      BY <2>1, <2>3 DEF Holders
    <3> QED BY <2>1, <3>1, FilesAside DEF Claiming
  <2> QED BY <1>8, <2>2, <2>3 DEF InsertChunk
<1>9. ASSUME NEW p \in Ingesters, InsertFts(p) PROVE FilesOK'
  <2> DEFINE r == [ing[p] EXCEPT !.text = Tail(@), !.pc = "chunk"]
  <2>1. ing' = [ing EXCEPT ![p] = r] /\ r.pc = "chunk" /\ files' = files /\ snapshots' = snapshots
    BY <1>9, HolderHolds DEF InsertFts, TypeOK, IngOK, Holders, Storage
  <2> QED BY <2>1, FilesAside DEF Claiming
<1>10. CASE UNCHANGED <<files, snapshots, ing>>
  BY <1>10 DEF FilesOK, FilesInv, SnapshotsIntact, FileOf, File
<1>11. (\E q \in Indexers : IndexStep(q) \/ LoseIndexer(q)) \/ Edit \/ UNCHANGED vars
          => UNCHANGED <<files, snapshots, ing>>
  BY DEF IndexStep, ListChunks, Embed, SetIndex, LoseIndexer, Edit, vars, tables
<1>12. \A p \in Ingesters : ReadFails(p) \/ LoseIngester(p) => Quit(p) /\ files' = files /\ snapshots' = snapshots
  BY DEF ReadFails, LoseIngester, tables
<1>13. \A p \in Ingesters : EndDocument(p) => Proceed(p) /\ files' = files /\ snapshots' = snapshots
  BY DEF EndDocument, tables
<1> QED BY <1>1, <1>2, <1>3, <1>5, <1>6, <1>7, <1>8, <1>9, <1>10, <1>11, <1>12, <1>13,
           CompareFiles, CreateFiles, FillFiles, RowFiles DEF Next, Ingest

-----------------------------------------------------------------------------
(* The chunks and the full-text index.                                     *)

RowsOK == ChunksInv /\ FtsInv

\* An ingester that is not storing chunks, before and after, does not matter.
LEMMA RowsAside ==
  ASSUME TypeOK, RowsOK, NEW p \in Ingesters, NEW r, ing' = [ing EXCEPT ![p] = r],
         r.pc \notin Storage, ing[p].pc \notin Storage,
         UNCHANGED <<snapshots, chunks, fts, history>>
  PROVE  RowsOK'
<1>1. ing'[p] = r /\ \A q \in Ingesters : q # p => ing'[q] = ing[q]
  BY DEF TypeOK, IngOK
<1>2. \A q \in Ingesters : (ing[q].pc \in Storage \/ ing'[q].pc \in Storage) => q # p /\ ing'[q] = ing[q]
  BY <1>1
<1>3. \A q \in Ingesters : ing[q].pc \in Storage <=> ing'[q].pc \in Storage
  BY <1>1, <1>2
<1>4. \A q \in Ingesters : ing[q].pc = "fts" <=> ing'[q].pc = "fts"
  BY <1>1, <1>2 DEF Storage
<1>5. \A q \in Ingesters : ing[q].pc \in Storage =>
         Key(q)' = Key(q) /\ NextId(q)' = NextId(q) /\ Remaining(q)' = Remaining(q) /\ OwnIds(q)' = OwnIds(q)
  BY <1>2 DEF Key, NextId, Remaining, OwnIds, Ids
<1>6. \A d : Ids(d[1], d[2], d[3])' = Ids(d[1], d[2], d[3])
  BY DEF Ids
<1>7. ChunksInv'
  BY <1>3, <1>5, <1>6 DEF RowsOK, ChunksInv, history
<1>8. FtsInv'
  BY <1>4, <1>5 DEF RowsOK, FtsInv, Storage, Between, history
<1> QED BY <1>7, <1>8 DEF RowsOK

LEMMA QuitRows ==
  ASSUME TypeOK, RowsOK, NEW p \in Ingesters, Quit(p), ing[p].pc \notin Storage,
         UNCHANGED <<snapshots, chunks, fts, history>>
  PROVE  RowsOK'
BY RowsAside DEF Quit, Away, Storage

LEMMA GotoRows ==
  ASSUME TypeOK, RowsOK, NEW p \in Ingesters, NEW pc \in Whole, Goto(p, pc), ing[p].pc \in Whole,
         UNCHANGED <<snapshots, chunks, fts, history>>
  PROVE  RowsOK'
<1>1. [ing[p] EXCEPT !.pc = pc].pc = pc
  BY HolderHolds DEF Holders
<1>2. pc \notin Storage /\ ing[p].pc \notin Storage
  BY DEF Whole, Storage
<1> QED BY <1>1, <1>2, RowsAside DEF Goto

\* The row that is there, or is made, has the text the ingester goes on with:
\* the file both were compared with is the same.
LEMMA SnapshotRows ==
  ASSUME TypeOK, FilesOK, RowsOK, NEW p \in Ingesters, InsertSnapshot(p)
  PROVE  RowsOK'
<1>1. /\ ing[p].pc = "row" /\ Goto(p, "chunk")
      /\ UNCHANGED <<chunks, fts, history>>
  BY DEF InsertSnapshot
<1>2. /\ ing'[p].pc = "chunk" /\ ing'[p].source = ing[p].source /\ ing'[p].raw = ing[p].raw
      /\ ing'[p].text = ing[p].text /\ ing'[p].version = ing[p].version
      /\ \A q \in Ingesters : q # p => ing'[q] = ing[q]
  BY <1>1, GotoKeeps DEF Whole
<1>3. \A q \in Ingesters : Key(q)' = Key(q) /\ NextId(q)' = NextId(q) /\ Remaining(q)' = Remaining(q)
  BY <1>2 DEF Key, NextId, Remaining
<1>4. \A q \in Ingesters : /\ ing'[q].pc \in Storage => ing[q].pc \in Storage \/ q = p
                           /\ ing'[q].pc = "fts" <=> ing[q].pc = "fts"
  BY <1>1, <1>2 DEF Storage
<1>5. /\ DOMAIN snapshots' = DOMAIN snapshots \cup {Key(p)}
      /\ \A k \in DOMAIN snapshots : snapshots'[k] = snapshots[k]
      /\ Key(p) \notin DOMAIN snapshots => snapshots'[Key(p)].text = ing[p].text
  BY DEF InsertSnapshot
<1>6. snapshots'[Key(p)].text = ing[p].text
  <2>1. FileOf(<<ing[p].source, ing[p].raw, "md">>) = ing[p].text
    BY <1>1 DEF FilesOK, FilesInv, File
  <2>2. CASE Key(p) \in DOMAIN snapshots
    <3>1. FileOf(<<Key(p)[1], Key(p)[2], "md">>) = snapshots[Key(p)].text
      BY <2>2 DEF FilesOK, SnapshotsIntact
    <3> QED BY <1>5, <2>1, <2>2, <3>1 DEF Key
  <2> QED BY <1>5, <2>2
<1>7. \A s, raw, version : <<s, raw>> \in DOMAIN snapshots =>
         Ids(s, raw, version)' = Ids(s, raw, version)
  BY <1>5 DEF Ids
<1>8. ASSUME NEW q \in Ingesters, ing'[q].pc \in Storage
      PROVE  Key(q)' \in DOMAIN snapshots' /\ OwnIds(q)' \subseteq DOMAIN chunks' \cup Remaining(q)'
  <2>1. CASE q = p
    <3>1. OwnIds(p)' = Remaining(p)'
      BY <1>2, <1>6 DEF OwnIds, Ids, Remaining, Key
    <3> QED BY <1>3, <1>5, <2>1, <3>1
  <2>2. CASE q # p
    <3>1. ing[q].pc \in Storage /\ ing'[q] = ing[q]
      BY <1>2, <1>4, <1>8, <2>2
    <3>2. /\ <<ing[q].source, ing[q].raw>> \in DOMAIN snapshots
          /\ OwnIds(q) \subseteq DOMAIN chunks \cup Remaining(q)
      BY <3>1 DEF RowsOK, ChunksInv, Key
    <3>3. OwnIds(q)' = OwnIds(q)
      BY <1>7, <3>1, <3>2 DEF OwnIds
    <3> QED BY <1>1, <1>3, <1>5, <3>2, <3>3 DEF Key
  <2> QED BY <2>1, <2>2
<1>9. ChunksInv'
  <2>1. ASSUME NEW d \in stored
        PROVE  <<d[1], d[2]>> \in DOMAIN snapshots' /\ Ids(d[1], d[2], d[3])' \subseteq DOMAIN chunks'
    BY <1>1, <1>5, <1>7 DEF RowsOK, ChunksInv
  <2> QED BY <1>1, <1>8, <2>1 DEF ChunksInv, history
<1>10. FtsInv'
  BY <1>1, <1>3, <1>4 DEF RowsOK, FtsInv, Between, history
<1> QED BY <1>9, <1>10 DEF RowsOK

\* Done with one passage: what remains is all but that.
LEMMA TailKeeps ==
  ASSUME TypeOK, NEW p \in Ingesters, ing[p].pc \in Storage, ing[p].text # <<>>,
         ing' = [ing EXCEPT ![p].text = Tail(@), ![p].pc = "chunk"]
  PROVE  /\ ing'[p].pc = "chunk"
         /\ \A q \in Ingesters : q # p => ing'[q] = ing[q]
         /\ \A q \in Ingesters : Key(q)' = Key(q)
         /\ \A q \in Ingesters : q # p => NextId(q)' = NextId(q) /\ Remaining(q)' = Remaining(q)
         /\ Remaining(p) = {NextId(p)} \cup Remaining(p)'
<1>1. ing[p] \in Holders
  BY HolderHolds
<1>2. /\ ing'[p].pc = "chunk" /\ ing'[p].source = ing[p].source /\ ing'[p].raw = ing[p].raw
      /\ ing'[p].version = ing[p].version /\ ing'[p].text = Tail(ing[p].text)
      /\ \A q \in Ingesters : q # p => ing'[q] = ing[q]
  BY <1>1 DEF TypeOK, IngOK, Holders
<1>3. \A q \in Ingesters : Key(q)' = Key(q)
  BY <1>2 DEF Key
<1>4. \A q \in Ingesters : q # p => NextId(q)' = NextId(q) /\ Remaining(q)' = Remaining(q)
  BY <1>2 DEF NextId, Remaining
<1>5. Remaining(p) = {NextId(p)} \cup Remaining(p)'
  <2>1. ing[p].text \in Seq(Words)
    BY <1>1 DEF Holders
  <2>2. Remaining(p)' = ChunkIds(ing[p].source, ing[p].version, Tail(ing[p].text))
    BY <1>2 DEF Remaining
  <2> QED BY <2>1, <2>2, NextChunk DEF Remaining, NextId
<1> QED BY <1>2, <1>3, <1>4, <1>5

\* The document an ingester works on stays the same while it stores it.
LEMMA OwnKeeps ==
  ASSUME NEW q, Key(q)' = Key(q), ing'[q].version = ing[q].version, UNCHANGED snapshots
  PROVE  OwnIds(q)' = OwnIds(q)
BY DEF OwnIds, Ids, Key

\* A passage whose chunk is stored drops out of what an ingester has left.
LEMMA TailChunks ==
  ASSUME TypeOK, RowsOK, NEW p \in Ingesters, ing[p].pc \in Storage, ing[p].text # <<>>,
         ing' = [ing EXCEPT ![p].text = Tail(@), ![p].pc = "chunk"], NextId(p) \in DOMAIN chunks,
         UNCHANGED <<snapshots, chunks, history>>
  PROVE  ChunksInv'
<1>1. /\ ing'[p].pc = "chunk"
      /\ \A q \in Ingesters : q # p => ing'[q] = ing[q]
      /\ \A q \in Ingesters : Key(q)' = Key(q)
      /\ \A q \in Ingesters : q # p => NextId(q)' = NextId(q) /\ Remaining(q)' = Remaining(q)
      /\ Remaining(p) = {NextId(p)} \cup Remaining(p)'
  BY TailKeeps
<1>2. \A q \in Ingesters : ing'[q].pc \in Storage <=> ing[q].pc \in Storage
  BY <1>1 DEF Storage
<1>3. \A q \in Ingesters : DOMAIN chunks \cup Remaining(q) = DOMAIN chunks' \cup Remaining(q)'
  BY <1>1
<1>4. \A q \in Ingesters : ing[q].pc \in Storage => OwnIds(q)' = OwnIds(q)
  <2>1. ing[p] \in Holders
    BY HolderHolds
  <2>2. ing'[p].version = ing[p].version
    BY <2>1 DEF TypeOK, IngOK, Holders
  <2> QED BY <1>1, <2>2, OwnKeeps
<1>5. \A d : Ids(d[1], d[2], d[3])' = Ids(d[1], d[2], d[3])
  BY DEF Ids
<1> QED BY <1>1, <1>2, <1>3, <1>4, <1>5 DEF RowsOK, ChunksInv, history

LEMMA ChunkRows ==
  ASSUME TypeOK, RowsOK, NEW p \in Ingesters, InsertChunk(p)
  PROVE  RowsOK'
<1> DEFINE id == NextId(p)
<1>1. /\ ing[p].pc = "chunk" /\ ing[p].text # <<>> /\ ing[p] \in Holders
      /\ UNCHANGED <<snapshots, fts, history>>
  BY HolderHolds DEF InsertChunk, Storage
<1>2. CASE id \in DOMAIN chunks
  <2>1. UNCHANGED chunks /\ ing' = [ing EXCEPT ![p].text = Tail(@), ![p].pc = "chunk"]
    <3>1. UNCHANGED chunks /\ ing' = [ing EXCEPT ![p].text = Tail(@)]
      BY <1>2 DEF InsertChunk, NextId
    <3>2. [ing[p] EXCEPT !.text = Tail(@)] = [ing[p] EXCEPT !.text = Tail(@), !.pc = "chunk"]
      BY <1>1 DEF Holders
    <3> QED BY <3>1, <3>2 DEF TypeOK, IngOK
  <2>2. ChunksInv'
    BY <1>1, <1>2, <2>1, TailChunks DEF Storage
  <2>3. /\ \A q \in Ingesters : ing'[q].pc = "fts" <=> ing[q].pc = "fts"
        /\ \A q \in Ingesters : ing[q].pc = "fts" => Key(q)' = Key(q) /\ NextId(q)' = NextId(q)
    BY <1>1, <2>1, TailKeeps DEF Storage
  <2>4. FtsInv'
    <3>1. \A q \in Ingesters : ing'[q].pc = "fts" =>
             /\ NextId(q)' \in DOMAIN chunks' \ DOMAIN fts'
             /\ \A o \in Ingesters : o # q /\ ing'[o].pc = "fts" => NextId(o)' # NextId(q)'
      <4>1. SUFFICES ASSUME NEW q \in Ingesters, ing[q].pc = "fts"
                     PROVE  /\ NextId(q) \in DOMAIN chunks \ DOMAIN fts
                            /\ \A o \in Ingesters : o # q /\ ing[o].pc = "fts" => NextId(o) # NextId(q)
        BY <1>1, <2>1, <2>3
      <4> QED BY <4>1 DEF RowsOK, FtsInv
    <3>2. \A c \in DOMAIN chunks' \ DOMAIN fts' :
             c \in orphans' \/ \E q \in Ingesters : Between(q, c)'
      BY <1>1, <2>1, <2>3 DEF RowsOK, FtsInv, Between, history
    <3> QED BY <1>1, <2>1, <3>1, <3>2 DEF RowsOK, FtsInv
  <2> QED BY <2>2, <2>4 DEF RowsOK
<1>3. CASE id \notin DOMAIN chunks
  <2>1. /\ chunks' = [c \in DOMAIN chunks \cup {id} |-> IF c = id THEN Key(p) ELSE chunks[c]]
        /\ Goto(p, "fts")
    BY <1>3 DEF InsertChunk, NextId
  <2>2. /\ DOMAIN chunks' = DOMAIN chunks \cup {id} /\ chunks'[id] = Key(p)
        /\ \A c \in DOMAIN chunks : c # id /\ chunks'[c] = chunks[c]
    BY <1>3, <2>1
  <2>3. /\ ing'[p].pc = "fts"
        /\ \A q \in Ingesters : q # p => ing'[q] = ing[q]
        /\ \A q \in Ingesters : Key(q)' = Key(q) /\ NextId(q)' = NextId(q) /\ Remaining(q)' = Remaining(q)
    <3>1. /\ ing'[p].pc = "fts" /\ ing'[p].source = ing[p].source /\ ing'[p].raw = ing[p].raw
          /\ ing'[p].text = ing[p].text /\ ing'[p].version = ing[p].version
          /\ \A q \in Ingesters : q # p => ing'[q] = ing[q]
      BY <1>1, <2>1, GotoKeeps DEF Storage
    <3> QED BY <3>1 DEF Key, NextId, Remaining
  <2>4. /\ \A d : Ids(d[1], d[2], d[3])' = Ids(d[1], d[2], d[3])
        /\ \A q \in Ingesters : OwnIds(q)' = OwnIds(q)
    <3>1. ing'[p].version = ing[p].version
      BY <1>1, <2>1, GotoKeeps DEF Storage
    <3> QED BY <1>1, <2>3, <3>1, OwnKeeps DEF Ids
  <2>5. ChunksInv'
    <3>1. \A q \in Ingesters : ing'[q].pc \in Storage <=> ing[q].pc \in Storage
      BY <1>1, <2>3 DEF Storage
    <3> QED BY <1>1, <2>2, <2>3, <2>4, <3>1 DEF RowsOK, ChunksInv, history
  <2>6. FtsInv'
    <3>1. \A q \in Ingesters : ing'[q].pc = "fts" => q = p \/ ing[q].pc = "fts"
      BY <2>3
    <3>2. \A q \in Ingesters : ing[q].pc = "fts" => NextId(q) # id /\ ing'[q].pc = "fts"
      BY <1>1, <1>3, <2>3 DEF RowsOK, FtsInv
    <3>3. id \notin DOMAIN fts
      BY <1>3 DEF RowsOK, FtsInv
    <3>4. \A q \in Ingesters : ing'[q].pc = "fts" =>
             /\ NextId(q)' \in DOMAIN chunks' \ DOMAIN fts'
             /\ \A o \in Ingesters : o # q /\ ing'[o].pc = "fts" => NextId(o)' # NextId(q)'
      BY <1>1, <2>2, <2>3, <3>1, <3>2, <3>3 DEF RowsOK, FtsInv
    <3>5. \A c \in DOMAIN chunks' \ DOMAIN fts' :
             c \in orphans' \/ \E q \in Ingesters : Between(q, c)'
      BY <1>1, <2>2, <2>3, <3>2 DEF RowsOK, FtsInv, Between, history
    <3> QED BY <1>1, <2>2, <3>4, <3>5 DEF RowsOK, FtsInv
  <2> QED BY <2>5, <2>6 DEF RowsOK
<1> QED BY <1>2, <1>3

LEMMA FtsRows ==
  ASSUME TypeOK, RowsOK, NEW p \in Ingesters, InsertFts(p)
  PROVE  RowsOK'
<1> DEFINE id == NextId(p)
<1>1. /\ ing[p].pc = "fts" /\ ing[p].text # <<>>
      /\ ing' = [ing EXCEPT ![p].text = Tail(@), ![p].pc = "chunk"]
      /\ UNCHANGED <<snapshots, chunks, history>>
  BY DEF InsertFts, TypeOK, IngOK
<1>2. id \in DOMAIN chunks \ DOMAIN fts
  BY <1>1 DEF RowsOK, FtsInv
<1>3. fts' = [c \in DOMAIN fts \cup {id} |->
                (IF c \in DOMAIN fts THEN fts[c] ELSE 0) + (IF c = id THEN 1 ELSE 0)]
  BY DEF InsertFts, NextId
<1>4. DOMAIN fts' = DOMAIN fts \cup {id} /\ \A c \in DOMAIN fts' : fts'[c] = 1
  BY <1>2, <1>3 DEF RowsOK, FtsInv
<1>5. ChunksInv'
  BY <1>1, <1>2, TailChunks DEF Storage
<1>6. /\ \A q \in Ingesters : ing'[q].pc = "fts" <=> q # p /\ ing[q].pc = "fts"
      /\ \A q \in Ingesters : Key(q)' = Key(q) /\ (q # p => NextId(q)' = NextId(q))
  BY <1>1, TailKeeps DEF Storage
<1>7. \A q \in Ingesters : q # p /\ ing[q].pc = "fts" => NextId(q) # id
  BY <1>1 DEF RowsOK, FtsInv
<1>8. \A q \in Ingesters : ing'[q].pc = "fts" =>
         /\ NextId(q)' \in DOMAIN chunks' \ DOMAIN fts'
         /\ \A o \in Ingesters : o # q /\ ing'[o].pc = "fts" => NextId(o)' # NextId(q)'
  <2>1. SUFFICES ASSUME NEW q \in Ingesters, q # p, ing[q].pc = "fts"
                 PROVE  /\ NextId(q) \in DOMAIN chunks \ DOMAIN fts'
                        /\ \A o \in Ingesters : o # q /\ o # p /\ ing[o].pc = "fts" => NextId(o) # NextId(q)
    BY <1>1, <1>6
  <2> QED BY <1>4, <1>7, <2>1 DEF RowsOK, FtsInv
<1>9. \A c \in DOMAIN chunks' \ DOMAIN fts' :
         c \in orphans' \/ \E q \in Ingesters : Between(q, c)'
  BY <1>1, <1>4, <1>6 DEF RowsOK, FtsInv, Between, history
<1>10. FtsInv'
  BY <1>1, <1>2, <1>4, <1>8, <1>9 DEF RowsOK, FtsInv
<1> QED BY <1>5, <1>10 DEF RowsOK

LEMMA EndRows ==
  ASSUME TypeOK, RowsOK, NEW p \in Ingesters, EndDocument(p) \/ LoseIngester(p), ing[p].pc \in Storage
  PROVE  RowsOK'
<1>1. /\ UNCHANGED <<snapshots, chunks, fts>>
      /\ LoseIngester(p) => UNCHANGED stored
      /\ LoseIngester(p) => orphans' = IF ing[p].pc = "fts" THEN orphans \cup {NextId(p)} ELSE orphans
      /\ EndDocument(p) => /\ ing[p].pc = "chunk" /\ ing[p].text = <<>> /\ UNCHANGED orphans
                           /\ stored' = stored \cup {<<ing[p].source, ing[p].raw, ing[p].version>>}
  BY DEF EndDocument, LoseIngester, tables
<1>2. PICK r : ing' = [ing EXCEPT ![p] = r] /\ r.pc \notin Storage
  <2> DEFINE next == Reading(ing[p].source, Tail(ing[p].paths))
  <2>1. ing' = [ing EXCEPT ![p] = Away] \/ ing' = [ing EXCEPT ![p] = next]
    BY DEF EndDocument, LoseIngester, Proceed, Quit
  <2>2. Away.pc \notin Storage /\ next.pc \notin Storage
    BY DEF Away, Reading, Storage
  <2> HIDE DEF next
  <2> QED BY <2>1, <2>2
<1>3. ing'[p] = r /\ \A q \in Ingesters : q # p => ing'[q] = ing[q]
  BY <1>2 DEF TypeOK, IngOK
<1>4. /\ \A q \in Ingesters : ing'[q].pc \in Storage <=> q # p /\ ing[q].pc \in Storage
      /\ \A q \in Ingesters : ing'[q].pc = "fts" <=> q # p /\ ing[q].pc = "fts"
      /\ \A q \in Ingesters : q # p => Key(q)' = Key(q) /\ NextId(q)' = NextId(q) /\ Remaining(q)' = Remaining(q)
      /\ \A q \in Ingesters : q # p => OwnIds(q)' = OwnIds(q)
  BY <1>1, <1>2, <1>3 DEF Storage, Key, NextId, Remaining, OwnIds, Ids
<1>5. \A d : Ids(d[1], d[2], d[3])' = Ids(d[1], d[2], d[3])
  BY <1>1 DEF Ids
<1>6. EndDocument(p) => Remaining(p) = {}
  BY <1>1 DEF Remaining, ChunkIds, ToSet
<1>7. ChunksInv'
  <2>1. \A q \in Ingesters : ing'[q].pc \in Storage =>
           Key(q)' \in DOMAIN snapshots' /\ OwnIds(q)' \subseteq DOMAIN chunks' \cup Remaining(q)'
    BY <1>1, <1>4 DEF RowsOK, ChunksInv
  <2>2. ASSUME NEW d \in stored'
        PROVE  <<d[1], d[2]>> \in DOMAIN snapshots' /\ Ids(d[1], d[2], d[3])' \subseteq DOMAIN chunks'
    <3>1. CASE d \in stored
      BY <1>1, <1>5, <3>1 DEF RowsOK, ChunksInv
    <3>2. CASE d \notin stored
      <4>1. EndDocument(p) /\ d = <<ing[p].source, ing[p].raw, ing[p].version>>
        BY <1>1, <2>2, <3>2
      <4>2. <<ing[p].source, ing[p].raw>> \in DOMAIN snapshots /\ OwnIds(p) \subseteq DOMAIN chunks
        BY <1>6, <4>1 DEF RowsOK, ChunksInv, Key
      <4> QED BY <1>1, <1>5, <4>1, <4>2 DEF OwnIds
    <3> QED BY <3>1, <3>2
  <2> QED BY <2>1, <2>2 DEF ChunksInv
<1>8. FtsInv'
  <2>1. \A q \in Ingesters : ing'[q].pc = "fts" =>
           /\ NextId(q)' \in DOMAIN chunks' \ DOMAIN fts'
           /\ \A o \in Ingesters : o # q /\ ing'[o].pc = "fts" => NextId(o)' # NextId(q)'
    <3>1. SUFFICES ASSUME NEW q \in Ingesters, q # p, ing[q].pc = "fts"
                   PROVE  /\ NextId(q) \in DOMAIN chunks \ DOMAIN fts
                            /\ \A o \in Ingesters : o # q /\ o # p /\ ing[o].pc = "fts" => NextId(o) # NextId(q)
      BY <1>1, <1>4
    <3> QED BY <3>1 DEF RowsOK, FtsInv
  <2>2. ASSUME NEW c \in DOMAIN chunks \ DOMAIN fts, c \notin orphans'
        PROVE  \E q \in Ingesters : Between(q, c)'
    <3>1. PICK q \in Ingesters : ing[q].pc = "fts" /\ NextId(q) = c
      BY <1>1, <2>2 DEF RowsOK, FtsInv, Between
    <3>2. q # p
      BY <1>1, <2>2, <3>1
    <3> QED BY <1>4, <3>1, <3>2 DEF Between
  <2> QED BY <1>1, <2>1, <2>2 DEF RowsOK, FtsInv
<1> QED BY <1>7, <1>8 DEF RowsOK

LEMMA RowsStep == TypeOK /\ FilesOK /\ RowsOK /\ [Next]_vars => RowsOK'
<1> SUFFICES ASSUME TypeOK, FilesOK, RowsOK, [Next]_vars
             PROVE  RowsOK'
  OBVIOUS
<1> DEFINE Same == UNCHANGED <<snapshots, chunks, fts, history>>
<1>0. Whole \cap Storage = {} /\ "read" \notin Storage
  BY DEF Whole, Storage
<1>1. ASSUME NEW p \in Ingesters, NEW s \in Sources, Open(p, s) PROVE RowsOK'
  <2> DEFINE r == Reading(s, IF s = "git" THEN GitPaths ELSE <<"">>)
  <2>1. ing' = [ing EXCEPT ![p] = r] /\ Same /\ ing[p] = Away
    BY <1>1 DEF Open, tables
  <2>2. ing[p].pc \notin Storage
    BY <2>1, AtRest DEF Storage
  <2>3. r.pc \notin Storage
    BY DEF Reading, Storage
  <2> HIDE DEF r
  <2> QED BY <2>1, <2>2, <2>3, RowsAside
<1>2. ASSUME NEW p \in Ingesters, Read(p) PROVE RowsOK'
  <2>1. PICK r : ing' = [ing EXCEPT ![p] = r] /\ r.pc \in {"hash", "find"}
    BY <1>2, ReadGets
  <2>2. Same /\ ing[p].pc \notin Storage /\ r.pc \notin Storage
    BY <1>2, <2>1 DEF Read, tables, Storage
  <2> QED BY <2>1, <2>2, RowsAside
<1>3. ASSUME NEW p \in Ingesters, ReadFails(p) PROVE RowsOK'
  BY <1>0, <1>3, QuitRows DEF ReadFails, tables
<1>4. ASSUME NEW p \in Ingesters, HashBlob(p) PROVE RowsOK'
  <2> DEFINE r == [ing[p] EXCEPT !.version = page["markdown"], !.pc = "find"]
  <2>1. ing' = [ing EXCEPT ![p] = r] /\ r.pc = "find" /\ Same /\ ing[p].pc = "hash"
    BY <1>4, HolderHolds DEF HashBlob, TypeOK, IngOK, Holders, Whole, tables
  <2> QED BY <2>1, RowsAside DEF Storage
<1>5. ASSUME NEW p \in Ingesters, Find(p) PROVE RowsOK'
  <2>1. Same /\ ing[p].pc \in Whole /\ ing[p].pc \notin Storage /\ "raw" \in Whole
    BY <1>5 DEF Find, tables, Whole, Storage
  <2>2. CASE Goto(p, "raw")
    BY <2>1, <2>2, GotoRows
  <2>3. CASE Quit(p)
    BY <2>1, <2>3, QuitRows
  <2>4. CASE ing' = [ing EXCEPT ![p] = Reading(ing[p].source, Tail(ing[p].paths))]
    BY <2>1, <2>4, RowsAside DEF Reading, Storage
  <2> QED BY <1>5, <2>2, <2>3, <2>4 DEF Find, Proceed
<1>6. ASSUME NEW p \in Ingesters, NEW kind \in {"raw", "md"},
             Compare(p, kind) \/ Create(p, kind) \/ Fill(p, kind)
      PROVE  RowsOK'
  <2>1. {kind, Opening(kind), Filling(kind), After(kind)} \subseteq Whole
    BY DEF Whole, Opening, Filling, After
  <2>2. Same /\ ing[p].pc \in Whole
    BY <1>6, <2>1 DEF Compare, Create, Fill, tables
  <2>3. Quit(p) \/ Goto(p, Opening(kind)) \/ Goto(p, Filling(kind)) \/ Goto(p, After(kind))
    BY <1>6 DEF Compare, Create, Fill
  <2> QED BY <1>0, <2>1, <2>2, <2>3, QuitRows, GotoRows
<1>7. ASSUME NEW p \in Ingesters, LoseIngester(p), ing[p].pc \notin Storage PROVE RowsOK'
  <2>1. Quit(p) /\ UNCHANGED <<snapshots, chunks, fts, history>>
    BY <1>7 DEF LoseIngester, tables, history, Storage
  <2> QED BY <1>7, <2>1, QuitRows
<1>8. ASSUME NEW p \in Ingesters, EndDocument(p) PROVE ing[p].pc \in Storage
  BY <1>8 DEF EndDocument, Storage
<1>9. CASE UNCHANGED <<snapshots, chunks, fts, history, ing>>
  BY <1>9 DEF RowsOK, ChunksInv, FtsInv, Key, NextId, Remaining, OwnIds, Ids, Between, history
<1>10. (\E q \in Indexers : IndexStep(q) \/ LoseIndexer(q)) \/ Edit \/ UNCHANGED vars
          => UNCHANGED <<snapshots, chunks, fts, history, ing>>
  BY DEF IndexStep, ListChunks, Embed, SetIndex, LoseIndexer, Edit, vars, tables
<1> QED BY <1>1, <1>2, <1>3, <1>4, <1>5, <1>6, <1>7, <1>8, <1>9, <1>10,
           SnapshotRows, ChunkRows, FtsRows, EndRows DEF Next, Ingest

-----------------------------------------------------------------------------
(* The theorems.                                                           *)

LEMMA InitInv == Init => Inv
<1> SUFFICES ASSUME Init
             PROVE  Inv
  OBVIOUS
<1>1. /\ \A p \in Ingesters : ing[p].pc = "away"
      /\ DOMAIN snapshots = {} /\ DOMAIN chunks = {} /\ DOMAIN fts = {} /\ stored = {}
  BY DEF Init, Away, Empty
<1>2. FilesOK
  BY <1>1 DEF FilesOK, FilesInv, SnapshotsIntact, Filling
<1>3. RowsOK
  BY <1>1 DEF RowsOK, ChunksInv, FtsInv, Storage
<1> QED BY <1>2, <1>3, InitTypes DEF Inv, FilesOK, RowsOK

\* Types, files and rows are as the ingesters take them to be, for any number
\* of ingesters, any sources and documents, edits and lost processes.
THEOREM KnowledgeCorrect == Spec => []Inv
<1>1. Inv /\ [Next]_vars => Inv'
  BY TypeStep, FilesStep, RowsStep DEF Inv, FilesOK, RowsOK
<1> QED BY InitInv, <1>1, PTL DEF Spec

\* The files of a snapshot are whole and hold what its row was made from:
\* _write_immutable refuses to overwrite and comes before insert_snapshot.
THEOREM SnapshotsStayIntact == Spec => []SnapshotsIntact
<1>1. Inv => SnapshotsIntact
  BY DEF Inv
<1> QED BY <1>1, KnowledgeCorrect, PTL

\* An ingestion that ends leaves a chunk of each of its passages, and every chunk
\* is searchable exactly once, but for those between their two statements and
\* those whose ingester was lost there (insert_chunks).
THEOREM PassagesAreFound == Spec => []PassagesFound
<1>1. Inv => PassagesFound
  BY DEF Inv, ChunksInv, FtsInv, Ids, PassagesFound
<1> QED BY <1>1, KnowledgeCorrect, PTL

\* The model index_state names has a vector for every chunk its indexing
\* listed, for any number of indexers and revisions: store_embeddings has
\* committed them all when set_index_state is called.
THEOREM IndexIsComplete == Spec => []IndexCovers
<1> DEFINE IInv == IndexInv /\ IndexCovers
<1>1. Init => IInv
  BY DEF Init, IndexInv, IndexCovers, Away
<1>2. IInv /\ [Next]_vars => IInv'
  <2> SUFFICES ASSUME IInv, [Next]_vars
               PROVE  IInv'
    OBVIOUS
  <2>1. CASE UNCHANGED <<vectors, index, idx>>
    BY <2>1 DEF IndexInv, IndexCovers
  <2>2. (\E p \in Ingesters : Ingest(p) \/ LoseIngester(p)) \/ Edit \/ UNCHANGED vars
           => UNCHANGED <<vectors, index, idx>>
    BY DEF Ingest, Open, Read, ReadFails, HashBlob, Find, Compare, Create, Fill, InsertSnapshot,
           InsertChunk, InsertFts, EndDocument, LoseIngester, Edit, vars
  <2>3. ASSUME NEW q \in Indexers, LoseIndexer(q) PROVE IInv'
    BY <2>3 DEF LoseIndexer, IndexInv, IndexCovers, Away
  <2>4. ASSUME NEW q \in Indexers, NEW rev \in Revisions, ListChunks(q, rev) PROVE IInv'
    BY <2>4 DEF ListChunks, IndexInv, IndexCovers
  <2>5. ASSUME NEW q \in Indexers, Embed(q) PROVE IInv'
    BY <2>5 DEF Embed, IndexInv, IndexCovers
  <2>6. ASSUME NEW q \in Indexers, SetIndex(q) PROVE IInv'
    BY <2>6 DEF SetIndex, IndexInv, IndexCovers, Away
  <2> QED BY <2>1, <2>2, <2>3, <2>4, <2>5, <2>6 DEF Next, IndexStep
<1>3. IInv => IndexCovers
  OBVIOUS
<1> QED BY <1>1, <1>2, <1>3, PTL DEF Spec

-----------------------------------------------------------------------------
(* Chunking: what parse_blocks finds.                                      *)

BlockKinds == {"code", "heading", "table", "list", "blockquote", "paragraph"}
Blocks == [kind : BlockKinds, first : Nat, last : Nat]
Pieces == [kind : BlockKinds, from : Nat, to : Nat, tokens : Nat]

ParseTypes ==
    /\ stage \in {"reading", "parsing", "chunking", "chunked"}
    /\ lines \in Seq(Kinds) /\ at \in Nat \ {0} /\ at <= Len(lines) + 1
    /\ word \in Nat \ {0} /\ word <= at
    /\ blocks \in Seq(Blocks) /\ pieces \in Seq(Pieces)
    /\ taken \in Nat

LEMMA MinIsLeast ==
    ASSUME NEW S \in SUBSET Nat, S # {}
    PROVE  Min(S) \in S /\ \A y \in S : Min(S) <= y
<1>1. PICK x \in S : \A y \in S : <<y, x>> \notin OpToRel(<, Nat)
  BY NatLessThanWellFounded, WFMin
<1>2. \A y \in S : ~(y < x)
  BY <1>1, Zenon DEF OpToRel
<1>3. \A y \in S : x <= y
  BY <1>2
<1> QED BY <1>3 DEF Min

\* UpTo is the line before a stop, and no stop stands between.
LEMMA UpToStops ==
    ASSUME lines \in Seq(Kinds), NEW i \in 1..Len(lines), NEW stops \in SUBSET (1..Len(lines))
    PROVE  /\ UpTo(i, stops) \in i..Len(lines)
           /\ \A j \in i + 1..UpTo(i, stops) : j \notin stops
<1> DEFINE S == {j \in stops : j > i} \cup {Len(lines) + 1}
<1>1. Len(lines) \in Nat /\ i \in Nat
  OBVIOUS
<1>2. \A j \in S : j \in Nat /\ j > i /\ j <= Len(lines) + 1
  <2>1. \A j \in stops : j \in 1..Len(lines)
    OBVIOUS
  <2> QED BY <1>1, <2>1
<1>3. Min(S) \in S /\ \A j \in S : Min(S) <= j
  <2>1. S \in SUBSET Nat
    BY <1>2
  <2>2. S # {}
    OBVIOUS
  <2> QED BY <2>1, <2>2, MinIsLeast
<1>4. UpTo(i, stops) = Min(S) - 1
  BY DEF UpTo
<1>5. \A j \in stops : j > i => j \in S
  OBVIOUS
<1> HIDE DEF S
<1>6. UpTo(i, stops) \in i..Len(lines)
  BY <1>1, <1>2, <1>3, <1>4
<1>7. ASSUME NEW j \in i + 1..UpTo(i, stops) PROVE j \notin stops
  BY <1>1, <1>2, <1>3, <1>4, <1>5
<1> QED BY <1>6, <1>7

LEMMA BlockKindIs ==
    ASSUME lines \in Seq(Kinds), NEW i \in 1..Len(lines)
    PROVE  /\ BlockKind(i) \in BlockKinds
           /\ BlockKind(i) = "code" <=> Fence(lines[i])
           /\ BlockKind(i) = "table" => HasBar(lines[i])
           /\ BlockKind(i) = "list" => lines[i] = "item"
  BY DEF BlockKind, BlockKinds, Fence, Fenced, Heading, HasBar, TableAt

\* A list goes on with blank lines, items and indented lines.
LEMMA ListLines ==
    ASSUME lines \in Seq(Kinds), NEW j \in 1..Len(lines), j \notin LeavesList
    PROVE  Blank(lines[j]) \/ ListLine(lines[j])
<1> DEFINE filled == {k \in j..Len(lines) : ~Blank(lines[k])}
<1>1. filled # {} /\ ListLine(lines[Min(filled)])
  BY DEF LeavesList
<1>2. filled \in SUBSET Nat
  OBVIOUS
<1>3. Min(filled) \in filled /\ \A k \in filled : Min(filled) <= k
  BY <1>1, <1>2, MinIsLeast
<1>4. CASE j \in filled
  <2>1. Min(filled) = j
    BY <1>3, <1>4
  <2> QED BY <1>1, <2>1
<1>5. CASE j \notin filled
  BY <1>5
<1> QED BY <1>4, <1>5

\* A block ends in the document; code goes to the first fence that closes it or
\* the end of the document, and no other block has a fence, but for one that is
\* indented in a list.
LEMMA BlockEnds ==
    ASSUME lines \in Seq(Kinds), NEW i \in 1..Len(lines)
    PROVE  /\ BlockEnd(i) \in i..Len(lines)
           /\ BlockKind(i) = "code" =>
                /\ \A j \in i + 1..BlockEnd(i) - 1 : ~Closes(lines[j], lines[i])
                /\ BlockEnd(i) = Len(lines) \/ BlockEnd(i) \in Closing(i)
           /\ BlockKind(i) # "code" =>
                \A j \in i..BlockEnd(i) :
                   Fence(lines[j]) => BlockKind(i) = "list" /\ lines[j] = "ifence"
<1>0. BlockKind(i) \in BlockKinds
  BY BlockKindIs
<1>1. CASE BlockKind(i) = "code"
  <2> DEFINE S == Closing(i) \cup {Len(lines)}
  <2>1. S \in SUBSET Nat /\ S # {}
    BY DEF Closing
  <2>2. Min(S) \in S /\ \A j \in S : Min(S) <= j
    BY <2>1, MinIsLeast
  <2>3. BlockEnd(i) = Min(S)
    BY <1>1 DEF BlockEnd
  <2>4. BlockEnd(i) \in i..Len(lines)
    BY <2>2, <2>3 DEF Closing
  <2>5. ASSUME NEW j \in i + 1..BlockEnd(i) - 1 PROVE ~Closes(lines[j], lines[i])
    <3>1. j \in 1..Len(lines) /\ j > i /\ j < BlockEnd(i)
      BY <2>4
    <3>2. j \notin Closing(i)
      <4>1. \A k \in Closing(i) : BlockEnd(i) <= k
        BY <2>2, <2>3
      <4>2. BlockEnd(i) \in Nat /\ j \in Nat
        BY <2>4, <3>1
      <4> QED BY <3>1, <4>1, <4>2
    <3> QED BY <3>1, <3>2 DEF Closing
  <2>6. BlockEnd(i) = Len(lines) \/ BlockEnd(i) \in Closing(i)
    BY <2>2, <2>3
  <2> QED BY <1>1, <2>4, <2>5, <2>6
<1>2. CASE BlockKind(i) = "heading"
  <2>1. BlockEnd(i) = i /\ ~Fence(lines[i])
    BY <1>2, BlockKindIs DEF BlockEnd
  <2> QED BY <1>2, <2>1
<1>3. ASSUME NEW stops \in SUBSET (1..Len(lines)), BlockEnd(i) = UpTo(i, stops),
             BlockKind(i) # "code",
             \A j \in i + 1..Len(lines) :
                j \notin stops /\ Fence(lines[j]) => BlockKind(i) = "list" /\ lines[j] = "ifence"
      PROVE  /\ BlockEnd(i) \in i..Len(lines)
             /\ \A j \in i..BlockEnd(i) :
                   Fence(lines[j]) => BlockKind(i) = "list" /\ lines[j] = "ifence"
  <2>1. BlockEnd(i) \in i..Len(lines) /\ \A j \in i + 1..BlockEnd(i) : j \notin stops
    BY <1>3, UpToStops
  <2>2. ~Fence(lines[i])
    BY <1>3, BlockKindIs
  <2> QED BY <1>3, <2>1, <2>2
<1>4. CASE BlockKind(i) = "table"
  <2>1. BlockEnd(i) = UpTo(i, LeavesTable) /\ LeavesTable \in SUBSET (1..Len(lines))
    BY <1>4 DEF BlockEnd, LeavesTable
  <2>2. \A j \in i + 1..Len(lines) : j \notin LeavesTable => ~Fence(lines[j])
    BY DEF LeavesTable, HasBar, Fence, Fenced
  <2> QED BY <1>3, <1>4, <2>1, <2>2
<1>5. CASE BlockKind(i) = "list"
  <2>1. BlockEnd(i) = UpTo(i, LeavesList) /\ LeavesList \in SUBSET (1..Len(lines))
    BY <1>5, Zenon DEF BlockEnd, LeavesList
  <2>2. ASSUME NEW j \in i + 1..Len(lines), j \notin LeavesList, Fence(lines[j])
        PROVE  lines[j] = "ifence"
    <3>1. Blank(lines[j]) \/ ListLine(lines[j])
      BY <2>2, ListLines
    <3> QED BY <2>2, <3>1 DEF Blank, ListLine, Fence, Fenced
  <2> QED BY <1>3, <1>5, <2>1, <2>2
<1>6. CASE BlockKind(i) = "blockquote"
  <2>1. BlockEnd(i) = UpTo(i, LeavesQuote) /\ LeavesQuote \in SUBSET (1..Len(lines))
    BY <1>6 DEF BlockEnd, LeavesQuote
  <2>2. \A j \in i + 1..Len(lines) : j \notin LeavesQuote => ~Fence(lines[j])
    BY DEF LeavesQuote, Fence, Fenced
  <2> QED BY <1>3, <1>6, <2>1, <2>2
<1>7. CASE BlockKind(i) = "paragraph"
  <2>1. BlockEnd(i) = UpTo(i, LeavesParagraph) /\ LeavesParagraph \in SUBSET (1..Len(lines))
    BY <1>7 DEF BlockEnd, LeavesParagraph
  <2>2. \A j \in i + 1..Len(lines) : j \notin LeavesParagraph => ~Fence(lines[j])
    BY DEF LeavesParagraph
  <2> QED BY <1>3, <1>7, <2>1, <2>2
<1> QED BY <1>0, <1>1, <1>2, <1>4, <1>5, <1>6, <1>7 DEF BlockKinds

-----------------------------------------------------------------------------
(* The blocks and pieces found so far.                                     *)

BlocksInv ==
    /\ \A n \in DOMAIN blocks : blocks[n].first \in 1..blocks[n].last /\ blocks[n].last < at
    /\ \A m, n \in DOMAIN blocks : m < n => blocks[m].last < blocks[n].first
    /\ \A i \in 1..Len(lines) :
          i < at /\ ~Blank(lines[i]) => \E n \in DOMAIN blocks : i \in Span(blocks[n])

\* Code is closed by its own fence, and the other blocks have none.
FencesRight(b) ==
    /\ b.kind = "code" =>
         /\ \A j \in b.first + 1..b.last - 1 : ~Closes(lines[j], lines[b.first])
         /\ b.last = Len(lines) \/ b.last \in Closing(b.first)
    /\ \A j \in Span(b) : Fence(lines[j]) =>
         b.kind = "code" \/ (b.kind = "list" /\ lines[j] = "ifence")

FencesInv == \A n \in DOMAIN blocks : FencesRight(blocks[n])

\* A piece holds lines of a block of its kind, all of them if it is atomic.
PartOf(p, b) ==
    /\ p.kind = b.kind /\ b.first <= p.from /\ p.to <= b.last
    /\ p.kind \in Atomic => p.from = b.first /\ p.to = b.last

SmallEnough(p) ==
    p.kind \in Atomic \/ p.tokens <= Target \/ (p.from = p.to /\ lines[p.from] = "long")

\* The block whose next piece begins at word.
Opens(b) ==
    /\ b.first <= word /\ at = b.last + 1 /\ b.last <= Len(lines)
    /\ b.kind \in Atomic => word = b.first

\* Every line before word is in a piece.
Covered ==
    \A n \in DOMAIN blocks : \A i \in Span(blocks[n]) :
       i < word => \E m \in DOMAIN pieces : pieces[m].kind = blocks[n].kind /\ i \in Held(pieces[m])

\* The lines from word on are in none.
PiecesInv ==
    /\ word < at => blocks # <<>> /\ Opens(blocks[Len(blocks)])
    /\ Covered
    /\ \A m \in DOMAIN pieces :
          /\ pieces[m].from <= pieces[m].to /\ pieces[m].to < word
          /\ \E n \in DOMAIN blocks : PartOf(pieces[m], blocks[n])
          /\ SmallEnough(pieces[m])
    /\ \A n, m \in DOMAIN pieces : n < m => pieces[n].to < pieces[m].from

LEMMA TokensAre ==
    ASSUME lines \in Seq(Kinds), NEW i \in Nat, NEW j \in Nat
    PROVE  /\ Tokens(i, j) \in Nat
           /\ \A h \in Nat : h <= i => Tokens(i, j) <= Tokens(h, j)
           /\ i <= j /\ (\A k \in i..j : lines[k] # "long") => Tokens(i, j) <= j - i + 1
<1> DEFINE filled(h) == {k \in h..j : ~Blank(lines[k])}
           long(h) == {k \in h..j : lines[k] = "long"}
<1>1. LongWord - 1 \in Nat
  BY SizesAssumption
<1>2. ASSUME NEW h \in Nat
      PROVE  /\ IsFiniteSet(filled(h)) /\ Cardinality(filled(h)) \in Nat
             /\ IsFiniteSet(long(h)) /\ Cardinality(long(h)) \in Nat
             /\ h <= j => Cardinality(filled(h)) <= j - h + 1
  <2>1. IsFiniteSet(h..j) /\ (h <= j => Cardinality(h..j) = j - h + 1)
    BY FS_Interval
  <2> QED BY <2>1, FS_Subset, FS_CardinalityType
<1>3. \A h : Tokens(h, j) = Cardinality(filled(h)) + (LongWord - 1) * Cardinality(long(h))
  BY DEF Tokens
<1>4. ASSUME NEW h \in Nat, h <= i
      PROVE  /\ Cardinality(filled(i)) <= Cardinality(filled(h))
             /\ Cardinality(long(i)) <= Cardinality(long(h))
  <2>1. filled(i) \subseteq filled(h) /\ long(i) \subseteq long(h)
    BY <1>4
  <2> HIDE DEF filled, long
  <2> QED BY <1>2, <2>1, FS_Subset
<1>5. ASSUME \A k \in i..j : lines[k] # "long" PROVE Cardinality(long(i)) = 0
  BY <1>5, FS_EmptySet
<1> HIDE DEF filled, long
<1>6. \A a, b, l \in Nat : l * a \in Nat /\ (a <= b => l * a <= l * b)
  OBVIOUS
<1>7. Tokens(i, j) \in Nat
  <2>1. (LongWord - 1) * Cardinality(long(i)) \in Nat
    BY <1>1, <1>2, <1>6
  <2>2. ASSUME NEW a \in Nat, NEW b \in Nat PROVE a + b \in Nat
    OBVIOUS
  <2>3. Cardinality(filled(i)) \in Nat
    BY <1>2
  <2> QED BY <1>3, <2>1, <2>2, <2>3
<1>8. ASSUME NEW h \in Nat, h <= i PROVE Tokens(i, j) <= Tokens(h, j)
  <2>1. (LongWord - 1) * Cardinality(long(i)) <= (LongWord - 1) * Cardinality(long(h))
    BY <1>1, <1>2, <1>4, <1>6, <1>8
  <2>2. /\ (LongWord - 1) * Cardinality(long(i)) \in Nat
        /\ (LongWord - 1) * Cardinality(long(h)) \in Nat
    BY <1>1, <1>2, <1>6
  <2>3. ASSUME NEW a \in Nat, NEW b \in Nat, NEW c \in Nat, NEW d \in Nat, a <= b, c <= d
        PROVE  a + c <= b + d
    BY <2>3
  <2>4. Cardinality(filled(i)) \in Nat /\ Cardinality(filled(h)) \in Nat
    BY <1>2
  <2> QED BY <1>3, <1>4, <1>8, <2>1, <2>2, <2>3, <2>4
<1>9. ASSUME i <= j, \A k \in i..j : lines[k] # "long" PROVE Tokens(i, j) <= j - i + 1
  <2>1. (LongWord - 1) * 0 = 0
    BY <1>1
  <2> QED BY <1>2, <1>3, <1>5, <1>9, <2>1
<1> QED BY <1>7, <1>8, <1>9

\* The piece of a block that begins at one of its lines.
LEMMA PieceIs ==
    ASSUME lines \in Seq(Kinds), NEW b \in Blocks, NEW i \in Nat,
           b.first <= i, i <= b.last, b.last <= Len(lines), b.kind \in Atomic => i = b.first
    PROVE  /\ Piece(b, i) \in Pieces
           /\ Piece(b, i).from = i /\ Piece(b, i).to = PieceEnd(b, i)
           /\ PieceEnd(b, i) \in i..b.last
           /\ PartOf(Piece(b, i), b) /\ SmallEnough(Piece(b, i))
           /\ b.kind \in Atomic => PieceEnd(b, i) = b.last
<1> DEFINE e == PieceEnd(b, i)
           p == Piece(b, i)
<1>0. b.first \in Nat /\ b.last \in Nat /\ b.kind \in BlockKinds /\ Target \in Nat \ {0}
  BY SizesAssumption DEF Blocks
<1>1. /\ e \in i..b.last
      /\ b.kind \in Atomic => e = b.last
      /\ b.kind \in Atomic \/ Tokens(i, e) <= Target \/ (i = e /\ lines[i] = "long")
  <2>1. CASE b.kind \in Atomic \/ Tokens(b.first, b.last) <= Target
    <3>1. e = b.last
      BY <2>1 DEF PieceEnd
    <3>2. Tokens(i, b.last) <= Tokens(b.first, b.last)
      BY <1>0, TokensAre
    <3>3. Tokens(i, b.last) \in Nat /\ Tokens(b.first, b.last) \in Nat
      BY <1>0, TokensAre
    <3> HIDE DEF e
    <3> QED BY <1>0, <2>1, <3>1, <3>2, <3>3
  <2>2. CASE ~(b.kind \in Atomic \/ Tokens(b.first, b.last) <= Target)
    <3> DEFINE S == {j \in i..b.last : \/ j = b.last \/ j - i + 1 = Target
                                      \/ lines[j] = "long" \/ lines[j + 1] = "long"}
    <3>1. e = Min(S)
      BY <2>2 DEF PieceEnd, Filled
    <3> HIDE DEF e
    <3>2. S \in SUBSET Nat /\ b.last \in S
      BY <1>0
    <3>3. e \in S /\ \A j \in S : e <= j
      <4> HIDE DEF S
      <4> QED BY <3>1, <3>2, MinIsLeast
    <3>4. e \in i..b.last /\ e \in Nat
      BY <1>0, <3>3
    <3>5. \A j \in i..e - 1 : lines[j] # "long" /\ lines[j + 1] # "long"
      BY <1>0, <3>3, <3>4
    <3>6. \A j \in i + 1..e : lines[j] # "long"
      <4>1. ASSUME NEW j \in i + 1..e PROVE lines[j] # "long"
        <5>1. j - 1 \in i..e - 1 /\ (j - 1) + 1 = j
          BY <3>4
        <5> QED BY <3>5, <5>1
      <4> QED BY <4>1
    <3>7. e - i + 1 <= Target
      <4>1. CASE i + Target - 1 <= b.last
        <5>1. i + Target - 1 \in i..b.last /\ (i + Target - 1) - i + 1 = Target
          BY <1>0, <4>1
        <5>2. i + Target - 1 \in S
          BY <5>1
        <5>3. e <= i + Target - 1
          BY <3>3, <5>2
        <5> QED BY <1>0, <3>4, <5>3
      <4>2. CASE b.last < i + Target - 1
        BY <1>0, <3>4, <4>2
      <4> QED BY <1>0, <4>1, <4>2
    <3> HIDE DEF S
    <3>8. CASE lines[i] = "long"
      <4>1. i = e
        BY <3>4, <3>5, <3>8
      <4> QED BY <2>2, <3>4, <3>8, <4>1
    <3>9. CASE lines[i] # "long"
      <4>1. \A j \in i..e : lines[j] # "long"
        BY <3>4, <3>6, <3>9
      <4>2. Tokens(i, e) <= e - i + 1 /\ Tokens(i, e) \in Nat
        <5>1. i <= e
          BY <3>4
        <5> QED BY <3>4, <4>1, <5>1, TokensAre
      <4> QED BY <1>0, <2>2, <3>4, <3>7, <4>2
    <3> QED BY <3>8, <3>9
  <2> QED BY <2>1, <2>2
<1> HIDE DEF e
<1>2. p = [kind |-> b.kind, from |-> i, to |-> e, tokens |-> Tokens(i, e)]
  BY DEF Piece, e
<1>3. e \in Nat /\ Tokens(i, e) \in Nat
  <2>1. e \in Nat
    BY <1>0, <1>1
  <2> QED BY <2>1, TokensAre
<1>4. p \in Pieces
  BY <1>0, <1>2, <1>3 DEF Pieces
<1>5. p.kind = b.kind /\ p.from = i /\ p.to = e /\ p.tokens = Tokens(i, e)
  BY <1>2
<1> HIDE DEF p
<1> QED BY <1>0, <1>1, <1>4, <1>5 DEF PartOf, SmallEnough, p, e

ParseInv == ParseTypes /\ BlocksInv /\ FencesInv /\ PiecesInv

LEMMA FoundTypes ==
    ASSUME ParseInv
    PROVE  /\ \A n \in DOMAIN blocks : blocks[n].first \in Nat /\ blocks[n].last \in Nat
           /\ \A n \in DOMAIN pieces : /\ pieces[n].from \in Nat /\ pieces[n].to \in Nat
                                       /\ pieces[n].tokens \in Nat
           /\ at \in Nat /\ word \in Nat
<1>1. (\A n \in DOMAIN blocks : blocks[n] \in Blocks) /\ \A n \in DOMAIN pieces : pieces[n] \in Pieces
  BY DEF ParseInv, ParseTypes
<1> QED BY <1>1 DEF Blocks, Pieces, ParseInv, ParseTypes

\* Nothing is found before the first line.
LEMMA NothingFound ==
    ASSUME lines \in Seq(Kinds), at = 1, word = 1, blocks = <<>>, pieces = <<>>
    PROVE  BlocksInv /\ FencesInv /\ PiecesInv
  BY DEF BlocksInv, FencesInv, PiecesInv, Covered

LEMMA SkipKeeps ==
    ASSUME ParseInv, SkipBlank
    PROVE  ParseInv'
<1>1. /\ at <= Len(lines) /\ Blank(lines[at]) /\ at' = at + 1 /\ at \in Nat \ {0}
      /\ word = at /\ word' = at + 1
      /\ lines \in Seq(Kinds) /\ lines' = lines /\ blocks' = blocks /\ pieces' = pieces
      /\ taken' = taken /\ stage' = stage
      /\ blocks \in Seq(Blocks) /\ pieces \in Seq(Pieces)
  BY DEF ParseInv, ParseTypes, SkipBlank
<1>2. ParseTypes'
  BY <1>1 DEF ParseInv, ParseTypes
<1>3. BlocksInv'
  <2>1. \A n \in DOMAIN blocks : blocks[n].last < at + 1
    BY <1>1, FoundTypes DEF ParseInv, BlocksInv
  <2>2. \A i \in 1..Len(lines) : i < at + 1 /\ ~Blank(lines[i]) => i < at
    BY <1>1
  <2> QED BY <1>1, <2>1, <2>2 DEF ParseInv, BlocksInv, Span
<1>4. FencesInv'
  BY <1>1 DEF ParseInv, FencesInv, FencesRight, Span, Closing
<1>5. PiecesInv'
  <2>1. \A m \in DOMAIN pieces : pieces[m].to < word'
    BY <1>1, FoundTypes DEF ParseInv, PiecesInv
  <2>2. ASSUME NEW n \in DOMAIN blocks, NEW i \in Span(blocks[n]) PROVE i < word
    <3>1. blocks[n].last < at /\ blocks[n].first \in Nat /\ blocks[n].last \in Nat
      BY <1>1, FoundTypes DEF ParseInv, BlocksInv
    <3>2. i \in blocks[n].first..blocks[n].last
      BY Zenon DEF Span
    <3> QED BY <1>1, <3>1, <3>2
  <2>3. Covered'
    <3>1. Covered
      BY DEF ParseInv, PiecesInv
    <3>2. \A n \in DOMAIN blocks : \A i \in Span(blocks[n]) :
             \E m \in DOMAIN pieces : pieces[m].kind = blocks[n].kind /\ i \in Held(pieces[m])
      BY <2>2, <3>1 DEF Covered
    <3> QED BY <1>1, <3>2, Zenon DEF Covered, Span, Held
  <2>4. ~(word' < at')
    BY <1>1
  <2>5. /\ \A m \in DOMAIN pieces : /\ pieces[m].from <= pieces[m].to
                                      /\ \E n \in DOMAIN blocks : PartOf(pieces[m], blocks[n])
                                      /\ SmallEnough(pieces[m])
        /\ \A n, m \in DOMAIN pieces : n < m => pieces[n].to < pieces[m].from
    BY DEF ParseInv, PiecesInv
  <2> QED BY <1>1, <2>1, <2>3, <2>4, <2>5 DEF PiecesInv, PartOf, SmallEnough
<1> QED BY <1>2, <1>3, <1>4, <1>5 DEF ParseInv

LEMMA FindKeeps ==
    ASSUME ParseInv, FindBlock
    PROVE  ParseInv'
<1> DEFINE e == BlockEnd(at)
           b == Block(at)
<1>1. /\ at \in 1..Len(lines) /\ ~Blank(lines[at]) /\ at' = e + 1
      /\ word = at /\ word' = at
      /\ lines \in Seq(Kinds) /\ lines' = lines
      /\ blocks' = Append(blocks, b) /\ pieces' = pieces
      /\ taken' = taken /\ stage' = stage /\ stage = "parsing" /\ taken \in Nat
      /\ blocks \in Seq(Blocks) /\ pieces \in Seq(Pieces)
  BY DEF ParseInv, ParseTypes, FindBlock
<1>2. e \in at..Len(lines) /\ e \in Nat /\ Len(lines) \in Nat
  BY <1>1, BlockEnds
<1>3. b \in Blocks /\ b.first = at /\ b.last = e /\ b.kind = BlockKind(at)
  BY <1>1, <1>2, BlockKindIs DEF Block, Blocks
<1>4. FencesRight(b)
  <2>1. /\ BlockKind(at) = "code" =>
             /\ \A j \in at + 1..e - 1 : ~Closes(lines[j], lines[at])
             /\ e = Len(lines) \/ e \in Closing(at)
        /\ BlockKind(at) # "code" =>
             \A j \in at..e : Fence(lines[j]) => BlockKind(at) = "list" /\ lines[j] = "ifence"
    BY <1>1, BlockEnds
  <2> HIDE DEF b, e
  <2> QED BY <1>3, <2>1 DEF FencesRight, Span
<1> HIDE DEF b, e
<1>5. /\ blocks' \in Seq(Blocks) /\ DOMAIN blocks' = 1..Len(blocks) + 1
      /\ Len(blocks') = Len(blocks) + 1
      /\ \A n \in 1..Len(blocks) : blocks'[n] = blocks[n]
      /\ blocks'[Len(blocks) + 1] = b
      /\ DOMAIN blocks = 1..Len(blocks) /\ Len(blocks) \in Nat
  BY <1>1, <1>3, AppendProperties
<1>7. ParseTypes'
  BY <1>1, <1>2, <1>5 DEF ParseInv, ParseTypes
<1>8. BlocksInv'
  <2>1. ASSUME NEW n \in DOMAIN blocks'
        PROVE  blocks'[n].first \in 1..blocks'[n].last /\ blocks'[n].last < at'
    <3>1. CASE n \in 1..Len(blocks)
      <4>1. blocks[n].first \in 1..blocks[n].last /\ blocks[n].last < at /\ blocks[n].last \in Nat
        BY <1>1, <1>5, <3>1, FoundTypes DEF ParseInv, BlocksInv
      <4> QED BY <1>1, <1>2, <1>5, <3>1, <4>1
    <3>2. CASE n = Len(blocks) + 1
      BY <1>1, <1>2, <1>3, <1>5, <3>2
    <3> QED BY <1>5, <2>1, <3>1, <3>2
  <2>3. ASSUME NEW m \in DOMAIN blocks', NEW n \in DOMAIN blocks', m < n
        PROVE  blocks'[m].last < blocks'[n].first
    <3>1. m \in DOMAIN blocks /\ blocks'[m] = blocks[m]
      BY <1>5, <2>3
    <3>2. CASE n \in 1..Len(blocks)
      BY <1>5, <2>3, <3>1, <3>2 DEF ParseInv, BlocksInv
    <3>3. CASE n = Len(blocks) + 1
      BY <1>3, <1>5, <3>1, <3>3 DEF ParseInv, BlocksInv
    <3> QED BY <1>5, <3>2, <3>3
  <2>2. ASSUME NEW i \in 1..Len(lines), i < at', ~Blank(lines[i])
        PROVE  \E n \in DOMAIN blocks' : i \in Span(blocks'[n])
    <3>1. CASE i < at
      <4>1. PICK n \in DOMAIN blocks : i \in Span(blocks[n])
        BY <2>2, <3>1 DEF ParseInv, BlocksInv
      <4> QED BY <1>5, <4>1
    <3>2. CASE i >= at
      <4>1. i \in Span(b)
        BY <1>1, <1>2, <1>3, <2>2, <3>2 DEF Span
      <4>2. Len(blocks) + 1 \in DOMAIN blocks'
        BY <1>5
      <4> QED BY <1>5, <4>1, <4>2
    <3> QED BY <1>1, <3>1, <3>2
  <2> QED BY <1>1, <2>1, <2>2, <2>3 DEF BlocksInv, Span
<1>9. FencesInv'
  <2>1. \A c : FencesRight(c)' <=> FencesRight(c)
    BY <1>1 DEF FencesRight, Span, Closing
  <2>2. \A n \in DOMAIN blocks' : FencesRight(blocks'[n])
    BY <1>4, <1>5 DEF ParseInv, FencesInv
  <2> QED BY <2>2, <1>1 DEF FencesInv, FencesRight, Span, Closing
<1>10. PiecesInv'
  <2>1. /\ blocks' # <<>>
        /\ LET c == blocks'[Len(blocks')] IN
             /\ c.first <= word' /\ at' = c.last + 1 /\ c.last <= Len(lines')
             /\ c.kind \in Atomic => word' = c.first
    <3>1. blocks'[Len(blocks')] = b /\ blocks' # <<>>
      BY <1>5
    <3> QED BY <1>1, <1>2, <1>3, <3>1
  <2>2. ASSUME NEW n \in DOMAIN blocks', NEW i \in Span(blocks'[n]), i < word
        PROVE  \E m \in DOMAIN pieces : pieces[m].kind = blocks'[n].kind /\ i \in Held(pieces[m])
    <3>1. n \in 1..Len(blocks)
      <4>1. i \notin Span(b)
        BY <1>1, <1>2, <1>3, <2>2 DEF Span
      <4> QED BY <1>5, <2>2, <4>1
    <3> QED BY <1>5, <2>2, <3>1 DEF ParseInv, PiecesInv, Covered
  <2>3. ASSUME NEW m \in DOMAIN pieces
        PROVE  \E n \in DOMAIN blocks' : PartOf(pieces[m], blocks'[n])
    <3>1. PICK n \in DOMAIN blocks : PartOf(pieces[m], blocks[n])
      BY DEF ParseInv, PiecesInv
    <3>2. n \in DOMAIN blocks' /\ blocks'[n] = blocks[n]
      BY <1>5
    <3> QED BY <3>1, <3>2
  <2>4. /\ \A m \in DOMAIN pieces : /\ pieces[m].from <= pieces[m].to /\ pieces[m].to < word
                                      /\ SmallEnough(pieces[m])
        /\ \A n, m \in DOMAIN pieces : n < m => pieces[n].to < pieces[m].from
    BY DEF ParseInv, PiecesInv
  <2> QED BY <1>1, <2>1, <2>2, <2>3, <2>4 DEF PiecesInv, Covered, Span, Held, PartOf, SmallEnough, Opens
<1> QED BY <1>7, <1>8, <1>9, <1>10 DEF ParseInv

LEMMA ExpandKeeps ==
    ASSUME ParseInv, Expand
    PROVE  ParseInv'
<1> DEFINE b == blocks[Len(blocks)]
           e == PieceEnd(b, word)
           p == Piece(b, word)
<1>1. /\ word < at /\ stage' = stage /\ lines' = lines /\ at' = at /\ blocks' = blocks
      /\ taken' = taken /\ pieces' = Append(pieces, p) /\ word' = e + 1
      /\ lines \in Seq(Kinds) /\ at \in Nat /\ word \in Nat \ {0}
      /\ blocks \in Seq(Blocks) /\ pieces \in Seq(Pieces)
  BY DEF Expand, Last, ParseInv, ParseTypes
<1>2. /\ blocks # <<>> /\ b.first <= word /\ at = b.last + 1 /\ b.last <= Len(lines)
      /\ b.kind \in Atomic => word = b.first
  BY <1>1 DEF ParseInv, PiecesInv, Opens
<1>3. Len(blocks) \in DOMAIN blocks /\ b \in Blocks /\ b.last \in Nat /\ b.first \in Nat
  <2>1. Len(blocks) \in DOMAIN blocks
    BY <1>1, <1>2
  <2>2. b \in Blocks
    BY <1>1, <2>1
  <2> QED BY <2>1, <2>2 DEF Blocks
<1>4. word <= b.last
  BY <1>1, <1>2, <1>3
<1> HIDE DEF b
<1>5. /\ p \in Pieces /\ p.from = word /\ p.to = e /\ e \in word..b.last
      /\ PartOf(p, b) /\ SmallEnough(p)
      /\ b.kind \in Atomic => e = b.last
  BY <1>1, <1>2, <1>3, <1>4, PieceIs
<1> HIDE DEF e, p
<1>6. /\ pieces' \in Seq(Pieces) /\ DOMAIN pieces' = 1..Len(pieces) + 1
      /\ \A n \in 1..Len(pieces) : pieces'[n] = pieces[n]
      /\ pieces'[Len(pieces) + 1] = p
      /\ DOMAIN pieces = 1..Len(pieces) /\ Len(pieces) \in Nat
  BY <1>1, <1>5, AppendProperties
<1>7. ParseTypes'
  BY <1>1, <1>2, <1>3, <1>5, <1>6 DEF ParseInv, ParseTypes
<1>8. BlocksInv' /\ FencesInv'
  BY <1>1 DEF ParseInv, BlocksInv, FencesInv, FencesRight, Span, Closing
<1>9. PiecesInv'
  <2>1. word' < at' => /\ b.first <= word' /\ at' = b.last + 1 /\ b.last <= Len(lines')
                       /\ b.kind \in Atomic => word' = b.first
    BY <1>1, <1>2, <1>3, <1>5
  <2>2. ASSUME NEW n \in DOMAIN blocks, NEW i \in Span(blocks[n]), i < word'
        PROVE  \E m \in DOMAIN pieces' : pieces'[m].kind = blocks[n].kind /\ i \in Held(pieces'[m])
    <3>1. i \in Nat /\ blocks[n].first <= i /\ i <= blocks[n].last
      BY FoundTypes DEF Span
    <3>2. CASE i < word
      <4>1. PICK m \in DOMAIN pieces : pieces[m].kind = blocks[n].kind /\ i \in Held(pieces[m])
        BY <3>2 DEF ParseInv, PiecesInv, Covered
      <4>2. m \in DOMAIN pieces' /\ pieces'[m] = pieces[m]
        BY <1>6
      <4> QED BY <4>1, <4>2
    <3>3. CASE i >= word
      <4>1. blocks[n].last >= b.first
        BY <1>1, <1>2, <1>3, <3>1, <3>3, FoundTypes
      <4>2. n = Len(blocks)
        <5>1. n \in 1..Len(blocks) /\ Len(blocks) \in Nat
          BY <1>1
        <5>2. ASSUME n < Len(blocks) PROVE FALSE
          <6>1. blocks[n].last < b.first
            BY <1>3, <5>2 DEF ParseInv, BlocksInv, b
          <6> QED BY <1>3, <4>1, <6>1, FoundTypes
        <5> QED BY <5>1, <5>2
      <4>3. i \in Held(p) /\ p.kind = b.kind
        BY <1>1, <1>5, <2>2, <3>1, <3>3 DEF Held, PartOf
      <4> QED BY <1>6, <4>2, <4>3 DEF b
    <3> QED BY <1>1, <3>1, <3>2, <3>3
  <2>3. ASSUME NEW m \in DOMAIN pieces'
        PROVE  /\ pieces'[m].from <= pieces'[m].to /\ pieces'[m].to < word'
               /\ \E n \in DOMAIN blocks : PartOf(pieces'[m], blocks[n])
               /\ SmallEnough(pieces'[m])
    <3>1. CASE m \in 1..Len(pieces)
      <4>1. pieces'[m] = pieces[m] /\ m \in DOMAIN pieces
        BY <1>6, <3>1
      <4>2. /\ pieces[m].from <= pieces[m].to /\ pieces[m].to < word
            /\ \E n \in DOMAIN blocks : PartOf(pieces[m], blocks[n])
            /\ SmallEnough(pieces[m]) /\ pieces[m].to \in Nat
        BY <4>1, FoundTypes DEF ParseInv, PiecesInv
      <4> QED BY <1>1, <1>3, <1>5, <4>1, <4>2
    <3>2. CASE m = Len(pieces) + 1
      <4>1. pieces'[m] = p
        BY <1>6, <3>2
      <4>2. \E n \in DOMAIN blocks : PartOf(p, blocks[n])
        BY <1>3, <1>5 DEF b
      <4> QED BY <1>1, <1>3, <1>5, <4>1, <4>2
    <3> QED BY <1>6, <3>1, <3>2
  <2>4. ASSUME NEW n \in DOMAIN pieces', NEW m \in DOMAIN pieces', n < m
        PROVE  pieces'[n].to < pieces'[m].from
    <3>1. CASE m \in 1..Len(pieces)
      BY <1>6, <2>4, <3>1 DEF ParseInv, PiecesInv
    <3>2. CASE m = Len(pieces) + 1
      <4>1. n \in DOMAIN pieces /\ pieces'[n] = pieces[n] /\ pieces'[m] = p
        BY <1>6, <2>4, <3>2
      <4> QED BY <1>5, <4>1 DEF ParseInv, PiecesInv
    <3> QED BY <1>6, <3>1, <3>2
  <2> QED BY <1>1, <1>2, <2>1, <2>2, <2>3, <2>4 DEF PiecesInv, Covered, Span, Held, PartOf, SmallEnough, Opens, b
<1> QED BY <1>7, <1>8, <1>9 DEF ParseInv

\* At the end of the document they say what ChunksRight says of the parse.
LEMMA ParseIsRight ==
    ASSUME ParseInv, at > Len(lines), word = at
    PROVE  BlocksPartition /\ PiecesFaithful
<1>1. /\ lines \in Seq(Kinds) /\ at = Len(lines) + 1 /\ Len(lines) \in Nat
      /\ blocks \in Seq(Blocks) /\ pieces \in Seq(Pieces)
  BY DEF ParseInv, ParseTypes
<1>2. ToSet(blocks) = {blocks[n] : n \in DOMAIN blocks} /\ ToSet(pieces) = {pieces[n] : n \in DOMAIN pieces}
  BY DEF ToSet
<1>3. BlocksPartition
  <2>1. ASSUME NEW n \in DOMAIN blocks
        PROVE  /\ blocks[n].first <= blocks[n].last
               /\ n > 1 => blocks[n - 1].last < blocks[n].first
    <3>1. n > 1 => n - 1 \in DOMAIN blocks /\ n - 1 < n
      BY <1>1
    <3> QED BY <3>1, FoundTypes DEF ParseInv, BlocksInv
  <2>2. \A i \in 1..Len(lines) : ~Blank(lines[i]) => \E b \in ToSet(blocks) : i \in Span(b)
    BY <1>1, <1>2 DEF ParseInv, BlocksInv
  <2>3. \A b \in ToSet(blocks) : FencesRight(b)
    BY <1>2 DEF ParseInv, FencesInv
  <2> QED BY <2>1, <2>2, <2>3, Zenon DEF BlocksPartition, FencesRight
<1>4. PiecesFaithful
  <2>1. ASSUME NEW b \in ToSet(blocks), NEW i \in Span(b)
        PROVE  \E p \in ToSet(pieces) : p.kind = b.kind /\ i \in Held(p)
    <3>1. PICK n \in DOMAIN blocks : b = blocks[n]
      BY <1>2
    <3>2. i < word
      BY <1>1, <3>1, FoundTypes DEF ParseInv, BlocksInv, Span
    <3>3. PICK m \in DOMAIN pieces : pieces[m].kind = blocks[n].kind /\ i \in Held(pieces[m])
      BY <3>1, <3>2 DEF ParseInv, PiecesInv, Covered
    <3> QED BY <1>2, <3>1, <3>3
  <2>2. \A n, m \in DOMAIN pieces : n < m => pieces[n].to < pieces[m].from
    BY DEF ParseInv, PiecesInv
  <2>3. ASSUME NEW p \in ToSet(pieces)
        PROVE  /\ \E b \in ToSet(blocks) : /\ p.kind = b.kind /\ Held(p) \subseteq Span(b)
                                           /\ p.kind \in Atomic => Held(p) = Span(b)
               /\ SmallEnough(p)
    <3>1. PICK m \in DOMAIN pieces : p = pieces[m]
      BY <1>2
    <3>2. PICK n \in DOMAIN blocks : PartOf(p, blocks[n])
      BY <3>1 DEF ParseInv, PiecesInv
    <3>3. /\ p.from \in Nat /\ p.to \in Nat /\ blocks[n].first \in Nat /\ blocks[n].last \in Nat
          /\ SmallEnough(p)
      BY <3>1, FoundTypes DEF ParseInv, PiecesInv
    <3>4. /\ p.kind = blocks[n].kind /\ Held(p) \subseteq Span(blocks[n])
          /\ p.kind \in Atomic => Held(p) = Span(blocks[n])
      BY <3>2, <3>3 DEF PartOf, Held, Span
    <3> QED BY <1>2, <3>3, <3>4
  <2>4. \A b \in ToSet(blocks) : \A i \in Span(b) :
          \E p \in ToSet(pieces) : p.kind = b.kind /\ i \in Held(p)
    BY <2>1
  <2>5. \A p \in ToSet(pieces) :
          /\ \E b \in ToSet(blocks) : /\ p.kind = b.kind /\ Held(p) \subseteq Span(b)
                                      /\ p.kind \in Atomic => Held(p) = Span(b)
          /\ SmallEnough(p)
    BY <2>3, Zenon
  <2> HIDE DEF ParseInv
  <2> QED BY <2>2, <2>4, <2>5 DEF PiecesFaithful, SmallEnough
<1> QED BY <1>3, <1>4

-----------------------------------------------------------------------------
(* Chunking: what chunk_document has built of the first pieces.            *)

Numbers == 1..Len(pieces)
Parts == [piece : 0..Len(pieces), seed : BOOLEAN]
ChunkSet == [path : Seq(Numbers), parts : Seq(Parts)]
Builds == [chunks : Seq(ChunkSet), path : Seq(Numbers), pending : Seq(Parts), carry : Seq(Parts)]

Owned(parts) == {parts[i].piece : i \in {j \in DOMAIN parts : ~parts[j].seed}}
Ascends(parts) ==
    \A i, j \in DOMAIN parts :
       i < j /\ ~parts[i].seed /\ ~parts[j].seed => parts[i].piece < parts[j].piece
Fits(parts) == Weight(parts) > MaxTokens => \A p, q \in Owned(parts) : p = q
Shows(parts, path) == path # <<>> => \E i \in DOMAIN parts : parts[i].piece = path[Len(path)]
Filed(parts, path) == \A n \in Owned(parts) : {path[i] : i \in DOMAIN path} = Under(n)
Rises(path) == \A i, j \in DOMAIN path : i < j => path[i] < path[j]

GoodChunk(c) ==
    /\ Ascends(c.parts) /\ Fits(c.parts)
    /\ Shows(c.parts, c.path) /\ Filed(c.parts, c.path) /\ Rises(c.path)

\* The first t pieces are in the chunks and the pending one, in order, each
\* chunk is as it should be, and the heading stack is what piece t stands
\* under.
Holds(b, t) ==
    /\ \A n \in DOMAIN b.chunks : Owned(b.chunks[n].parts) \subseteq 1..t
    /\ Owned(b.pending) \subseteq 1..t
    /\ \A p \in 1..t :
          p \in Owned(b.pending) \/ \E n \in DOMAIN b.chunks : p \in Owned(b.chunks[n].parts)

Ordered(b) ==
    /\ \A m, n \in DOMAIN b.chunks : m < n =>
          \A p \in Owned(b.chunks[m].parts), q \in Owned(b.chunks[n].parts) : p < q
    /\ \A n \in DOMAIN b.chunks :
          \A p \in Owned(b.chunks[n].parts), q \in Owned(b.pending) : p < q

Built(b, t) ==
    /\ b \in Builds
    /\ Holds(b, t) /\ Ordered(b)
    /\ \A n \in DOMAIN b.chunks : GoodChunk(b.chunks[n])
    /\ Ascends(b.pending) /\ Fits(b.pending) /\ Filed(b.pending, b.path)
    /\ Rises(b.path) /\ {b.path[i] : i \in DOMAIN b.path} = Under(t)
    /\ \A i \in DOMAIN b.carry : b.carry[i].seed

\* The next chunk will show the last heading of the stack.
Near(b) == Shows(IF b.pending # <<>> THEN b.pending ELSE b.carry, b.path)

BuildInv(b, t) == Built(b, t) /\ Near(b)

\* The fields of what a step makes of the state.
LEMMA OnlyCarry ==
    ASSUME NEW b \in Builds, NEW c \in Seq(Parts), NEW e, e = [b EXCEPT !.carry = c]
    PROVE  /\ e \in Builds
           /\ e.chunks = b.chunks /\ e.path = b.path /\ e.pending = b.pending /\ e.carry = c
<1> HIDE DEF Parts, ChunkSet, Numbers
<1> QED BY DEF Builds

\* The weight of one more part.
LEMMA WeightAdds ==
    ASSUME pieces \in Seq(Pieces), NEW parts \in Seq(Parts), NEW x \in Parts
    PROVE  /\ Weight(parts) \in Nat /\ Size(x) \in Nat
           /\ Weight(Append(parts, x)) = Weight(parts) + Size(x)
<1> DEFINE U(s) == UNION {{n} \X (1..Size(s[n])) : n \in DOMAIN s}
           l == Len(parts)
           y == Append(parts, x)
           last == {l + 1} \X (1..Size(x))
<1>1. ASSUME NEW z \in Parts PROVE Size(z) \in Nat
  <2>1. z.piece \in Nat /\ (z.piece # 0 => z.piece \in DOMAIN pieces)
    BY <1>1 DEF Parts
  <2>2. \A n \in DOMAIN pieces : pieces[n] \in Pieces
    OBVIOUS
  <2> QED BY <2>1, <2>2, SizesAssumption DEF Size, Pieces
<1>2. ASSUME NEW s \in Seq(Parts) PROVE IsFiniteSet(U(s))
  <2> DEFINE F == {{n} \X (1..Size(s[n])) : n \in DOMAIN s}
             f == [n \in DOMAIN s |-> {n} \X (1..Size(s[n]))]
  <2>1. ASSUME NEW n \in DOMAIN s PROVE IsFiniteSet({n} \X (1..Size(s[n])))
    <3>1. Size(s[n]) \in Nat
      BY <1>1
    <3> HIDE DEF Size
    <3>2. IsFiniteSet(1..Size(s[n]))
      BY <3>1, FS_Interval
    <3>3. IsFiniteSet({n})
      BY FS_Singleton
    <3> QED BY <3>2, <3>3, FS_Product
  <2>2. IsFiniteSet(DOMAIN s)
    BY FS_Interval
  <2>3. IsFiniteSet(F)
    <3>1. f \in Surjection(DOMAIN s, F)
      BY Zenon DEF Surjection
    <3> HIDE DEF f, F
    <3> QED BY <2>2, <3>1, FS_Surjection
  <2>4. \A A \in F : IsFiniteSet(A)
    BY <2>1
  <2> HIDE DEF F
  <2> QED BY <2>3, <2>4, FS_UNION DEF F
<1>3. U(y) = U(parts) \cup last /\ U(parts) \cap last = {}
  <2>1. /\ DOMAIN y = DOMAIN parts \cup {l + 1} /\ l + 1 \notin DOMAIN parts
        /\ \A n \in DOMAIN parts : y[n] = parts[n]
        /\ y[l + 1] = x
    OBVIOUS
  <2> HIDE DEF y, l
  <2> QED BY <2>1
<1>4. IsFiniteSet(last) /\ Cardinality(last) = Size(x)
  <2>1. IsFiniteSet({l + 1}) /\ Cardinality({l + 1}) = 1
    BY FS_Singleton
  <2>2. IsFiniteSet(1..Size(x)) /\ Cardinality(1..Size(x)) = Size(x)
    BY <1>1, FS_Interval
  <2>3. /\ IsFiniteSet(last)
        /\ Cardinality(last) = Cardinality({l + 1}) * Cardinality(1..Size(x))
    BY <2>1, <2>2, FS_Product
  <2>4. 1 * Size(x) = Size(x)
    BY <1>1
  <2> QED BY <2>1, <2>2, <2>3, <2>4
<1>5. IsFiniteSet(U(parts)) /\ Cardinality(U(parts)) \in Nat
  BY <1>2, FS_CardinalityType
<1> HIDE DEF U, last, y
<1>6. Cardinality(U(y)) = Cardinality(U(parts)) + Size(x)
  <2>1. Cardinality(U(parts) \cup last)
          = Cardinality(U(parts)) + Cardinality(last) - Cardinality(U(parts) \cap last)
    BY <1>4, <1>5, FS_Union
  <2>2. Cardinality(U(parts) \cap last) = 0
    BY <1>3, FS_EmptySet
  <2>3. Size(x) \in Nat
    BY <1>1
  <2> QED BY <1>3, <1>4, <1>5, <2>1, <2>2, <2>3
<1> QED BY <1>1, <1>5, <1>6 DEF Weight, U, y

\* Appending a piece to the parts of a chunk.
LEMMA OwnedAdds ==
    ASSUME NEW parts \in Seq(Parts), NEW x \in Parts
    PROVE  /\ Owned(Append(parts, x)) = Owned(parts) \cup (IF x.seed THEN {} ELSE {x.piece})
           /\ Ascends(parts) /\ (\A p \in Owned(parts) : p < x.piece) => Ascends(Append(parts, x))
<1>1. /\ DOMAIN Append(parts, x) = DOMAIN parts \cup {Len(parts) + 1}
      /\ DOMAIN parts = 1..Len(parts) /\ Len(parts) \in Nat
      /\ \A n \in DOMAIN parts : Append(parts, x)[n] = parts[n]
      /\ Append(parts, x)[Len(parts) + 1] = x
  OBVIOUS
<1>2. \A n \in DOMAIN parts : n < Len(parts) + 1 /\ ~(Len(parts) + 1 < n)
  BY <1>1
<1> QED BY <1>1, <1>2 DEF Owned, Ascends

\* A chunk is emitted as it was pending.
LEMMA EmitKeeps ==
    ASSUME NEW t \in Nat, NEW b, BuildInv(b, t)
    PROVE  /\ Built(Emit(b), t) /\ Emit(b).pending = <<>>
           /\ Emit(b).path = b.path /\ Emit(b).carry = b.carry
<1>0. b \in Builds
  BY DEF BuildInv, Built
<1>1. CASE b.pending = <<>>
  BY <1>1 DEF Emit, BuildInv
<1>2. CASE b.pending # <<>>
  <2> DEFINE c == [path |-> b.path, parts |-> b.pending]
             d == Append(b.chunks, c)
             e == Emit(b)
  <2>1. /\ b.chunks \in Seq(ChunkSet) /\ b.path \in Seq(Numbers)
        /\ b.pending \in Seq(Parts) /\ b.carry \in Seq(Parts)
    BY <1>0 DEF Builds
  <2>2. c \in ChunkSet /\ c.parts = b.pending /\ c.path = b.path
    BY <2>1 DEF ChunkSet
  <2> HIDE DEF c
  <2>3. /\ d \in Seq(ChunkSet) /\ DOMAIN d = 1..Len(b.chunks) + 1
        /\ \A n \in 1..Len(b.chunks) : d[n] = b.chunks[n]
        /\ d[Len(b.chunks) + 1] = c
        /\ DOMAIN b.chunks = 1..Len(b.chunks) /\ Len(b.chunks) \in Nat
    BY <2>1, <2>2, AppendProperties
  <2>4. e = [b EXCEPT !.chunks = d, !.pending = <<>>]
    BY <1>2, Zenon DEF Emit, c
  <2> HIDE DEF d
  <2>5. /\ e \in Builds
        /\ e.chunks = d /\ e.path = b.path /\ e.pending = <<>> /\ e.carry = b.carry
    <3>1. <<>> \in Seq(Parts)
      OBVIOUS
    <3> HIDE DEF e
    <3> QED BY <1>0, <2>3, <2>4, <3>1 DEF Builds
  <2> HIDE DEF e
  <2>6. Owned(<<>>) = {}
    BY DEF Owned
  <2>7. Holds(e, t)
    <3>1. ASSUME NEW n \in DOMAIN d PROVE Owned(d[n].parts) \subseteq 1..t
      BY <2>2, <2>3 DEF BuildInv, Built, Holds
    <3>2. ASSUME NEW p \in 1..t PROVE \E n \in DOMAIN d : p \in Owned(d[n].parts)
      <4>1. CASE p \in Owned(b.pending)
        <5>1. Len(b.chunks) + 1 \in DOMAIN d /\ p \in Owned(d[Len(b.chunks) + 1].parts)
          BY <2>2, <2>3, <4>1
        <5> QED BY <5>1
      <4>2. CASE p \notin Owned(b.pending)
        <5>1. PICK n \in DOMAIN b.chunks : p \in Owned(b.chunks[n].parts)
          BY <4>2 DEF BuildInv, Built, Holds
        <5> QED BY <2>3, <5>1
      <4> QED BY <4>1, <4>2
    <3> QED BY <2>5, <2>6, <3>1, <3>2 DEF Holds
  <2>8. Ordered(e)
    <3>1. ASSUME NEW m \in DOMAIN d, NEW n \in DOMAIN d, m < n,
                 NEW p \in Owned(d[m].parts), NEW q \in Owned(d[n].parts)
          PROVE  p < q
      <4>1. m \in 1..Len(b.chunks) /\ d[m] = b.chunks[m]
        BY <2>3, <3>1
      <4>2. CASE n \in 1..Len(b.chunks)
        <5>1. d[n] = b.chunks[n]
          BY <2>3, <4>2
        <5> QED BY <2>3, <3>1, <4>1, <4>2, <5>1 DEF BuildInv, Built, Ordered
      <4>3. CASE n = Len(b.chunks) + 1
        <5>1. d[n].parts = b.pending
          BY <2>2, <2>3, <4>3
        <5> QED BY <2>3, <3>1, <4>1, <5>1 DEF BuildInv, Built, Ordered
      <4> QED BY <2>3, <3>1, <4>2, <4>3
    <3> QED BY <2>5, <2>6, <3>1 DEF Ordered
  <2>9. \A n \in DOMAIN d : GoodChunk(d[n])
    <3>1. GoodChunk(c)
      BY <1>2, <2>2 DEF GoodChunk, BuildInv, Built, Near
    <3> QED BY <2>3, <3>1 DEF BuildInv, Built
  <2>10. Ascends(<<>>) /\ Fits(<<>>) /\ Filed(<<>>, b.path)
    BY <2>6 DEF Ascends, Fits, Filed
  <2>11. Rises(b.path) /\ {b.path[i] : i \in DOMAIN b.path} = Under(t)
         /\ \A i \in DOMAIN b.carry : b.carry[i].seed
    BY DEF BuildInv, Built
  <2> QED BY <2>5, <2>7, <2>8, <2>9, <2>10, <2>11, Zenon DEF Built, e
<1> QED BY <1>1, <1>2

\* What is carried over are seeds, the last heading among them.
LEMMA CarryKeeps ==
    ASSUME pieces \in Seq(Pieces), NEW t \in Nat, NEW b, BuildInv(b, t)
    PROVE  BuildInv(EmitAndCarry(b), t) /\ EmitAndCarry(b).pending = <<>>
<1> DEFINE h == [i \in DOMAIN b.path |-> Repeated(b.path[i])]
           r == IF Weight(b.pending) > Overlap THEN <<Tail0>> ELSE <<>>
           c == h \o r
           e == EmitAndCarry(b)
<1>1. /\ Built(Emit(b), t) /\ Emit(b).pending = <<>>
      /\ Emit(b).path = b.path /\ Emit(b).carry = b.carry
  BY EmitKeeps
<1>2. b.path \in Seq(Numbers) /\ Emit(b) \in Builds
  BY <1>1 DEF BuildInv, Built, Builds
<1>3. /\ h \in Seq(Parts) /\ Len(h) = Len(b.path) /\ Len(h) \in Nat
      /\ \A i \in 1..Len(h) : h[i].piece = b.path[i] /\ h[i].seed
  <2>1. \A i \in DOMAIN b.path : Repeated(b.path[i]) \in Parts
    <3>1. \A i \in DOMAIN b.path : b.path[i] \in Numbers
      BY <1>2
    <3> QED BY <3>1 DEF Repeated, Parts, Numbers
  <2>2. DOMAIN b.path = 1..Len(b.path) /\ Len(b.path) \in Nat
    BY <1>2
  <2>3. h \in [1..Len(b.path) -> Parts]
    BY <2>1, <2>2
  <2>4. \A i \in 1..Len(b.path) : h[i].piece = b.path[i] /\ h[i].seed
    BY <2>2 DEF Repeated
  <2> HIDE DEF h
  <2> QED BY <2>2, <2>3, <2>4
<1>4. r \in Seq(Parts) /\ Len(r) \in Nat /\ \A i \in 1..Len(r) : r[i] = Tail0
  <2>1. Tail0 \in Parts
    BY DEF Tail0, Repeated, Parts
  <2> QED BY <2>1
<1> HIDE DEF h, r
<1>5. /\ c \in Seq(Parts) /\ DOMAIN c = 1..Len(h) + Len(r)
      /\ \A i \in 1..Len(h) : c[i] = h[i]
      /\ \A i \in Len(h) + 1..Len(h) + Len(r) : i - Len(h) \in 1..Len(r) /\ c[i] = r[i - Len(h)]
  <2>1. /\ h \o r \in Seq(Parts) /\ Len(h \o r) = Len(h) + Len(r)
        /\ \A i \in 1..Len(h) + Len(r) : (h \o r)[i] = IF i <= Len(h) THEN h[i] ELSE r[i - Len(h)]
    <3>1. h \in Seq(Parts) /\ r \in Seq(Parts)
      BY <1>3, <1>4
    <3> QED BY <3>1, ConcatProperties, Zenon
  <2>2. c \in Seq(Parts) /\ DOMAIN c = 1..Len(h) + Len(r)
    BY <2>1, LenProperties
  <2> QED BY <1>3, <1>4, <2>1, <2>2
<1>6. \A i \in DOMAIN c : c[i].seed
  <2>1. \A i \in 1..Len(h) : c[i].seed
    BY <1>3, <1>5
  <2>2. \A i \in Len(h) + 1..Len(h) + Len(r) : c[i].seed
    BY <1>4, <1>5 DEF Tail0, Repeated
  <2> QED BY <1>3, <1>4, <1>5, <2>1, <2>2
<1>7. Shows(c, b.path)
  <2>1. SUFFICES ASSUME b.path # <<>>
                 PROVE  \E i \in DOMAIN c : c[i].piece = b.path[Len(b.path)]
    BY DEF Shows
  <2>2. Len(h) \in 1..Len(h) /\ Len(h) \in DOMAIN b.path /\ Len(h) \in DOMAIN c
    BY <1>2, <1>3, <1>4, <1>5, <2>1
  <2>3. c[Len(h)].piece = b.path[Len(b.path)]
    BY <1>3, <1>5, <2>2
  <2> QED BY <2>2, <2>3
<1>8. e = [Emit(b) EXCEPT !.carry = c]
  BY Zenon DEF EmitAndCarry, h, r
<1> HIDE DEF c
<1>9. /\ e \in Builds /\ e.chunks = Emit(b).chunks /\ e.path = b.path
      /\ e.pending = <<>> /\ e.carry = c
  <2> HIDE DEF e
  <2> QED BY <1>1, <1>2, <1>5, <1>8, OnlyCarry
<1> HIDE DEF e
<1>10. Built(e, t)
  BY <1>1, <1>6, <1>9, Zenon DEF Built, Holds, Ordered
<1>11. Near(e)
  BY <1>7, <1>9 DEF Near
<1> QED BY <1>9, <1>10, <1>11 DEF BuildInv, e

\* What a chunk is seeded with is not its own.
LEMMA SeedKeeps ==
    ASSUME NEW t \in Nat, NEW b, BuildInv(b, t)
    PROVE  /\ BuildInv(Seed(b), t) /\ Shows(Seed(b).pending, Seed(b).path)
           /\ b.pending # <<>> => Seed(b) = b
           /\ b.pending = <<>> => Owned(Seed(b).pending) = {}
<1>1. CASE b.pending # <<>>
  BY <1>1 DEF Seed, BuildInv, Near
<1>2. CASE b.pending = <<>>
  <2> DEFINE e == Seed(b)
  <2>1. b \in Builds /\ b.carry \in Seq(Parts) /\ <<>> \in Seq(Parts)
    BY DEF BuildInv, Built, Builds
  <2>2. e = [b EXCEPT !.pending = b.carry, !.carry = <<>>]
    BY <1>2, Zenon DEF Seed
  <2> HIDE DEF e
  <2>3. /\ e \in Builds /\ e.chunks = b.chunks /\ e.path = b.path
        /\ e.pending = b.carry /\ e.carry = <<>>
    BY <2>1, <2>2 DEF Builds
  <2>4. Owned(b.carry) = {} /\ Owned(<<>>) = {} /\ Ascends(b.carry)
    BY DEF BuildInv, Built, Owned, Ascends
  <2>5. Fits(b.carry) /\ Filed(b.carry, b.path)
    BY <2>4 DEF Fits, Filed
  <2>6. Holds(e, t) /\ Ordered(e)
    BY <1>2, <2>3, <2>4 DEF BuildInv, Built, Holds, Ordered
  <2>7. Built(e, t)
    <3>1. /\ \A n \in DOMAIN b.chunks : GoodChunk(b.chunks[n])
          /\ Rises(b.path) /\ {b.path[i] : i \in DOMAIN b.path} = Under(t)
      BY DEF BuildInv, Built
    <3>2. \A i \in DOMAIN <<>> : <<>>[i].seed
      OBVIOUS
    <3> QED BY <2>3, <2>4, <2>5, <2>6, <3>1, <3>2, Zenon DEF Built
  <2>8. Shows(b.carry, b.path)
    BY <1>2 DEF BuildInv, Near
  <2>9. Near(e)
    BY <2>3, <2>8 DEF Near, Shows
  <2> QED BY <1>2, <2>3, <2>4, <2>7, <2>8, <2>9 DEF BuildInv, e
<1> QED BY <1>1, <1>2

\* What a piece stands under, from what the one before it does.
LEMMA UnderNext ==
    ASSUME pieces \in Seq(Pieces), NEW t \in Nat, t + 1 \in Numbers
    PROVE  /\ pieces[t + 1].kind # "heading" => Under(t + 1) = Under(t)
           /\ pieces[t + 1].kind = "heading" =>
                Under(t + 1) = {h \in Under(t) : LevelOf(h) < LevelOf(t + 1)} \cup {t + 1}
<1>1. \A n : LevelOf(n) \in {1, 2}
  BY DEF LevelOf, Level
<1>2. \A h \in Headings : h \in Nat
  BY DEF Headings
<1>3. t + 1 \in DOMAIN pieces
  BY DEF Numbers
<1> HIDE DEF LevelOf
<1>4. ASSUME pieces[t + 1].kind # "heading" PROVE Under(t + 1) = Under(t)
  <2>1. \A h \in Headings : h <= t + 1 <=> h <= t
    BY <1>2, <1>4 DEF Headings
  <2> QED BY <2>1 DEF Under
<1>5. ASSUME pieces[t + 1].kind = "heading"
      PROVE  Under(t + 1) = {h \in Under(t) : LevelOf(h) < LevelOf(t + 1)} \cup {t + 1}
  <2>1. t + 1 \in Headings
    BY <1>3, <1>5 DEF Headings
  <2>2. \A h \in Headings : h <= t + 1 <=> h <= t \/ h = t + 1
    BY <1>2
  <2>3. t + 1 \in Under(t + 1)
    BY <1>2, <2>1, <2>2 DEF Under
  <2>4. ASSUME NEW h \in Headings, h <= t
        PROVE  h \in Under(t + 1) <=> h \in Under(t) /\ LevelOf(h) < LevelOf(t + 1)
    BY <1>1, <1>2, <2>1, <2>2, <2>4 DEF Under
  <2>5. Under(t) = {h \in Headings : h <= t /\ h \in Under(t)}
    BY DEF Under
  <2>6. Under(t + 1) = {h \in Headings : h <= t + 1 /\ h \in Under(t + 1)}
    BY DEF Under
  <2> QED BY <2>1, <2>2, <2>3, <2>4, <2>5, <2>6
<1> QED BY <1>4, <1>5

\* The headings that are not popped are those above the new one.
LEMMA AboveIs ==
    ASSUME NEW t \in Nat, NEW path \in Seq(Numbers), NEW l \in Nat, Rises(path),
           {path[i] : i \in DOMAIN path} = Under(t)
    PROVE  LET s == Above(path, l) IN
           /\ s \in Seq(Numbers) /\ Rises(s)
           /\ {s[i] : i \in DOMAIN s} = {h \in Under(t) : LevelOf(h) < l}
<1> DEFINE M == {m \in 0..Len(path) : m = 0 \/ LevelOf(path[m]) < l}
           D == {d \in Nat : Len(path) - d \in M}
           k == Max(M)
           s == Above(path, l)
<1>1. DOMAIN path = 1..Len(path) /\ Len(path) \in Nat /\ \A i \in DOMAIN path : path[i] \in Nat
  <2>1. \A i \in DOMAIN path : path[i] \in Numbers
    OBVIOUS
  <2> QED BY <2>1 DEF Numbers
<1>2. \A n : LevelOf(n) \in {1, 2}
  BY DEF LevelOf, Level
<1> HIDE DEF LevelOf
<1>3. k \in M /\ \A m \in M : m <= k
  <2>1. 0 \in M /\ \A m \in M : m \in Nat /\ m <= Len(path)
    BY <1>1
  <2> HIDE DEF M
  <2>2. D \in SUBSET Nat /\ Len(path) \in D
    BY <1>1, <2>1
  <2>3. Min(D) \in D /\ \A d \in D : Min(D) <= d
    BY <2>2, MinIsLeast
  <2>4. \A m \in M : Len(path) - m \in D
    BY <1>1, <2>1
  <2>5. Len(path) - Min(D) \in M /\ \A m \in M : m <= Len(path) - Min(D)
    <3> DEFINE x == Min(D)
    <3>1. x \in Nat /\ Len(path) - x \in M /\ \A d \in D : x <= d
      BY <2>3
    <3> HIDE DEF x
    <3>2. ASSUME NEW m \in M PROVE m <= Len(path) - x
      <4>1. x <= Len(path) - m
        BY <2>4, <3>1
      <4> QED BY <1>1, <2>1, <3>1, <4>1
    <3> QED BY <3>1, <3>2 DEF x
  <2> QED BY <2>5 DEF Max
<1>4. s = SubSeq(path, 1, k)
  BY Zenon DEF Above
<1>5. k \in Nat /\ k <= Len(path) /\ (k > 0 => LevelOf(path[k]) < l)
      /\ \A i \in 1..Len(path) : LevelOf(path[i]) < l => i <= k
  BY <1>1, <1>3
<1> HIDE DEF k, M
<1>6. /\ s \in Seq(Numbers) /\ DOMAIN s = 1..k
      /\ \A i \in 1..k : s[i] = path[i]
  BY <1>1, <1>4, <1>5
<1> HIDE DEF s
<1>7. Rises(s)
  BY <1>1, <1>5, <1>6 DEF Rises
<1>8. ASSUME NEW i \in 1..Len(path), NEW j \in 1..Len(path), i <= j
      PROVE  LevelOf(path[i]) <= LevelOf(path[j])
  <2>1. CASE i = j
    BY <1>2, <2>1
  <2>2. CASE i < j
    <3>1. path[i] < path[j] /\ path[i] \in Under(t) /\ path[j] \in Under(t)
      BY <1>1, <2>2 DEF Rises
    <3>2. path[j] \in Headings /\ path[j] <= t
      BY <3>1 DEF Under
    <3>3. LevelOf(path[j]) > LevelOf(path[i])
      BY <3>1, <3>2 DEF Under
    <3> QED BY <1>2, <3>3
  <2> QED BY <1>1, <1>8, <2>1, <2>2
<1>9. \A i \in 1..Len(path) : i <= k <=> LevelOf(path[i]) < l
  <2>1. ASSUME NEW i \in 1..Len(path), i <= k PROVE LevelOf(path[i]) < l
    <3>1. k \in 1..Len(path) /\ LevelOf(path[k]) < l
      BY <1>1, <1>5, <2>1
    <3>2. LevelOf(path[i]) <= LevelOf(path[k])
      BY <1>8, <2>1, <3>1
    <3> QED BY <1>2, <3>1, <3>2
  <2> QED BY <1>5, <2>1
<1>10. {s[i] : i \in DOMAIN s} = {h \in Under(t) : LevelOf(h) < l}
  BY <1>1, <1>5, <1>6, <1>9
<1> QED BY <1>6, <1>7, <1>10 DEF s

\* A piece that is no heading joins the pending chunk.
LEMMA JoinKeeps ==
    ASSUME pieces \in Seq(Pieces), NEW t \in Nat, t + 1 \in Numbers,
           pieces[t + 1].kind # "heading",
           NEW b, BuildInv(b, t), Shows(b.pending, b.path),
           \/ Weight(b.pending) + pieces[t + 1].tokens <= MaxTokens
           \/ Owned(b.pending) = {},
           NEW e, e = [b EXCEPT !.pending = Append(@, Own(t + 1))]
    PROVE  BuildInv(e, t + 1) /\ e.path = b.path
<1> DEFINE x == Own(t + 1)
           q == Append(b.pending, x)
<1>1. b \in Builds /\ b.pending \in Seq(Parts) /\ Len(b.pending) \in Nat
  BY DEF BuildInv, Built, Builds
<1>2. x \in Parts /\ x.piece = t + 1 /\ ~x.seed
  BY DEF Own, Parts, Numbers
<1>3. Size(x) = pieces[t + 1].tokens /\ Size(x) \in Nat
  <2>1. Size(x) \in Nat
    BY <1>1, <1>2, WeightAdds
  <2> QED BY <1>2, <2>1 DEF Size
<1> HIDE DEF x
<1>4. /\ q \in Seq(Parts) /\ q # <<>> /\ DOMAIN q = 1..Len(b.pending) + 1
      /\ \A i \in 1..Len(b.pending) : q[i] = b.pending[i]
  BY <1>1, <1>2, AppendProperties
<1>5. Owned(q) = Owned(b.pending) \cup {t + 1}
  BY <1>1, <1>2, OwnedAdds
<1>6. Weight(q) = Weight(b.pending) + pieces[t + 1].tokens
  BY <1>1, <1>2, <1>3, WeightAdds
<1>7. Ascends(q)
  <2>1. \A p \in Owned(b.pending) : p < t + 1
    BY DEF BuildInv, Built, Holds
  <2>2. Ascends(b.pending)
    BY DEF BuildInv, Built
  <2> QED BY <1>1, <1>2, <2>1, <2>2, OwnedAdds
<1>8. e = [b EXCEPT !.pending = q]
  BY DEF x
<1> HIDE DEF q
<1>9. /\ e \in Builds /\ e.chunks = b.chunks /\ e.path = b.path
      /\ e.pending = q /\ e.carry = b.carry
  <2> HIDE DEF Parts, ChunkSet, Numbers
  <2> QED BY <1>1, <1>4, <1>8 DEF Builds
<1>10. Fits(q)
  <2>1. CASE Owned(b.pending) = {}
    BY <1>5, <2>1 DEF Fits
  <2>2. CASE Weight(b.pending) + pieces[t + 1].tokens <= MaxTokens
    <3>1. Weight(q) <= MaxTokens /\ Weight(b.pending) \in Nat
      BY <1>1, <1>2, <1>6, <2>2, WeightAdds
    <3>2. Weight(q) \in Nat
      BY <1>3, <1>6, <3>1
    <3>3. ~(Weight(q) > MaxTokens)
      BY <3>1, <3>2, SizesAssumption
    <3> QED BY <3>3 DEF Fits
  <2> QED BY <2>1, <2>2
<1>11. Under(t + 1) = Under(t)
  BY UnderNext
<1>12. Filed(q, b.path)
  <2>1. Filed(b.pending, b.path) /\ {b.path[i] : i \in DOMAIN b.path} = Under(t)
    BY DEF BuildInv, Built
  <2> QED BY <1>5, <1>11, <2>1 DEF Filed
<1>13. Holds(e, t + 1)
  <2>1. 1..t + 1 = (1..t) \cup {t + 1}
    OBVIOUS
  <2> QED BY <1>5, <1>9, <2>1 DEF BuildInv, Built, Holds
<1>14. Ordered(e)
  <2>1. ASSUME NEW n \in DOMAIN b.chunks, NEW p \in Owned(b.chunks[n].parts) PROVE p < t + 1
    <3>1. p \in 1..t
      BY <2>1 DEF BuildInv, Built, Holds
    <3> QED BY <3>1
  <2> QED BY <1>5, <1>9, <2>1 DEF BuildInv, Built, Ordered
<1>15. Built(e, t + 1)
  BY <1>7, <1>9, <1>10, <1>11, <1>12, <1>13, <1>14, Zenon DEF BuildInv, Built
<1>16. Near(e)
  <2>1. Shows(q, b.path)
    <3>1. SUFFICES ASSUME b.path # <<>>
                   PROVE  \E i \in DOMAIN q : q[i].piece = b.path[Len(b.path)]
      BY DEF Shows
    <3>2. PICK i \in DOMAIN b.pending : b.pending[i].piece = b.path[Len(b.path)]
      BY <3>1 DEF Shows
    <3>3. i \in DOMAIN q /\ q[i] = b.pending[i]
      BY <1>1, <1>4
    <3> QED BY <3>2, <3>3
  <2> QED BY <1>4, <1>9, <2>1 DEF Near
<1> QED BY <1>9, <1>15, <1>16 DEF BuildInv

\* AddBlock keeps a chunk within the cap, or gives it one piece alone.
LEMMA BlockKeeps ==
    ASSUME pieces \in Seq(Pieces), NEW t \in Nat, t + 1 \in Numbers,
           pieces[t + 1].kind # "heading", NEW b, BuildInv(b, t)
    PROVE  BuildInv(AddBlock(b, t + 1), t + 1)
<1> DEFINE seeded == Seed(b)
           full == seeded.pending # <<>> /\ Weight(seeded.pending) + pieces[t + 1].tokens > MaxTokens
           room == IF full THEN Seed(EmitAndCarry(seeded)) ELSE seeded
           added == [room EXCEPT !.pending = Append(@, Own(t + 1))]
<1>1. BuildInv(seeded, t) /\ Shows(seeded.pending, seeded.path)
  BY SeedKeeps
<1> HIDE DEF seeded
<1>2. BuildInv(room, t) /\ Shows(room.pending, room.path)
  <2>1. CASE full
    <3>1. BuildInv(EmitAndCarry(seeded), t)
      BY <1>1, CarryKeeps
    <3>2. BuildInv(Seed(EmitAndCarry(seeded)), t)
          /\ Shows(Seed(EmitAndCarry(seeded)).pending, Seed(EmitAndCarry(seeded)).path)
      BY <3>1, SeedKeeps
    <3> QED BY <2>1, <3>2
  <2>2. CASE ~full
    BY <1>1, <2>2
  <2> QED BY <2>1, <2>2
<1>3. Weight(room.pending) + pieces[t + 1].tokens <= MaxTokens \/ Owned(room.pending) = {}
  <2>1. CASE full
    <3>1. BuildInv(EmitAndCarry(seeded), t) /\ EmitAndCarry(seeded).pending = <<>>
      BY <1>1, CarryKeeps
    <3>2. Owned(Seed(EmitAndCarry(seeded)).pending) = {}
      BY <3>1, SeedKeeps
    <3> QED BY <2>1, <3>2
  <2>2. CASE seeded.pending = <<>>
    BY <2>2 DEF Owned
  <2>3. CASE ~full /\ seeded.pending # <<>>
    <3>1. ~(Weight(seeded.pending) + pieces[t + 1].tokens > MaxTokens)
      BY <2>3
    <3>2. seeded.pending \in Seq(Parts)
      BY <1>1 DEF BuildInv, Built, Builds
    <3>3. Own(t + 1) \in Parts /\ Own(t + 1).piece = t + 1
      BY DEF Own, Parts, Numbers
    <3>4. Weight(seeded.pending) \in Nat
      BY <3>2, <3>3, WeightAdds
    <3>5. pieces[t + 1] \in Pieces
      BY DEF Numbers
    <3>6. pieces[t + 1].tokens \in Nat
      BY <3>5 DEF Pieces
    <3>7. Weight(seeded.pending) + pieces[t + 1].tokens <= MaxTokens
      BY <3>1, <3>4, <3>6, SizesAssumption
    <3> QED BY <2>3, <3>7
  <2> QED BY <2>1, <2>2, <2>3
<1> HIDE DEF room, full
<1>4. BuildInv(added, t + 1)
  BY <1>2, <1>3, JoinKeeps
<1>5. AddBlock(b, t + 1) = added \/ AddBlock(b, t + 1) = EmitAndCarry(added)
  BY Zenon DEF AddBlock, room, full, seeded
<1> HIDE DEF added
<1>6. BuildInv(EmitAndCarry(added), t + 1)
  BY <1>4, CarryKeeps
<1> QED BY <1>4, <1>5, <1>6

\* AddHeading begins a chunk under the headings above.
LEMMA HeadingKeeps ==
    ASSUME pieces \in Seq(Pieces), NEW t \in Nat, t + 1 \in Numbers,
           pieces[t + 1].kind = "heading", NEW b, BuildInv(b, t)
    PROVE  BuildInv(AddHeading(b, t + 1), t + 1)
<1> DEFINE x == Own(t + 1)
           l == LevelOf(t + 1)
           s == Above(b.path, l)
           p == Append(s, t + 1)
           e == AddHeading(b, t + 1)
<1>1. Built(Emit(b), t) /\ Emit(b).pending = <<>>
  BY EmitKeeps
<1>2. b.path \in Seq(Numbers) /\ Emit(b).chunks \in Seq(ChunkSet)
      /\ Rises(b.path) /\ {b.path[i] : i \in DOMAIN b.path} = Under(t)
  BY <1>1 DEF BuildInv, Built, Builds
<1>3. l \in Nat
  BY DEF LevelOf, Level
<1>4. x \in Parts /\ x.piece = t + 1 /\ ~x.seed
  BY DEF Own, Parts, Numbers
<1>5. /\ s \in Seq(Numbers) /\ Rises(s)
      /\ {s[i] : i \in DOMAIN s} = {h \in Under(t) : LevelOf(h) < l}
  <2> HIDE DEF l
  <2> QED BY <1>2, <1>3, AboveIs
<1>6. e = [chunks |-> Emit(b).chunks, path |-> p, pending |-> <<x>>, carry |-> <<>>]
  BY Zenon DEF AddHeading
<1> HIDE DEF x, s
<1>7. /\ p \in Seq(Numbers) /\ p # <<>> /\ DOMAIN p = 1..Len(s) + 1 /\ Len(p) = Len(s) + 1
      /\ \A i \in 1..Len(s) : p[i] = s[i]
      /\ p[Len(s) + 1] = t + 1
      /\ DOMAIN s = 1..Len(s) /\ Len(s) \in Nat
  BY <1>5, AppendProperties
<1> HIDE DEF p, e
<1>8. <<x>> \in Seq(Parts) /\ <<>> \in Seq(Parts)
  BY <1>4
<1>9. /\ e \in Builds /\ e.chunks = Emit(b).chunks
      /\ e.path = p /\ e.pending = <<x>> /\ e.carry = <<>>
  <2> HIDE DEF Parts, ChunkSet, Numbers
  <2> QED BY <1>2, <1>6, <1>7, <1>8 DEF Builds
<1>10. Owned(<<x>>) = {t + 1} /\ Ascends(<<x>>)
  BY <1>4 DEF Owned, Ascends
<1>11. Owned(<<>>) = {}
  BY DEF Owned
<1>12. {p[i] : i \in DOMAIN p} = Under(t + 1)
  <2>1. {p[i] : i \in DOMAIN p} = {s[i] : i \in DOMAIN s} \cup {t + 1}
    BY <1>7
  <2>2. Under(t + 1) = {h \in Under(t) : LevelOf(h) < l} \cup {t + 1}
    BY UnderNext
  <2> QED BY <1>5, <2>1, <2>2
<1>13. Rises(p)
  <2>1. \A i \in DOMAIN s : s[i] \in Nat /\ s[i] < t + 1
    <3>1. \A h \in Under(t) : h \in Nat /\ h <= t
      BY DEF Under, Headings
    <3>2. \A i \in DOMAIN s : s[i] \in Under(t)
      BY <1>5
    <3> QED BY <3>1, <3>2
  <2> QED BY <1>5, <1>7, <2>1 DEF Rises
<1>14. Filed(<<x>>, p) /\ Fits(<<x>>) /\ Shows(<<x>>, p)
  <2>1. Filed(<<x>>, p) /\ Fits(<<x>>)
    BY <1>10, <1>12 DEF Filed, Fits
  <2>2. 1 \in DOMAIN <<x>> /\ <<x>>[1].piece = p[Len(p)]
    BY <1>4, <1>7
  <2> QED BY <2>1, <2>2 DEF Shows
<1>15. Holds(e, t + 1)
  <2>1. 1..t + 1 = (1..t) \cup {t + 1}
    OBVIOUS
  <2> QED BY <1>1, <1>9, <1>10, <1>11, <2>1 DEF Built, Holds
<1>16. Ordered(e)
  <2>1. ASSUME NEW n \in DOMAIN Emit(b).chunks, NEW q \in Owned(Emit(b).chunks[n].parts)
        PROVE  q < t + 1
    <3>1. q \in 1..t
      BY <1>1, <2>1 DEF Built, Holds
    <3> QED BY <3>1
  <2> QED BY <1>1, <1>9, <1>10, <2>1 DEF Built, Ordered
<1>17. (\A n \in DOMAIN Emit(b).chunks : GoodChunk(Emit(b).chunks[n]))
       /\ \A i \in DOMAIN <<>> : <<>>[i].seed
  BY <1>1 DEF Built
<1>18. Built(e, t + 1)
  BY <1>9, <1>10, <1>12, <1>13, <1>14, <1>15, <1>16, <1>17, Zenon DEF Built
<1>19. Near(e)
  BY <1>9, <1>14 DEF Near
<1> QED BY <1>18, <1>19 DEF BuildInv, e

\* The definitions the invariant is made of know only lines and pieces.
LEMMA BuildStays ==
    ASSUME lines' = lines, pieces' = pieces, NEW b, NEW t, build' = b, taken' = t
    PROVE  /\ BuildInv(b, t) => BuildInv(build, taken)'
           /\ Built(b, t) => Built(build, taken)'
<1>1. \A s : Weight(s)' = Weight(s)
  BY DEF Weight, Size
<1>2. \A n : Under(n)' = Under(n)
  BY DEF Under, Headings, LevelOf
<1>3. Builds' = Builds
  BY DEF Builds, ChunkSet, Parts, Numbers
<1>4. \A s : Fits(s)' <=> Fits(s)
  BY <1>1 DEF Fits, Owned
<1>5. \A s, p : Filed(s, p)' <=> Filed(s, p)
  BY <1>2 DEF Filed, Owned
<1>6. \A c : GoodChunk(c)' <=> GoodChunk(c)
  BY <1>4, <1>5 DEF GoodChunk, Ascends, Shows, Rises
<1>7. Built(b, t) => Built(build, taken)'
  BY <1>2, <1>3, <1>4, <1>5, <1>6 DEF Built, Holds, Ordered, Ascends, Rises, Owned
<1>8. Near(b) => Near(build)'
  BY DEF Near, Shows
<1> QED BY <1>7, <1>8 DEF BuildInv

-----------------------------------------------------------------------------
(* Chunking: the theorem.                                                  *)

ChunkInv ==
    /\ ParseInv
    /\ stage = "reading" => at = 1 /\ word = 1 /\ blocks = <<>> /\ pieces = <<>>
    /\ stage \in {"reading", "parsing"} => taken = 0 /\ build = Nothing
    /\ stage \in {"chunking", "chunked"} =>
         at > Len(lines) /\ word = at /\ taken <= Len(pieces)
    /\ stage = "chunking" => BuildInv(build, taken)
    /\ stage = "chunked" => taken = Len(pieces) /\ Built(build, taken) /\ build.pending = <<>>

LEMMA ChunkInitial == ChunkInit => ChunkInv
<1> SUFFICES ASSUME ChunkInit PROVE ChunkInv
  OBVIOUS
<1>1. /\ stage = "reading" /\ lines = <<>> /\ at = 1 /\ word = 1 /\ blocks = <<>> /\ pieces = <<>>
      /\ taken = 0 /\ build = Nothing
  BY DEF ChunkInit
<1>2. ParseTypes
  BY <1>1 DEF ParseTypes
<1>3. ParseInv
  BY <1>1, <1>2, NothingFound DEF ParseInv, ParseTypes
<1> QED BY <1>1, <1>3 DEF ChunkInv

\* Nothing is built of no pieces.
LEMMA NothingBuilt ==
    ASSUME pieces \in Seq(Pieces)
    PROVE  BuildInv(Nothing, 0)
<1>1. Under(0) = {}
  <2>1. \A h \in Headings : h \in Nat /\ h >= 1
    BY DEF Headings
  <2> QED BY <2>1 DEF Under
<1>2. Owned(<<>>) = {} /\ Ascends(<<>>) /\ Rises(<<>>) /\ Shows(<<>>, <<>>)
  BY DEF Owned, Ascends, Rises, Shows
<1>3. Fits(<<>>) /\ Filed(<<>>, <<>>)
  BY <1>2 DEF Fits, Filed
<1>4. Nothing \in Builds
  BY DEF Nothing, Builds
<1>5. /\ Nothing.chunks = <<>> /\ Nothing.path = <<>>
      /\ Nothing.pending = <<>> /\ Nothing.carry = <<>>
  BY DEF Nothing
<1>6. Holds(Nothing, 0) /\ Ordered(Nothing)
  BY <1>2, <1>5 DEF Holds, Ordered
<1>7. Built(Nothing, 0)
  BY <1>1, <1>2, <1>3, <1>4, <1>5, <1>6 DEF Built
<1>8. Near(Nothing)
  BY <1>2, <1>5 DEF Near
<1> QED BY <1>7, <1>8 DEF BuildInv

LEMMA ChunkStep == ChunkInv /\ [ChunkNext]_chunking => ChunkInv'
<1> SUFFICES ASSUME ChunkInv, [ChunkNext]_chunking PROVE ChunkInv'
  OBVIOUS
<1>1. ParseInv /\ ParseTypes /\ lines \in Seq(Kinds) /\ pieces \in Seq(Pieces) /\ taken \in Nat
  BY DEF ChunkInv, ParseInv, ParseTypes
<1>2. ASSUME UNCHANGED <<lines, at, blocks, word, pieces>>, taken' \in Nat,
             stage' \in {"reading", "parsing", "chunking", "chunked"}
      PROVE  ParseInv'
  <2>1. ParseTypes'
    BY <1>1, <1>2 DEF ParseTypes
  <2>2. BlocksInv' /\ PiecesInv'
    BY <1>1, <1>2 DEF ParseInv, BlocksInv, PiecesInv, Covered, Span, Held, PartOf, SmallEnough, Opens
  <2>3. FencesInv'
    BY <1>1, <1>2 DEF ParseInv, FencesInv, FencesRight, Span, Closing
  <2> QED BY <2>1, <2>2, <2>3 DEF ParseInv
<1>3. ASSUME stage = "reading", lines' \in Seq(Kinds),
             UNCHANGED <<at, blocks, word, pieces, taken, build>>,
             stage' \in {"reading", "parsing"}
      PROVE  ChunkInv'
  <2>1. at = 1 /\ word = 1 /\ blocks = <<>> /\ pieces = <<>> /\ taken = 0 /\ build = Nothing
    BY <1>3 DEF ChunkInv
  <2>2. ParseTypes'
    BY <1>1, <1>3, <2>1 DEF ParseTypes
  <2>3. BlocksInv' /\ FencesInv' /\ PiecesInv'
    BY <1>3, <2>1 DEF BlocksInv, FencesInv, PiecesInv, Covered
  <2> QED BY <1>3, <2>1, <2>2, <2>3 DEF ChunkInv, ParseInv
<1>4. ASSUME NEW k \in Kinds, ReadLine(k) PROVE ChunkInv'
  <2>1. lines' = lines \/ lines' = Append(lines, k)
    BY <1>4 DEF ReadLine
  <2>2. lines' \in Seq(Kinds)
    BY <1>1, <2>1, AppendProperties
  <2> QED BY <1>3, <1>4, <2>2 DEF ReadLine
<1>5. CASE EndText
  <2>1. (lines' = lines) \/ (lines # <<>> /\ lines' = SubSeq(lines, 1, Len(lines) - 1))
    BY <1>5 DEF EndText, Front
  <2>2. lines' \in Seq(Kinds)
    BY <1>1, <2>1
  <2> QED BY <1>3, <1>5, <2>2 DEF EndText
<1>6. CASE SkipBlank
  <2>1. ParseInv'
    BY <1>1, <1>6, SkipKeeps
  <2> QED BY <1>6, <2>1 DEF SkipBlank, ChunkInv
<1>7. CASE FindBlock
  <2>1. ParseInv'
    BY <1>1, <1>7, FindKeeps
  <2> QED BY <1>7, <2>1 DEF FindBlock, ChunkInv
<1>12. CASE Expand
  <2>1. ParseInv'
    BY <1>1, <1>12, ExpandKeeps
  <2> QED BY <1>12, <2>1 DEF Expand, ChunkInv
<1>8. CASE Parsed
  <2>1. ParseInv'
    BY <1>1, <1>2, <1>8 DEF Parsed
  <2>2. taken = 0 /\ build = Nothing /\ at > Len(lines) /\ word = at
        /\ UNCHANGED <<lines, at, blocks, word, pieces, taken, build>> /\ stage' = "chunking"
    BY <1>8 DEF Parsed, ChunkInv
  <2>3. BuildInv(build, taken)'
    <3>1. build' = Nothing /\ taken' = 0
      BY <2>2
    <3> QED BY <1>1, <2>2, <3>1, NothingBuilt, BuildStays
  <2>4. taken' <= Len(pieces')
    BY <1>1, <2>2
  <2> QED BY <2>1, <2>2, <2>3, <2>4 DEF ChunkInv
<1>9. CASE TakePiece
  <2>1. /\ stage = "chunking" /\ stage' = stage /\ taken < Len(pieces) /\ taken' = taken + 1
        /\ UNCHANGED <<lines, at, blocks, word, pieces>>
        /\ BuildInv(build, taken) /\ at > Len(lines) /\ word = at
    BY <1>9 DEF TakePiece, ChunkInv
  <2>2. ParseInv'
    BY <1>1, <1>2, <2>1
  <2>3. taken + 1 \in Numbers
    BY <1>1, <2>1 DEF Numbers
  <2>4. PICK b : b = build'
    OBVIOUS
  <2>5. BuildInv(b, taken + 1)
    <3>1. CASE pieces[taken + 1].kind = "heading"
      <4>1. b = AddHeading(build, taken + 1)
        BY <1>9, <2>4, <3>1 DEF TakePiece
      <4> QED BY <1>1, <2>1, <2>3, <3>1, <4>1, HeadingKeeps
    <3>2. CASE pieces[taken + 1].kind # "heading"
      <4>1. b = AddBlock(build, taken + 1)
        BY <1>9, <2>4, <3>2 DEF TakePiece
      <4> QED BY <1>1, <2>1, <2>3, <3>2, <4>1, BlockKeeps
    <3> QED BY <3>1, <3>2
  <2>6. BuildInv(build, taken)'
    BY <2>1, <2>4, <2>5, BuildStays
  <2>7. taken' <= Len(pieces') /\ at' > Len(lines') /\ word' = at'
    BY <1>1, <2>1
  <2> QED BY <2>1, <2>2, <2>6, <2>7 DEF ChunkInv
<1>10. CASE EndChunks
  <2>1. /\ stage = "chunking" /\ stage' = "chunked" /\ taken = Len(pieces)
        /\ UNCHANGED <<lines, at, blocks, word, pieces, taken>> /\ build' = Emit(build)
        /\ BuildInv(build, taken) /\ at > Len(lines) /\ word = at
    BY <1>10 DEF EndChunks, ChunkInv
  <2>2. ParseInv'
    BY <1>1, <1>2, <2>1
  <2>3. PICK b : b = build'
    OBVIOUS
  <2>4. Built(b, taken) /\ b.pending = <<>>
    BY <1>1, <2>1, <2>3, EmitKeeps
  <2>5. Built(build, taken)'
    BY <2>1, <2>3, <2>4, BuildStays
  <2>6. taken' = Len(pieces') /\ at' > Len(lines') /\ word' = at' /\ build'.pending = <<>>
    BY <1>1, <2>1, <2>3, <2>4
  <2> QED BY <1>1, <2>1, <2>2, <2>5, <2>6 DEF ChunkInv
<1>11. CASE UNCHANGED chunking
  <2>1. UNCHANGED <<stage, lines, at, blocks, word, pieces, taken, build>>
    BY <1>11 DEF chunking
  <2>2. ParseInv'
    BY <1>1, <1>2, <2>1 DEF ParseTypes
  <2>3. PICK b, t : b = build /\ t = taken
    OBVIOUS
  <2>4. /\ BuildInv(build, taken) => BuildInv(build, taken)'
        /\ Built(build, taken) => Built(build, taken)'
    BY <2>1, <2>3, BuildStays
  <2> QED BY <2>1, <2>2, <2>4 DEF ChunkInv
<1> QED BY <1>4, <1>5, <1>6, <1>7, <1>8, <1>9, <1>10, <1>11, <1>12 DEF ChunkNext

LEMMA ChunkInvIsRight == ChunkInv => ChunksRight
<1> SUFFICES ASSUME ChunkInv PROVE ChunksRight
  OBVIOUS
<1>1. ASSUME stage = "chunking" PROVE BlocksPartition /\ PiecesFaithful
  BY <1>1, ParseIsRight DEF ChunkInv
<1>2. ASSUME stage = "chunked" PROVE ChunksFaithful
  <2>1. Built(build, Len(pieces)) /\ build.pending = <<>> /\ pieces \in Seq(Pieces)
    BY <1>2 DEF ChunkInv, ParseInv, ParseTypes
  <2> DEFINE made == build.chunks
  <2>2. made \in Seq(ChunkSet) /\ DOMAIN made = 1..Len(made) /\ Len(made) \in Nat
    BY <2>1 DEF Built, Builds
  <2>3. ToSet(made) = {made[n] : n \in DOMAIN made}
    BY DEF ToSet
  <2> HIDE DEF made
  <2>4. \A c : Body(c) = Owned(c.parts)
    BY DEF Body, Owned, ToSet
  <2>5. DOMAIN pieces = 1..Len(pieces) /\ Owned(<<>>) = {}
    BY <2>1 DEF Owned
  <2>6. UNION {Body(c) : c \in ToSet(made)} = DOMAIN pieces
    BY <2>1, <2>3, <2>4, <2>5 DEF Built, Holds, made
  <2>7. \A m, n \in DOMAIN made : m < n =>
          \A p \in Body(made[m]), q \in Body(made[n]) : p < q
    BY <2>1, <2>4 DEF Built, Ordered, made
  <2>8. ASSUME NEW c \in ToSet(made)
        PROVE  /\ \A i, j \in DOMAIN c.parts :
                    i < j /\ ~c.parts[i].seed /\ ~c.parts[j].seed => c.parts[i].piece < c.parts[j].piece
               /\ \A n \in Body(c) : ToSet(c.path) = Under(n)
               /\ \A i, j \in DOMAIN c.path : i < j => c.path[i] < c.path[j]
               /\ c.path # <<>> => \E p \in ToSet(c.parts) : p.piece = Last(c.path)
               /\ Weight(c.parts) > MaxTokens => \A p, q \in Body(c) : p = q
    <3>1. GoodChunk(c)
      BY <2>1, <2>3 DEF Built, made
    <3>2. ToSet(c.path) = {c.path[i] : i \in DOMAIN c.path}
          /\ ToSet(c.parts) = {c.parts[i] : i \in DOMAIN c.parts}
      BY DEF ToSet
    <3> QED BY <2>4, <3>1, <3>2 DEF GoodChunk, Ascends, Fits, Shows, Filed, Rises, Last
  <2> QED BY <2>6, <2>7, <2>8 DEF ChunksFaithful, made
<1> QED BY <1>1, <1>2 DEF ChunksRight

\* For every document, of any length, and any sizes: parse_blocks partitions it
\* into blocks, and chunk_document keeps each of their pieces once, in order,
\* under its headings, and within the cap or alone.
THEOREM ChunkingIsFaithful == ChunkSpec => []ChunksRight
<1>1. ChunkSpec => []ChunkInv
  BY ChunkInitial, ChunkStep, PTL DEF ChunkSpec
<1> QED BY <1>1, ChunkInvIsRight, PTL

\* A step of the parse: a line further, or a word further in the last block.
Onward ==
    /\ (at < at' /\ word <= word') \/ (at = at' /\ word < word')
    /\ word' <= at' /\ at' <= Len(lines) + 1

\* For every document parse_blocks comes to its end: a block has at least the
\* line it was found at, a piece the word it begins with, none reaches past the
\* last line, and chunk_document takes each piece once.
THEOREM ChunkingGoesOn ==
    ChunkSpec => [][/\ stage = "parsing" => stage' = "chunking" \/ Onward
                    /\ stage = "chunking" => stage' = "chunked" \/ (taken < taken' /\ taken' <= Len(pieces))
                    /\ stage' # stage =>
                          <<stage, stage'>> \in {<<"reading", "parsing">>, <<"parsing", "chunking">>,
                                                 <<"chunking", "chunked">>}]_chunking
<1> DEFINE On == /\ stage = "parsing" => stage' = "chunking" \/ Onward
                 /\ stage = "chunking" => stage' = "chunked" \/ (taken < taken' /\ taken' <= Len(pieces))
                 /\ stage' # stage =>
                      <<stage, stage'>> \in {<<"reading", "parsing">>, <<"parsing", "chunking">>,
                                             <<"chunking", "chunked">>}
<1>1. ASSUME ChunkInv, ChunkNext PROVE On
  <2>1. lines \in Seq(Kinds) /\ at \in Nat \ {0} /\ pieces \in Seq(Pieces) /\ taken \in Nat
    BY <1>1 DEF ChunkInv, ParseInv, ParseTypes
  <2>2. CASE FindBlock
    <3>1. at \in 1..Len(lines)
      BY <2>1, <2>2 DEF FindBlock
    <3>2. BlockEnd(at) \in at..Len(lines)
      BY <2>1, <3>1, BlockEnds
    <3> QED BY <2>1, <2>2, <3>2 DEF FindBlock, Onward
  <2>3. CASE SkipBlank \/ TakePiece
    BY <2>1, <2>3 DEF SkipBlank, TakePiece, Onward
  <2>5. CASE Expand
    <3>1. ParseInv' /\ ParseInv
      BY <1>1, <2>5, ExpandKeeps DEF ChunkInv
    <3>2. at' = at /\ word' <= at' /\ at \in Nat /\ at <= Len(lines) + 1 /\ stage' = stage
          /\ stage = "parsing"
      BY <2>5, <3>1 DEF Expand, ParseInv, ParseTypes
    <3>3. word < word'
      <4> DEFINE b == blocks[Len(blocks)]
      <4>1. /\ word < at /\ word' = PieceEnd(b, word) + 1 /\ word \in Nat
            /\ blocks \in Seq(Blocks) /\ lines \in Seq(Kinds)
        BY <2>5, <3>1 DEF Expand, Last, ParseInv, ParseTypes
      <4>2. blocks # <<>> /\ Opens(b)
        BY <3>1, <4>1 DEF ParseInv, PiecesInv
      <4>3. b \in Blocks
        <5>1. Len(blocks) \in DOMAIN blocks
          BY <4>1, <4>2
        <5> QED BY <4>1, <5>1
      <4> HIDE DEF b
      <4>4. b.last \in Nat /\ word <= b.last
        BY <4>1, <4>2, <4>3 DEF Opens, Blocks
      <4>5. PieceEnd(b, word) \in word..b.last
        BY <4>1, <4>2, <4>3, <4>4, PieceIs DEF Opens
      <4> QED BY <4>1, <4>4, <4>5
    <3> QED BY <3>2, <3>3 DEF Onward
  <2>4. CASE EndText \/ Parsed \/ EndChunks \/ \E k \in Kinds : ReadLine(k)
    BY <2>4 DEF EndText, Parsed, EndChunks, ReadLine
  <2> QED BY <1>1, <2>2, <2>3, <2>4, <2>5 DEF ChunkNext
<1>2. ChunkSpec => []ChunkInv
  BY ChunkInitial, ChunkStep, PTL DEF ChunkSpec
<1> QED BY <1>1, <1>2, PTL DEF ChunkSpec
=============================================================================
