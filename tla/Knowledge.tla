---------------------------- MODULE Knowledge ----------------------------
(***************************************************************************)
(* The knowledge store: immutable snapshot files, the tables of            *)
(* knowledge.sqlite3 and the processes that fill them (`knowledge ingest`  *)
(* and `knowledge index`, knowledge_ingest.py and knowledge_store.py).     *)
(* The connection commits every statement by itself, and the snapshot      *)
(* files lie outside the database: each statement and each file operation  *)
(* is a step, at any of which the process may be lost.                     *)
(*                                                                         *)
(* A document is a sequence of passages; a passage stands for one chunk    *)
(* (Chunking.tla models how they are cut).  Hashes are taken to be         *)
(* injective, so a content stands for its own hash.                        *)
(***************************************************************************)
EXTENDS Naturals, Sequences, FiniteSets, SequencesExt

CONSTANTS Ingesters, \* processes that run `knowledge ingest`
          Indexers,  \* processes that run `knowledge index`
          Sources,   \* the registered sources, named by their kind
          Raws,      \* contents a document may have
          GitPaths,  \* the paths of the git source, pinned at one revision
          Pinned,    \* [path |-> content] at that revision
          Revisions, \* revisions of the embedding model
          None,      \* no content, no index, no process
          MaxRuns, MaxEdits, MaxCrashes \* bounds on commands, edits and losses

ASSUME KnowledgeAssumption ==
    /\ Sources \subseteq {"markdown", "html", "git"}
    /\ GitPaths \in Seq(DOMAIN Pinned) /\ GitPaths # <<>> \* paths: min_length=1
    /\ \A p \in DOMAIN Pinned : Pinned[p] \in Raws
    /\ None \notin Revisions
    /\ MaxRuns \in Nat /\ MaxEdits \in Nat /\ MaxCrashes \in Nat

VARIABLES
    page,      \* what the tracked file and the web page hold now
    extractor, \* is trafilatura installed?
    enabled,   \* the sources the tracked registry enables
    files,     \* the snapshot files: content, "partial" or absent
    snapshots, \* rows of the table snapshots by <<source, content>>
    chunks,    \* the snapshot of each row of the table chunks, by chunk id
    fts,       \* how many rows chunks_fts holds for a chunk id
    vectors,   \* <<chunk id, revision>> of the rows of embeddings
    index,     \* the row of index_state, with the chunks it was made for
    ing,       \* where each ingester is
    idx,       \* where each indexer is
    budget,    \* commands, edits and losses so far
    stored,    \* history: <<source, content, version>> stored to the end,
    orphans    \* and the chunks a lost ingester had not yet indexed

world == <<page, extractor, enabled>>
tables == <<snapshots, chunks, fts>>
history == <<stored, orphans>>
vars == <<world, files, tables, vectors, index, ing, idx, budget, history>>

Partial == <<"partial">>
Away == [pc |-> "away"]

----------------------------------------------------------------------------
(* What is read and derived.                                               *)

\* _extract_html: without trafilatura a page keeps its navigation.
Normalized(s, raw, main) == IF s = "html" /\ ~main THEN Append(raw, "nav") ELSE raw

\* stable_chunk_id, with the heading path as part of the passage.
ChunkId(s, version, passage) == <<s, version, passage>>
ChunkIds(s, version, text) == {ChunkId(s, version, t) : t \in ToSet(text)}

File(p, kind) == <<ing[p].source, ing[p].raw, kind>>
Data(p, kind) == IF kind = "raw" THEN ing[p].raw ELSE ing[p].text
FileOf(f) == IF f \in DOMAIN files THEN files[f] ELSE None

\* the snapshot an ingester works on, and the chunk it comes to next
Key(p) == <<ing[p].source, ing[p].raw>>
NextId(p) == ChunkId(ing[p].source, ing[p].version, Head(ing[p].text))

\* A document is a sequence, and what a file holds of one while it is written
\* is never taken for a document.
ASSUME RawsAssumption ==
    /\ \A raw \in Raws : raw \in Seq(ToSet(raw))
    /\ {Partial, None} \cap {Normalized(s, raw, main) : s \in Sources, raw \in Raws, main \in BOOLEAN} = {}
    /\ {Partial, None} \cap Raws = {} /\ Partial # None

----------------------------------------------------------------------------
(* An ingester: ingest_source, _dispatch and _persist_document.            *)

Spend(what, limit) == budget[what] < limit /\ budget' = [budget EXCEPT ![what] = @ + 1]
Goto(p, pc) == ing' = [ing EXCEPT ![p].pc = pc]
Quit(p) == ing' = [ing EXCEPT ![p] = Away]

Reading(s, paths) == [pc |-> "read", source |-> s, paths |-> paths]

\* The registry is loaded; upsert_source records what it says of the source.
Open(p, s) ==
    /\ ing[p] = Away /\ s \in enabled
    /\ Spend("runs", MaxRuns)
    /\ ing' = [ing EXCEPT ![p] = Reading(s, IF s = "git" THEN GitPaths ELSE <<"">>)]
    /\ UNCHANGED <<world, files, tables, vectors, index, idx, history>>

\* The bytes arrive: read_bytes, the response of the server, or `git show`.
Got(p, raw, version, pc) ==
    ing' = [ing EXCEPT ![p] =
               [pc |-> pc, source |-> ing[p].source, paths |-> ing[p].paths, raw |-> raw,
                version |-> version, text |-> Normalized(ing[p].source, raw, extractor)]]

Read(p) ==
    /\ ing[p].pc = "read"
    /\ LET s == ing[p].source IN
       CASE s = "markdown" -> Got(p, page[s], None, "hash")
         [] s = "html"     -> Got(p, page[s], page[s], "find")
         [] s = "git"      -> Got(p, Pinned[Head(ing[p].paths)], <<Head(ing[p].paths)>>, "find")
    /\ UNCHANGED <<world, files, tables, vectors, index, idx, budget, history>>

\* The page cannot be fetched, the file is not tracked, the clone fails; the
\* files of a git source are all read before the first is stored.
ReadFails(p) ==
    /\ ing[p].pc = "read"
    /\ ing[p].source = "git" => ing[p].paths = GitPaths
    /\ Quit(p)
    /\ UNCHANGED <<world, files, tables, vectors, index, idx, budget, history>>

\* `git hash-object` names the file as it is by now.
HashBlob(p) ==
    /\ ing[p].pc = "hash"
    /\ ing' = [ing EXCEPT ![p].version = page["markdown"], ![p].pc = "find"]
    /\ UNCHANGED <<world, files, tables, vectors, index, idx, budget, history>>

\* A document is done: the next path of the source, or the end.
Proceed(p) ==
    IF Len(ing[p].paths) > 1
    THEN ing' = [ing EXCEPT ![p] = Reading(ing[p].source, Tail(ing[p].paths))]
    ELSE Quit(p)

\* find_snapshot: known content is skipped.
Find(p) ==
    /\ ing[p].pc = "find"
    /\ IF Key(p) \in DOMAIN snapshots THEN Proceed(p) ELSE Goto(p, "raw")
    /\ UNCHANGED <<world, files, tables, vectors, index, idx, budget, history>>

\* before open("xb"), before the bytes are written, and after
Opening(kind) == IF kind = "raw" THEN "raw-open" ELSE "md-open"
Filling(kind) == IF kind = "raw" THEN "raw-fill" ELSE "md-fill"
After(kind) == IF kind = "raw" THEN "md" ELSE "row"

\* Faulty variant: an existing file is taken for the one to be written
CompareLoosely(p, kind) ==
    /\ ing[p].pc = kind
    /\ \/ FileOf(File(p, kind)) = None /\ Goto(p, Opening(kind))
       \/ FileOf(File(p, kind)) # None /\ Goto(p, After(kind))
    /\ UNCHANGED <<world, files, tables, vectors, index, idx, budget, history>>

\* _write_immutable: an existing file must hold the same bytes ...
Compare(p, kind) ==
    /\ ing[p].pc = kind
    /\ \/ FileOf(File(p, kind)) = None /\ Goto(p, Opening(kind))
       \/ FileOf(File(p, kind)) = Data(p, kind) /\ Goto(p, After(kind))
       \/ FileOf(File(p, kind)) \notin {None, Data(p, kind)} /\ Quit(p) \* refused to overwrite
    /\ UNCHANGED <<world, files, tables, vectors, index, idx, budget, history>>

\* ... and a new one is created by open("xb"), empty as yet.
Create(p, kind) ==
    /\ ing[p].pc = Opening(kind)
    /\ IF FileOf(File(p, kind)) = None
       THEN /\ files' = [f \in DOMAIN files \cup {File(p, kind)} |->
                            IF f = File(p, kind) THEN Partial ELSE files[f]]
            /\ Goto(p, Filling(kind))
       ELSE Quit(p) /\ UNCHANGED files \* FileExistsError
    /\ UNCHANGED <<world, tables, vectors, index, idx, budget, history>>

Fill(p, kind) ==
    /\ ing[p].pc = Filling(kind)
    /\ files' = [files EXCEPT ![File(p, kind)] = Data(p, kind)]
    /\ Goto(p, After(kind))
    /\ UNCHANGED <<world, tables, vectors, index, idx, budget, history>>

\* insert_snapshot ignores a row that exists; the chunks follow either way.
InsertSnapshot(p) ==
    /\ ing[p].pc = "row"
    /\ snapshots' = IF Key(p) \in DOMAIN snapshots THEN snapshots
                    ELSE [k \in DOMAIN snapshots \cup {Key(p)} |->
                             IF k = Key(p) THEN [version |-> ing[p].version, text |-> ing[p].text]
                             ELSE snapshots[k]]
    /\ Goto(p, "chunk")
    /\ UNCHANGED <<world, files, chunks, fts, vectors, index, idx, budget, history>>

\* Faulty variant: the full-text row is inserted without asking whether the chunk was new
InsertChunkAnyway(p) ==
    /\ ing[p].pc = "chunk" /\ ing[p].text # <<>>
    /\ LET id == NextId(p) IN
       chunks' = [c \in DOMAIN chunks \cup {id} |-> IF c \in DOMAIN chunks THEN chunks[c] ELSE Key(p)]
    /\ Goto(p, "fts")
    /\ UNCHANGED <<world, files, snapshots, fts, vectors, index, idx, budget, history>>

\* insert_chunks: one statement for the chunk, another for the full-text index.
InsertChunk(p) ==
    /\ ing[p].pc = "chunk" /\ ing[p].text # <<>>
    /\ LET id == NextId(p) IN
       IF id \in DOMAIN chunks
       THEN UNCHANGED chunks /\ ing' = [ing EXCEPT ![p].text = Tail(@)]
       ELSE /\ chunks' = [c \in DOMAIN chunks \cup {id} |->
                             IF c = id THEN Key(p) ELSE chunks[c]]
            /\ Goto(p, "fts")
    /\ UNCHANGED <<world, files, snapshots, fts, vectors, index, idx, budget, history>>

InsertFts(p) ==
    /\ ing[p].pc = "fts"
    /\ LET id == NextId(p) IN
       fts' = [c \in DOMAIN fts \cup {id} |->
                  (IF c \in DOMAIN fts THEN fts[c] ELSE 0) + (IF c = id THEN 1 ELSE 0)]
    /\ ing' = [ing EXCEPT ![p].text = Tail(@), ![p].pc = "chunk"]
    /\ UNCHANGED <<world, files, snapshots, chunks, vectors, index, idx, budget, history>>

EndDocument(p) ==
    /\ ing[p].pc = "chunk" /\ ing[p].text = <<>>
    /\ Proceed(p)
    /\ stored' = stored \cup {<<ing[p].source, ing[p].raw, ing[p].version>>}
    /\ UNCHANGED <<world, files, tables, vectors, index, idx, budget, orphans>>

Ingest(p) ==
    \/ \E s \in Sources : Open(p, s)
    \/ Read(p) \/ ReadFails(p) \/ HashBlob(p) \/ Find(p)
    \/ \E kind \in {"raw", "md"} : Compare(p, kind) \/ Create(p, kind) \/ Fill(p, kind)
    \/ InsertSnapshot(p) \/ InsertChunk(p) \/ InsertFts(p) \/ EndDocument(p)

----------------------------------------------------------------------------
(* An indexer: index_embeddings.                                           *)

\* Faulty variant: a vector of any revision of the model is taken for current
ListChunksOfAnyRevision(q, rev) ==
    /\ idx[q] = Away /\ Spend("runs", MaxRuns)
    /\ idx' = [idx EXCEPT ![q] =
                  [pc |-> "embed", rev |-> rev, seen |-> DOMAIN chunks,
                   todo |-> {c \in DOMAIN chunks : \A r \in Revisions : <<c, r>> \notin vectors}]]
    /\ UNCHANGED <<world, files, tables, vectors, index, ing, history>>

\* all_chunks; the time the index is dated with was taken before.
ListChunks(q, rev) ==
    /\ idx[q] = Away /\ Spend("runs", MaxRuns)
    /\ idx' = [idx EXCEPT ![q] = [pc |-> "embed", rev |-> rev, seen |-> DOMAIN chunks,
                                  todo |-> {c \in DOMAIN chunks : <<c, rev>> \notin vectors}]]
    /\ UNCHANGED <<world, files, tables, vectors, index, ing, history>>

\* One row of store_embeddings.
Embed(q) ==
    /\ idx[q].pc = "embed"
    /\ \E c \in idx[q].todo :
         /\ vectors' = vectors \cup {<<c, idx[q].rev>>}
         /\ idx' = [idx EXCEPT ![q].todo = @ \ {c}]
    /\ UNCHANGED <<world, files, tables, index, ing, budget, history>>

\* set_index_state, the row `knowledge search` loads its model by.
SetIndex(q) ==
    /\ idx[q].pc = "embed" /\ idx[q].todo = {}
    /\ index' = [rev |-> idx[q].rev, seen |-> idx[q].seen]
    /\ idx' = [idx EXCEPT ![q] = Away]
    /\ UNCHANGED <<world, files, tables, vectors, ing, budget, history>>

IndexStep(q) == (\E rev \in Revisions : ListChunks(q, rev)) \/ Embed(q) \/ SetIndex(q)

----------------------------------------------------------------------------
(* The world: edits, a changed installation, lost processes.               *)

Edit ==
    /\ Spend("edits", MaxEdits)
    /\ \/ \E s \in DOMAIN page, raw \in Raws : page' = [page EXCEPT ![s] = raw]
                                               /\ UNCHANGED <<extractor, enabled>>
       \/ extractor' = ~extractor /\ UNCHANGED <<page, enabled>>
       \/ \E s \in enabled : enabled' = enabled \ {s} /\ UNCHANGED <<page, extractor>>
    /\ UNCHANGED <<files, tables, vectors, index, ing, idx, history>>

LoseIngester(p) ==
    /\ ing[p] # Away
    /\ Spend("crashes", MaxCrashes)
    /\ orphans' = IF ing[p].pc = "fts" THEN orphans \cup {NextId(p)} ELSE orphans
    /\ Quit(p)
    /\ UNCHANGED <<world, files, tables, vectors, index, idx, stored>>

LoseIndexer(q) ==
    /\ idx[q] # Away
    /\ Spend("crashes", MaxCrashes)
    /\ idx' = [idx EXCEPT ![q] = Away]
    /\ UNCHANGED <<world, files, tables, vectors, index, ing, history>>

Empty == [x \in {} |-> None]

Init ==
    /\ page \in [Sources \ {"git"} -> Raws]
    /\ extractor \in BOOLEAN
    /\ enabled = Sources
    /\ files = Empty /\ snapshots = Empty /\ chunks = Empty /\ fts = Empty
    /\ vectors = {} /\ index = [rev |-> None, seen |-> {}]
    /\ ing = [p \in Ingesters |-> Away]
    /\ idx = [q \in Indexers |-> Away]
    /\ budget = [runs |-> 0, edits |-> 0, crashes |-> 0]
    /\ stored = {} /\ orphans = {}

Next ==
    \/ \E p \in Ingesters : Ingest(p) \/ LoseIngester(p)
    \/ \E q \in Indexers : IndexStep(q) \/ LoseIndexer(q)
    \/ Edit

Spec == Init /\ [][Next]_vars
----------------------------------------------------------------------------
(* Properties.                                                             *)

\* Whatever ingesters meet, with whichever extractor, and wherever they are
\* lost: a snapshot's files are whole, hold its content, and its Markdown is
\* the text its row was hashed from (_write_immutable before insert_snapshot).
SnapshotsIntact ==
    \A k \in DOMAIN snapshots :
        /\ FileOf(<<k[1], k[2], "raw">>) = k[2]
        /\ FileOf(<<k[1], k[2], "md">>) = snapshots[k].text

\* p is between the two statements that store chunk c (insert_chunks).
Between(p, c) == ing[p].pc = "fts" /\ NextId(p) = c

\* An ingestion that ran to its end has left a chunk of each of its passages,
\* under the version it read, whichever ingester stored it first; and lexical
\* search finds every chunk exactly once, however many ingesters and documents
\* share it.  Two kinds of chunk are not in the full-text index: one between
\* its two statements, and, for good, one whose ingester was lost there, for
\* whoever meets that chunk later, too, takes it for stored and goes on.
PassagesFound ==
    /\ \A d \in stored :
          LET k == <<d[1], d[2]>> IN
          k \in DOMAIN snapshots /\ ChunkIds(d[1], d[3], snapshots[k].text) \subseteq DOMAIN chunks
    /\ \A c \in DOMAIN chunks \cup DOMAIN fts :
          IF c \in DOMAIN fts THEN fts[c] = 1
          ELSE c \in orphans \/ \E p \in Ingesters : Between(p, c)

\* The model named by index_state has a vector for every chunk that existed
\* when its indexing began, so semantic search is never silently partial.
IndexCovers == index.seen \X {index.rev} \subseteq vectors

============================================================================
