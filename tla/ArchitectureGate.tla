-------------------------- MODULE ArchitectureGate --------------------------
(***************************************************************************)
(* Evidence of the repository and the gate that trusts it: `context        *)
(* inspect` (context.py) stores what the tracked files say under a hash of *)
(* it, and `architecture validate` (architecture_gate.py, charter.py)      *)
(* accepts a planning dossier that cites it.  Neither locks the checkout:  *)
(* HEAD, the charter, the list of files and each file are read one after   *)
(* the other while the user edits, commits and checks out.                 *)
(*                                                                         *)
(* Paths are numbers, in lexical order.  A file gives one item of evidence *)
(* that holds a digest of its content; hashes are injective, so a context  *)
(* stands for its own identifier.                                          *)
(***************************************************************************)
EXTENDS Naturals, Sequences, FiniteSets, SequencesExt

CONSTANTS Inspectors,  \* processes that run `context inspect`
          Gates,       \* processes that run `architecture validate`
          Paths,       \* safe paths of the repository
          Notable,     \* those whose kind makes them evidence unselected
          Contents,    \* what a file may hold
          Charters,    \* valid charters
          None,        \* no such tracked, readable file; no valid charter
          MaxEvidence, \* MAX_EVIDENCE_ITEMS
          MaxContexts, \* bound: an inspection begins with fewer stored, and no more begun
          MaxChanges   \* bound: changes of the checkout

ASSUME GateAssumption ==
    /\ Inspectors \cap Gates = {}
    /\ Paths \subseteq Nat /\ Notable \subseteq Paths
    /\ None \notin Contents \cup Charters
    /\ MaxEvidence \in Nat \ {0} /\ MaxContexts \in Nat /\ MaxChanges \in Nat

VARIABLES
    past,    \* the checkouts there have been; the last is the present one
    whole,   \* contexts whose file is complete
    partial, \* contexts whose file was begun
    at       \* where each process is, with what it has read

vars == <<past, whole, partial, at>>

Now == Last(past)
Away == [pc |-> "away"]
Items == Paths \X Contents

----------------------------------------------------------------------------
(* inspect_context, run by inspectors and gates alike.                     *)

\* Selected files come first, the others of a notable kind after them.
Ordered(selected, tracked) ==
    SetToSortSeq(selected, <) \o SetToSortSeq((tracked \cap Notable) \ selected, <)

ReadBase(p) ==
    /\ at[p].pc = "base"
    /\ at' = [at EXCEPT ![p].pc = "list", ![p].base = Now.head]
    /\ UNCHANGED <<past, whole, partial>>

\* A selected path that is not tracked, or not readable, is an error.
ListFiles(p) ==
    /\ at[p].pc = "list"
    /\ LET tracked == {q \in Paths : Now.files[q] # None} IN
       at' = IF at[p].selected \subseteq tracked
             THEN [at EXCEPT ![p].pc = "file", ![p].count = Cardinality(tracked),
                             ![p].todo = Ordered(at[p].selected, tracked)]
             ELSE [at EXCEPT ![p] = Away]
    /\ UNCHANGED <<past, whole, partial>>

\* A file that has gone since is left out; the first that exceeds the limit
\* ends the inspection.
ReadFile(p) ==
    /\ at[p].pc = "file" /\ at[p].todo # <<>>
    /\ LET path == Head(at[p].todo) IN
       at' = IF Now.files[path] = None THEN [at EXCEPT ![p].todo = Tail(@)]
             ELSE IF Len(at[p].evidence) >= MaxEvidence
             THEN [at EXCEPT ![p].todo = <<>>, ![p].truncated = TRUE]
             ELSE [at EXCEPT ![p].todo = Tail(@),
                             ![p].evidence = Append(@, <<path, Now.files[path]>>)]
    /\ UNCHANGED <<past, whole, partial>>

Inspected(p) == at[p].pc = "file" /\ at[p].todo = <<>>

\* the context, which is its own context_id
Context(p) == [base |-> at[p].base, selected |-> at[p].selected, count |-> at[p].count,
               truncated |-> at[p].truncated, evidence |-> at[p].evidence]

\* Before an inspection nothing is read.
Unread(selected) == [pc |-> "base", selected |-> selected, base |-> 0, count |-> 0, todo |-> <<>>,
                     truncated |-> FALSE, evidence |-> <<>>]

----------------------------------------------------------------------------
(* An inspector.                                                           *)

Inspect(i, selected) ==
    /\ at[i] = Away /\ Cardinality(whole) < MaxContexts /\ Cardinality(partial) <= MaxContexts
    /\ at' = [at EXCEPT ![i] = Unread(selected)]
    /\ UNCHANGED <<past, whole, partial>>

\* persist_context: a stored context is left as it is, and is an error unless
\* it is whole; one that does not exist is written ...
Persist(i) ==
    /\ i \in Inspectors /\ Inspected(i)
    /\ at' = IF Context(i) \in whole \cup partial
             THEN [at EXCEPT ![i] = Away] ELSE [at EXCEPT ![i].pc = "open"]
    /\ UNCHANGED <<past, whole, partial>>

\* ... by write_text, which empties the file if another process has written it
\* by now ...
Open(i) ==
    /\ at[i].pc = "open"
    /\ whole' = whole \ {Context(i)} /\ partial' = partial \cup {Context(i)}
    /\ at' = [at EXCEPT ![i].pc = "fill"]
    /\ UNCHANGED past

\* ... and gives it its content.
Fill(i) ==
    /\ at[i].pc = "fill"
    /\ whole' = whole \cup {Context(i)} /\ partial' = partial \ {Context(i)}
    /\ at' = [at EXCEPT ![i] = Away]
    /\ UNCHANGED past

\* The inspector fails or is killed.
Lose(i) ==
    /\ at[i] # Away
    /\ at' = [at EXCEPT ![i] = Away]
    /\ UNCHANGED <<past, whole, partial>>

----------------------------------------------------------------------------
(* The gate: validate_dossier.                                             *)

\* A dossier says anything: the context may be any that is or was stored, and
\* what it claims of it, of HEAD and of the charter need not be true.
Dossiers == [context : whole \cup partial, base : {w.head : w \in ToSet(past)},
             charter : Charters, cites : Items]

\* inspect_repository: HEAD is read first.
Validate(g, dossier) ==
    /\ at[g].pc \in {"away", "ready"}
    /\ at' = [at EXCEPT ![g] = [pc |-> "charter", dossier |-> dossier, head |-> Now.head,
                                from |-> Len(past)]]
    /\ UNCHANGED <<past, whole, partial>>

Reject(g) == at' = [at EXCEPT ![g] = Away]

\* load_charter
ReadCharter(g) ==
    /\ at[g].pc = "charter"
    /\ IF Now.charter = None THEN Reject(g)
       ELSE at' = [at EXCEPT ![g] = [pc |-> "load", dossier |-> @.dossier, head |-> @.head,
                                     from |-> @.from, charter |-> Now.charter]]
    /\ UNCHANGED <<past, whole, partial>>

\* A gate that inspects keeps what it has to compare with.
Reinspecting(r) ==
    [pc |-> "base", selected |-> r.dossier.context.selected, base |-> 0, count |-> 0,
     todo |-> <<>>, truncated |-> FALSE, evidence |-> <<>>,
     dossier |-> r.dossier, head |-> r.head, from |-> r.from, charter |-> r.charter]

\* load_context: the stored file must be what its name says; its selection is
\* inspected again.
LoadContext(g) ==
    /\ at[g].pc = "load"
    /\ IF at[g].dossier.context \in whole
       THEN at' = [at EXCEPT ![g] = Reinspecting(@)]
       ELSE Reject(g)
    /\ UNCHANGED <<past, whole, partial>>

\* Faulty variant: a stored context at the right commit is taken for current
AcceptsStored(g) ==
    LET d == at[g].dossier IN
    /\ d.base = at[g].head /\ d.context.base = at[g].head
    /\ d.charter = at[g].charter
    /\ d.cites \in ToSet(d.context.evidence)

\* stale_context, base_mismatch, charter_changed, unknown_evidence
Accepts(g) ==
    LET d == at[g].dossier IN
    /\ d.context = Context(g)
    /\ d.base = at[g].head /\ d.context.base = at[g].head
    /\ d.charter = at[g].charter
    /\ d.cites \in ToSet(d.context.evidence)

\* What the dossier itself may lack, a section a profile wants, an answer to a
\* rule of the charter, a sound plan, makes for a rejection as well.
Judge(g) ==
    /\ g \in Gates /\ Inspected(g)
    /\ \/ Accepts(g) /\ at' = [at EXCEPT ![g] = [pc |-> "ready", dossier |-> @.dossier,
                                                 from |-> @.from]]
       \/ Reject(g)
    /\ UNCHANGED <<past, whole, partial>>

----------------------------------------------------------------------------
(* The user's checkout.                                                    *)

Change(world) ==
    /\ Len(past) <= MaxChanges
    /\ past' = Append(past, world)
    /\ UNCHANGED <<whole, partial, at>>

\* A file, or the charter, is edited, removed, or becomes unusable.
Edit ==
    \/ \E q \in Paths, c \in Contents \cup {None} :
          c # Now.files[q] /\ Change([Now EXCEPT !.files[q] = c])
    \/ \E c \in (Charters \cup {None}) \ {Now.charter} : Change([Now EXCEPT !.charter = c])

\* What lies in the checkout becomes a new commit.
Commit == Change([Now EXCEPT !.head = Len(past) + 1])

\* git checkout of an earlier commit
Checkout == \E w \in ToSet(past) : w.head # Now.head /\ Change(w)

Init ==
    /\ past \in {<<[head |-> 1, charter |-> c, files |-> f]>> :
                    c \in Charters, f \in [Paths -> Contents \cup {None}]}
    /\ whole = {} /\ partial = {}
    /\ at = [p \in Inspectors \cup Gates |-> Away]

Next ==
    \/ \E p \in Inspectors \cup Gates : ReadBase(p) \/ ListFiles(p) \/ ReadFile(p)
    \/ \E i \in Inspectors : \/ \E selected \in SUBSET Paths : Inspect(i, selected)
                             \/ Persist(i) \/ Open(i) \/ Fill(i) \/ Lose(i)
    \/ \E g \in Gates : \/ \E dossier \in Dossiers : Validate(g, dossier)
                        \/ ReadCharter(g) \/ LoadContext(g) \/ Judge(g)
    \/ Edit \/ Commit \/ Checkout

Spec == Init /\ [][Next]_vars
----------------------------------------------------------------------------
(* Properties.                                                             *)

\* Nothing that changed has come back.
NothingReturned ==
    \A i, j, k \in DOMAIN past : i < j /\ j < k =>
        /\ past[i].head = past[k].head => past[j].head = past[i].head
        /\ past[i].charter = past[k].charter => past[j].charter = past[i].charter
        /\ \A q \in Paths :
              past[i].files[q] = past[k].files[q] => past[j].files[q] = past[i].files[q]

Supports(w, d) ==
    w.head = d.base /\ w.charter = d.charter /\ w.files[d.cites[1]] = d.cites[2]

\* "The Architecture Gate re-inspects the repository, rejects stale or invented
\* evidence": what an accepted dossier says of HEAD, of the charter and of the
\* file it cites was each true at some moment of its validation; and unless
\* something was changed and changed back, there was one moment of it at which
\* all were true together, however the reads and the changes interleave.
AcceptedWasCurrent ==
    \A g \in Gates : at[g].pc = "ready" =>
        LET d == at[g].dossier
            during == {past[n] : n \in at[g].from..Len(past)}
        IN  /\ \E w \in during : w.head = d.base
            /\ \E w \in during : w.charter = d.charter
            /\ \E w \in during : w.files[d.cites[1]] = d.cites[2]
            /\ NothingReturned => \E w \in during : Supports(w, d)
=============================================================================
