---------------------------- MODULE MCKnowledge ----------------------------
(* Small instances of Knowledge: contents that share a passage, a content   *)
(* that repeats one, and a git source with the same bytes under two paths. *)
EXTENDS Knowledge, TLC

MCRaws == {<<"x", "y">>, <<"x", "x">>}
MCPaths == <<"a", "b">>
MCPinned == [p \in {"a", "b"} |-> <<"x", "y">>]
SameProcesses == Permutations(Ingesters)
=============================================================================
