------------------------- MODULE MCArchitectureGate -------------------------
(* A small instance of ArchitectureGate: a file that is evidence by its kind *)
(* and one that is only when it is selected, which of them the limit cuts    *)
(* off, and two interchangeable contents.                                    *)
EXTENDS ArchitectureGate

SameContents == Permutations(Contents) \cup Permutations(Charters)
=============================================================================
