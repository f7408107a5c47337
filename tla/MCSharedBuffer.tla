--------------------------- MODULE MCSharedBuffer ---------------------------
(* Model-checking instances of SharedBuffer. *)
EXTENDS SharedBuffer, TLC

\* Processes of one kind run the same code from the same state.
Symmetry == Permutations(Readers) \cup Permutations(Writers)
=============================================================================
