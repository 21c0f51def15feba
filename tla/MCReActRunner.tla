--------------------------- MODULE MCReActRunner ---------------------------
(* ReActRunner for TLC: the generators of run() are interchangeable.       *)
EXTENDS ReActRunner, TLC

Symmetry == Permutations(Runs)

=============================================================================
