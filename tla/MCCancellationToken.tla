------------------------ MODULE MCCancellationToken ------------------------
EXTENDS CancellationToken, TLC

Symmetry == Permutations(Cancellers) \cup Permutations(Listeners \ Nested)
              \cup Permutations(Observers)

=============================================================================
