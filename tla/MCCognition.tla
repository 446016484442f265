----------------------------- MODULE MCCognition -----------------------------
EXTENDS Cognition, TLC

Interchangeable == Permutations(Episodes) \cup Permutations(Corrections)
                   \cup Permutations(Workers) \cup Permutations(Events)

=============================================================================
