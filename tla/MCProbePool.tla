---------------------------- MODULE MCProbePool -----------------------------
EXTENDS ProbePool, TLC

\* The workers of a pool are interchangeable.
Symmetry == Permutations(Workers)
=============================================================================
