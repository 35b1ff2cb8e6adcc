---------------------------- MODULE MCCardWrites ----------------------------
EXTENDS CardWrites, TLC

Symmetry == Permutations(Cards)

\* Once the lock has been left the safety properties promise nothing more.
Covered == loose = {}
=============================================================================
