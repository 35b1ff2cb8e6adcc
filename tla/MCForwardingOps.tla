--------------------------- MODULE MCForwardingOps ---------------------------
EXTENDS ForwardingOps, TLC
Symmetry == Permutations(Workers) \cup Permutations(Types) \cup Permutations(OpIds)
=============================================================================
