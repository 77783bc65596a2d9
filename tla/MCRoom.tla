------------------------------- MODULE MCRoom -------------------------------
EXTENDS Room, TLC
Symmetry == Permutations(Conn)
=============================================================================
