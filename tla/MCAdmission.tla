----------------------------- MODULE MCAdmission -----------------------------
EXTENDS Admission, TLC
CONSTANTS ip, room
Capacities == ip :> 2 @@ room :> 1
Symmetry == Permutations(Task)
=============================================================================
