------------------------------ MODULE Lifetime ------------------------------
(***************************************************************************)
(* What the table `rooms` promises its readers: a room is inserted once,   *)
(* turns stale when nobody writes in it, turns fresh when somebody does,   *)
(* and is deleted while it is stale, never while it is fresh and never to  *)
(* come back.  Activity (the clock, the calls and the arithmetic) and Room *)
(* (one room, its map entry and its sessions) both implement it, so what   *)
(* Room says of `exists` and `stale` is what the timestamps do.            *)
(***************************************************************************)
CONSTANT Id     \* room ids

VARIABLE row    \* the state of each row

States == {"absent", "fresh", "stale", "deleted"}

Become(S, state) == row' = [r \in Id |-> IF r \in S THEN state ELSE row[r]]
In(state) == {r \in Id : row[r] = state}

Init == row \in [Id -> {"absent", "fresh"}]

(* The INSERT was slow if the row is stale at once. *)
Insert(r) == r \in In("absent") /\ \E state \in {"fresh", "stale"} : Become({r}, state)
Touch(r)  == r \in In("stale") /\ Become({r}, "fresh")
Age       == \E S \in SUBSET In("fresh") : Become(S, "stale")
Sweep     == \E S \in SUBSET In("stale") : Become(S, "deleted")
Delete(r) == \E S \in SUBSET In("stale") : r \in S /\ Become(S, "deleted")

Next == (\E r \in Id : Insert(r) \/ Touch(r)) \/ Age \/ Sweep

Spec == Init /\ [][Next]_row

(* A room that stays stale is deleted in the end. *)
FairSpec == Spec /\ \A r \in Id : WF_row(Delete(r))
=============================================================================
