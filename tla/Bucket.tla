------------------------------- MODULE Bucket -------------------------------
(***************************************************************************)
(* A token bucket as one would draw it: it fills with time, continuously   *)
(* and up to its capacity, and an item is taken exactly when its price is  *)
(* there.  RateLimiter computes the same without a timer.                  *)
(***************************************************************************)
EXTENDS Naturals

CONSTANTS Capacity, Cost

VARIABLES level, verdict    \* verdict: of the last item since time passed

Init == level = Capacity /\ verdict = "none"

Fill   == level' = (IF level < Capacity THEN level + 1 ELSE level) /\ verdict' = "none"
Take   == level >= Cost /\ level' = level - Cost /\ verdict' = "taken"
Refuse == level < Cost /\ level' = level /\ verdict' = "refused"

Next == Fill \/ Take \/ Refuse

Spec == Init /\ [][Next]_<<level, verdict>>
=============================================================================
