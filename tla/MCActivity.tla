----------------------------- MODULE MCActivity -----------------------------
EXTENDS Activity, TLC
CONSTANTS r1, t1, t2
(* Two tasks for one room. *)
OneRoom == t1 :> r1 @@ t2 :> r1
=============================================================================
