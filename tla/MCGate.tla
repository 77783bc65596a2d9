------------------------------- MODULE MCGate -------------------------------
EXTENDS Gate, TLC
CONSTANTS s1, s2, s3, s4, ip1, ip2, ip3
(* Two sockets of one address and two of addresses of their own. *)
Addresses == s1 :> ip1 @@ s2 :> ip1 @@ s3 :> ip2 @@ s4 :> ip3
(* What can be exchanged: s1 with s2, and s3 at ip2 with s4 at ip3. *)
SwapSame   == s1 :> s2 @@ s2 :> s1
SwapOthers == s3 :> s4 @@ s4 :> s3 @@ ip2 :> ip3 @@ ip3 :> ip2
Symmetry   == {SwapSame, SwapOthers, SwapSame @@ SwapOthers}
(* For liveness: two sockets of one address. *)
Two == s1 :> ip1 @@ s2 :> ip1
=============================================================================
