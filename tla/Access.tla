------------------------------- MODULE Access -------------------------------
(***************************************************************************)
(* What the way into a room promises, whatever it takes: a room comes into *)
(* being once, open or protected as its creator wanted it, and stays that; *)
(* a socket enters a room that there is, and a protected one only after it *)
(* has shown the password.                                                 *)
(***************************************************************************)
CONSTANTS Room, Socket

VARIABLES
  wants,          \* what each creator asks for
  kind,           \* what each room is, also after it has expired
  target,         \* the room each socket asks for
  shown,          \* the sockets that have shown the password of their room
  inside          \* the sockets that have been let in

vars == <<wants, kind, target, shown, inside>>

Init ==
  /\ wants \in [Room -> {"open", "protected"}]
  /\ kind = [r \in Room |-> "none"]
  /\ target \in [Socket -> Room]
  /\ shown = {} /\ inside = {}

Create(r) ==
  /\ kind[r] = "none"
  /\ kind' = [kind EXCEPT ![r] = wants[r]]
  /\ UNCHANGED <<wants, target, shown, inside>>

Show(s) ==
  /\ s \notin inside
  /\ shown' = shown \cup {s}
  /\ UNCHANGED <<wants, kind, target, inside>>

Enter(s) ==
  /\ kind[target[s]] = "open" \/ (kind[target[s]] = "protected" /\ s \in shown)
  /\ inside' = inside \cup {s}
  /\ UNCHANGED <<wants, kind, target, shown>>

(* The process dies, and all its sockets with it. *)
Restart ==
  /\ inside' = {}
  /\ UNCHANGED <<wants, kind, target, shown>>

Next ==
  \/ \E r \in Room : Create(r)
  \/ \E s \in Socket : Show(s) \/ Enter(s)
  \/ Restart

Spec == Init /\ [][Next]_vars
=============================================================================
