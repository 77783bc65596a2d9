----------------------------- MODULE Membership -----------------------------
(***************************************************************************)
(* What a room promises to those who read in it, whatever its lock, its    *)
(* queues and its sockets do: each of them is introduced once to every     *)
(* other member, present or to come, and hears once, and only then, that   *)
(* the member has left; or else it is cut off.                             *)
(***************************************************************************)
CONSTANT Conn

VARIABLES
  newcomers,  \* connections that have not joined yet
  members,
  readers,    \* those who are told of the others
  coming,     \* coming[c]: peers that c has yet to be introduced to
  known,      \* known[c]: peers that c has been introduced to
  going,      \* going[c]: peers that c has yet to hear have left
  expired

vars == <<newcomers, members, readers, coming, known, going, expired>>

Init ==
  /\ newcomers = Conn /\ members = {} /\ expired = FALSE
  /\ readers = {}
  /\ coming = [c \in readers |-> {}] /\ known = coming /\ going = coming

Kept(f) == [c \in readers' |-> f[c]]
Keep    == coming' = Kept(coming) /\ known' = Kept(known) /\ going' = Kept(going)

(* Whenever something is to be told, readers may be cut off. *)
Join(q) ==
  /\ q \in newcomers /\ ~expired
  /\ newcomers' = newcomers \ {q} /\ members' = members \cup {q}
  /\ \E R \in SUBSET readers : readers' = R \cup {q}
  /\ coming' = [c \in readers' |-> IF c = q THEN members ELSE coming[c] \cup {q}]
  /\ known'  = [c \in readers' |-> IF c = q THEN {} ELSE known[c]]
  /\ going'  = [c \in readers' |-> IF c = q THEN {} ELSE going[c]]
  /\ UNCHANGED expired

Leave(q) ==
  /\ q \in members \ readers
  /\ members' = members \ {q}
  /\ readers' \in SUBSET readers
  /\ going' = [c \in readers' |-> going[c] \cup {q}]
  /\ coming' = Kept(coming) /\ known' = Kept(known)
  /\ UNCHANGED <<newcomers, expired>>

Introduce(c, q) ==
  /\ c \in readers /\ q \in coming[c] \ known[c]
  /\ coming' = [coming EXCEPT ![c] = @ \ {q}]
  /\ known'  = [known EXCEPT ![c] = @ \cup {q}]
  /\ UNCHANGED <<newcomers, members, readers, going, expired>>

Dismiss(c, q) ==
  /\ c \in readers /\ q \in (going[c] \cap known[c]) \ coming[c]
  /\ known' = [known EXCEPT ![c] = @ \ {q}]
  /\ going' = [going EXCEPT ![c] = @ \ {q}]
  /\ UNCHANGED <<newcomers, members, readers, coming, expired>>

GiveUp ==
  /\ UNCHANGED <<members, expired>>
  /\ newcomers' \in SUBSET newcomers /\ readers' \in SUBSET readers
  /\ Keep

(* Nobody joins an expired room; its readers finish what they have to read. *)
Expire ==
  /\ ~expired /\ expired' = TRUE
  /\ members' = {} /\ readers' \in SUBSET readers
  /\ Keep
  /\ UNCHANGED newcomers

Restart ==
  /\ members' = {} /\ readers' = {} /\ newcomers' \in SUBSET newcomers
  /\ Keep
  /\ expired' \in {expired, TRUE}

Next ==
  \/ GiveUp
  \/ \E q \in Conn : Join(q) \/ Leave(q)
  \/ \E c, q \in Conn : Introduce(c, q) \/ Dismiss(c, q)
  \/ Expire \/ Restart

Spec == Init /\ [][Next]_vars
=============================================================================
