----------------------------- MODULE Passwords -----------------------------
(***************************************************************************)
(* What PasswordService (src/src/passwords.rs) makes of a password: which  *)
(* it stores, and which later ones it takes for the same.  A text may be   *)
(* spelled in several ways (with combining marks or without); the limits   *)
(* are on bytes before and after NFC and on characters after it; and the   *)
(* blocklist, compiled into the program, is another one after an upgrade.  *)
(* Argon2 is taken to be injective.  Slots and jobs are in Gate.           *)
(***************************************************************************)
EXTENDS Naturals

CONSTANTS
  Room, Attempt,  \* rooms with a password, and attempts to enter them
  Text,           \* what clients send as a password
  Nfc,            \* its Unicode normalization form C
  Bytes, Chars,   \* its length in UTF-8 bytes and in characters
  MaxBytes,       \* 1024
  CharRange,      \* 15..256
  Blocklists,     \* data/common-passwords.txt in this and other versions
  Invalid, None

ASSUME TextAssumption ==
  /\ Nfc \in [Text -> Text] /\ \A t \in Text : Nfc[Nfc[t]] = Nfc[t]
  /\ Bytes \in [Text -> Nat] /\ Chars \in [Text -> Nat] /\ MaxBytes \in Nat
  /\ Blocklists \subseteq SUBSET {Nfc[t] : t \in Text}

(* A PHC string: the text that its digest is of, with its salt (None, if   *)
(* it is of no text), and whether it parses, with our own parameters.      *)
Hash == [of : Text \cup {None}, pinned : BOOLEAN]
ASSUME NoneAssumption ==
  Invalid \notin Text \cup {None} /\ None \notin Text \cup Hash \cup (Room \X Text)

VARIABLES
  blocklist,      \* BLOCKLIST of the running program
  stored,         \* the hash of each room
  typed,          \* what the creator of the room sent (history)
  tried,          \* the room and the text of each attempt
  reply,          \* and what became of it
  cut             \* the attempts whose verdict was not waited for (history)

vars == <<blocklist, stored, typed, tried, reply, cut>>

TypeOK ==
  /\ blocklist \in Blocklists
  /\ stored \in [Room -> Hash \cup {None}]
  /\ typed \in [Room -> Text \cup {None}]
  /\ \A r \in Room : typed[r] = None <=> stored[r] = None
  /\ tried \in [Attempt -> (Room \X Text) \cup {None}]
  /\ reply \in [Attempt -> {"none", "in", "failed", "unavailable"}]
  /\ cut \subseteq Attempt

Init ==
  /\ blocklist \in Blocklists
  /\ stored = [r \in Room |-> None] /\ typed = [r \in Room |-> None]
  /\ tried = [a \in Attempt |-> None] /\ reply = [a \in Attempt |-> "none"]
  /\ cut = {}

Fits(t) == Bytes[t] <= MaxBytes
Normalize(t) ==
  IF Fits(t) /\ Fits(Nfc[t]) /\ Chars[Nfc[t]] \in CharRange
  THEN Nfc[t] ELSE Invalid

(* PasswordService::hash, and the INSERT of what it returns.  What is      *)
(* refused leaves no room.                                                 *)
Hashed(r, t) ==
  /\ stored[r] = None
  /\ Normalize(t) # Invalid /\ Normalize(t) \notin blocklist
  /\ stored' = [stored EXCEPT ![r] = [of |-> Normalize(t), pinned |-> TRUE]]
  /\ typed'  = [typed EXCEPT ![r] = t]
  /\ UNCHANGED <<blocklist, tried, reply, cut>>

(* Mutants: verify refuses what hash does, and trusts what is stored. *)
VerdictAsHash(t, hash) ==
  CASE Normalize(t) = Invalid \/ Normalize(t) \in blocklist -> "failed"
    [] ~hash.pinned -> "unavailable"
    [] OTHER -> IF hash.of = Normalize(t) THEN "in" ELSE "failed"
VerdictAnyParams(t, hash) ==
  IF hash.of = Normalize(t) THEN "in" ELSE "failed"
(* PasswordService::verify as authenticate reports it. *)
Verdict(t, hash) ==
  CASE Normalize(t) = Invalid -> "failed"
    [] Normalize(t) # Invalid /\ ~hash.pinned -> "unavailable"
    [] OTHER -> IF hash.of = Normalize(t) THEN "in" ELSE "failed"

(* The job may also find no slot, or fail. *)
Verified(a, r, t) ==
  /\ stored[r] # None /\ reply[a] = "none"
  /\ tried' = [tried EXCEPT ![a] = <<r, t>>]
  /\ \E verdict \in {Verdict(t, stored[r]), "unavailable"} :
       reply' = [reply EXCEPT ![a] = verdict]
  /\ UNCHANGED <<blocklist, stored, typed, cut>>

(* A second frame, or the end of HANDSHAKE_TIMEOUT, before the verdict:    *)
(* the answer is auth_failed, whatever the password is.                    *)
CutOff(a, r, t) ==
  /\ stored[r] # None /\ reply[a] = "none"
  /\ tried' = [tried EXCEPT ![a] = <<r, t>>]
  /\ reply' = [reply EXCEPT ![a] = "failed"]
  /\ cut' = cut \cup {a}
  /\ UNCHANGED <<blocklist, stored, typed>>

(* A row is damaged or written by other hands: it no longer parses, or     *)
(* with other parameters or lengths than ours; or its salt or digest has   *)
(* the right length and is of no text.                                     *)
Damaged(r) ==
  /\ stored[r] # None
  /\ \E pinned \in {stored[r].pinned, FALSE}, of \in {stored[r].of, None} :
       stored' = [stored EXCEPT ![r] = [of |-> of, pinned |-> pinned]]
  /\ UNCHANGED <<blocklist, typed, tried, reply, cut>>

(* A new version of the program, with a list of its own, is started. *)
Upgraded ==
  /\ blocklist' \in Blocklists
  /\ UNCHANGED <<stored, typed, tried, reply, cut>>

Next ==
  \/ \E r \in Room, t \in Text :
       Hashed(r, t) \/ \E a \in Attempt : Verified(a, r, t) \/ CutOff(a, r, t)
  \/ \E r \in Room : Damaged(r)
  \/ Upgraded

Spec == Init /\ [][Next]_vars

-----------------------------------------------------------------------------
(* Properties *)

Same(t, u) == Nfc[t] = Nfc[u]

(* An attempt is let in only with a spelling of the password that the room *)
(* was created with, compared against a hash of our own parameters.        *)
OnlyTheSame ==
  [][\A a \in Attempt, r \in Room, t \in Text :
       reply[a] = "none" /\ reply'[a] = "in" /\ tried'[a] = <<r, t>> =>
         stored[r].pinned /\ Same(t, typed[r])]_vars

(* Who has the right password is told that it failed for two reasons only: *)
(* the verdict was not waited for (a second frame, a timeout), or the      *)
(* digest that it was compared against is damaged.  It is never for        *)
(* another spelling, if that is not too long itself, nor because the       *)
(* password has been put on the blocklist since, nor for parameters that   *)
(* are not ours.                                                           *)
RightFailsForCause ==
  \A a \in Attempt, r \in Room, t \in Text :
    tried[a] = <<r, t>> /\ reply[a] = "failed" /\ Fits(t) /\ Same(t, typed[r])
      => a \in cut \/ stored[r].of = None

(* What the server stores is short enough to be hashed again and again,    *)
(* however the password grows under NFC.                                   *)
StoredIsBounded ==
  \A r \in Room : stored[r] # None /\ stored[r].of # None =>
    Fits(stored[r].of) /\ Chars[stored[r].of] \in CharRange
=============================================================================
