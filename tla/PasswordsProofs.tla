-------------------------- MODULE PasswordsProofs --------------------------
(***************************************************************************)
(* The safety of Passwords, for every set of texts, every normalization    *)
(* that is idempotent and every blocklist.  The invariant adds to the      *)
(* types what a room stores, if it is of any text, and which rooms an      *)
(* attempt can have met.                                                   *)
(***************************************************************************)
EXTENDS Passwords, TLAPS

StoredInv ==
  \A r \in Room : stored[r] # None =>
    stored[r].of \in {Normalize(typed[r]), None} /\ Normalize(typed[r]) # Invalid
TriedInv ==
  \A a \in Attempt :
    /\ tried[a] = None <=> reply[a] = "none"
    /\ \A r \in Room, t \in Text : tried[a] = <<r, t>> => stored[r] # None
IInv == TypeOK /\ StoredInv /\ TriedInv /\ RightFailsForCause

(* normalize returns the NFC of what it is given, within the limits.       *)
LEMMA Normalized ==
  ASSUME NEW t \in Text, Normalize(t) # Invalid
  PROVE  /\ Normalize(t) = Nfc[t] /\ Normalize(t) \in Text
         /\ Fits(Nfc[t]) /\ Chars[Nfc[t]] \in CharRange
  BY TextAssumption DEF Normalize

(* A second spelling that fits itself is normalized to the same.           *)
LEMMA Spellings ==
  ASSUME NEW t \in Text, NEW u \in Text, Same(t, u), Fits(t), Normalize(u) # Invalid
  PROVE  Normalize(t) = Normalize(u)
  BY DEF Normalize, Same

(* What hash returns is a hash.                                            *)
LEMMA Fresh ==
  ASSUME NEW n \in Text
  PROVE  /\ [of |-> n, pinned |-> TRUE] \in Hash
         /\ [of |-> n, pinned |-> TRUE] # None
<1>1. [of |-> n, pinned |-> TRUE] \in Hash
  BY DEF Hash
<1> QED
  BY <1>1, NoneAssumption

LEMMA Beginning == Init => IInv
  BY NoneAssumption DEF Init, IInv, TypeOK, StoredInv, TriedInv, RightFailsForCause

LEMMA Creating ==
  ASSUME IInv, NEW r \in Room, NEW t \in Text, Hashed(r, t)
  PROVE  IInv'
<1> USE DEF IInv, Hashed
<1>1. Normalize(t) \in Text
  BY Normalized
<1>2. stored' \in [Room -> Hash \cup {None}]
  BY <1>1 DEF TypeOK, Hash
<1>3. stored'[r] # None /\ stored'[r].of = Normalize(t)
  <2>1. stored'[r] = [of |-> Normalize(t), pinned |-> TRUE]
    BY DEF TypeOK
  <2>2. [of |-> Normalize(t), pinned |-> TRUE] # None
    BY <1>1, Fresh
  <2> QED
    BY <2>1, <2>2
<1>4. \A q \in Room : q # r => stored'[q] = stored[q] /\ typed'[q] = typed[q]
  BY DEF TypeOK
<1>5. typed'[r] = t /\ t # None
  BY NoneAssumption DEF TypeOK
<1>6. TypeOK'
  BY <1>2, <1>3, <1>4, <1>5 DEF TypeOK
<1>7. StoredInv'
  BY <1>3, <1>4, <1>5 DEF StoredInv, Normalize, Fits
<1>8. TriedInv'
  BY <1>3, <1>4 DEF TriedInv
<1>9. RightFailsForCause'
  BY <1>4 DEF RightFailsForCause, TriedInv, Same, Fits
<1> QED
  BY <1>6, <1>7, <1>8, <1>9

(* What verify says is right, and so is what it calls unavailable.         *)
LEMMA Verifying ==
  ASSUME IInv, NEW a \in Attempt, NEW r \in Room, NEW t \in Text, Verified(a, r, t)
  PROVE  IInv'
<1> USE DEF IInv, Verified
<1>1. PICK verdict \in {Verdict(t, stored[r]), "unavailable"} :
        reply' = [reply EXCEPT ![a] = verdict]
  OBVIOUS
<1>2. verdict \in {"in", "failed", "unavailable"}
  BY DEF Verdict
<1>3. TypeOK'
  BY <1>1, <1>2 DEF TypeOK
<1>4. tried'[a] = <<r, t>> /\ reply'[a] = verdict
  BY <1>1 DEF TypeOK
<1>5. \A b \in Attempt : b # a => tried'[b] = tried[b] /\ reply'[b] = reply[b]
  BY <1>1 DEF TypeOK
<1>6. StoredInv' /\ TriedInv'
  <2>1. <<r, t>> # None
    BY NoneAssumption
  <2> QED
    BY <1>2, <1>4, <1>5, <2>1 DEF StoredInv, TriedInv, Normalize, Fits
<1>7. ASSUME Fits(t), Same(t, typed[r]), stored[r].of # None PROVE verdict # "failed"
  <2>1. typed[r] \in Text
    BY DEF TypeOK
  <2>2. Normalize(t) = Normalize(typed[r]) /\ Normalize(t) # Invalid
    BY <1>7, <2>1, Spellings DEF StoredInv
  <2> QED
    BY <1>7, <2>2 DEF Verdict, StoredInv
<1>8. RightFailsForCause'
  BY <1>4, <1>5, <1>7 DEF RightFailsForCause, Same, Fits
<1> QED
  BY <1>3, <1>6, <1>8

(* A verdict that was not waited for says nothing of the password.         *)
LEMMA CuttingOff ==
  ASSUME IInv, NEW a \in Attempt, NEW r \in Room, NEW t \in Text, CutOff(a, r, t)
  PROVE  IInv'
<1> USE DEF IInv, CutOff
<1>1. TypeOK'
  BY DEF TypeOK
<1>2. tried'[a] = <<r, t>> /\ reply'[a] = "failed" /\ a \in cut'
  BY DEF TypeOK
<1>3. \A b \in Attempt : b # a => tried'[b] = tried[b] /\ reply'[b] = reply[b]
  BY DEF TypeOK
<1>4. StoredInv' /\ TriedInv'
  <2>1. <<r, t>> # None
    BY NoneAssumption
  <2> QED
    BY <1>2, <1>3, <2>1 DEF StoredInv, TriedInv, Normalize, Fits
<1>5. RightFailsForCause'
  BY <1>2, <1>3 DEF RightFailsForCause, Same, Fits
<1> QED
  BY <1>1, <1>4, <1>5

(* A damaged row is the hash of the same text or of none.                  *)
LEMMA Damaging ==
  ASSUME IInv, NEW r \in Room, Damaged(r)
  PROVE  IInv'
<1> USE DEF IInv, Damaged
<1>1. PICK pinned \in {stored[r].pinned, FALSE}, of \in {stored[r].of, None} :
        stored' = [stored EXCEPT ![r] = [of |-> of, pinned |-> pinned]]
  OBVIOUS
<1>2. stored[r] \in Hash
  BY DEF TypeOK
<1>3. [of |-> of, pinned |-> pinned] \in Hash
  BY <1>2 DEF Hash
<1>4. stored'[r] = [of |-> of, pinned |-> pinned]
  BY <1>1 DEF TypeOK
<1>5. stored'[r] # None /\ stored'[r].of \in {stored[r].of, None}
  BY <1>3, <1>4, NoneAssumption
<1>6. \A q \in Room : q # r => stored'[q] = stored[q]
  BY <1>1 DEF TypeOK
<1>7. TypeOK'
  BY <1>1, <1>3, <1>5, <1>6 DEF TypeOK
<1>8. StoredInv'
  BY <1>5, <1>6 DEF StoredInv, Normalize, Fits
<1>9. TriedInv'
  BY <1>5, <1>6 DEF TriedInv
<1>10. RightFailsForCause'
  BY <1>5, <1>6 DEF RightFailsForCause, Same, Fits
<1> QED
  BY <1>7, <1>8, <1>9, <1>10

LEMMA Step == IInv /\ [Next]_vars => IInv'
<1> SUFFICES ASSUME IInv, [Next]_vars PROVE IInv'
  OBVIOUS
<1>1. CASE UNCHANGED vars \/ Upgraded
  BY <1>1 DEF vars, Upgraded, IInv, TypeOK, StoredInv, TriedInv, RightFailsForCause,
              Normalize, Fits, Same
<1>2. ASSUME NEW r \in Room, NEW t \in Text, Hashed(r, t) PROVE IInv'
  BY <1>2, Creating
<1>3. ASSUME NEW r \in Room, NEW t \in Text, NEW a \in Attempt, Verified(a, r, t)
      PROVE  IInv'
  BY <1>3, Verifying
<1>4. ASSUME NEW r \in Room, NEW t \in Text, NEW a \in Attempt, CutOff(a, r, t)
      PROVE  IInv'
  BY <1>4, CuttingOff
<1>5. ASSUME NEW r \in Room, Damaged(r) PROVE IInv'
  BY <1>5, Damaging
<1> QED
  BY <1>1, <1>2, <1>3, <1>4, <1>5 DEF Next

LEMMA Invariant == Spec => []IInv
  BY Beginning, Step, PTL DEF Spec

(* Every variable keeps its type: only texts that fit are hashed.          *)
THEOREM PasswordsTyped == Spec => []TypeOK
  BY Invariant, PTL DEF IInv

(* The right password, in any spelling short enough, fails only when the  *)
(* verdict is not waited for or the digest is damaged, whatever the        *)
(* blocklist and the stored parameters have become (verify against hash).  *)
THEOREM RightOneFailsForCause == Spec => []RightFailsForCause
  BY Invariant, PTL DEF IInv

(* What is stored is within the limits, also when NFC made it longer.      *)
THEOREM StoredWithinLimits == Spec => []StoredIsBounded
<1>1. IInv => StoredIsBounded
  BY Normalized DEF IInv, TypeOK, StoredInv, StoredIsBounded
<1> QED
  BY <1>1, Invariant, PTL

(* And only it is: a step lets an attempt in only with a spelling of the   *)
(* password of the room, against a hash with our parameters.               *)
THEOREM OnlyTheSameIsTaken == Spec => OnlyTheSame
<1> DEFINE Only == \A a \in Attempt, r \in Room, t \in Text :
              reply[a] = "none" /\ reply'[a] = "in" /\ tried'[a] = <<r, t>> =>
                stored[r].pinned /\ Same(t, typed[r])
<1>1. ASSUME IInv, [Next]_vars,
             NEW a \in Attempt, NEW r \in Room, NEW t \in Text,
             reply[a] = "none", reply'[a] = "in", tried'[a] = <<r, t>>
      PROVE  stored[r].pinned /\ Same(t, typed[r])
  <2>1. PICK b \in Attempt, q \in Room, u \in Text : Verified(b, q, u)
    BY <1>1 DEF Next, vars, Hashed, CutOff, Damaged, Upgraded, IInv, TypeOK
  <2>2. PICK verdict \in {Verdict(u, stored[q]), "unavailable"} :
          reply' = [reply EXCEPT ![b] = verdict]
    BY <2>1 DEF Verified
  <2>3. b = a
    BY <1>1, <2>2 DEF IInv, TypeOK
  <2>4. q = r /\ u = t
    BY <1>1, <2>1, <2>3 DEF Verified, IInv, TypeOK
  <2>5. Verdict(t, stored[r]) = "in"
    BY <1>1, <2>2, <2>3, <2>4 DEF IInv, TypeOK
  <2>6. Normalize(t) # Invalid /\ stored[r].pinned /\ stored[r].of = Normalize(t)
    BY <2>5 DEF Verdict
  <2>7. typed[r] \in Text /\ Normalize(typed[r]) = Normalize(t)
    <3>1. stored[r] # None
      BY <2>1, <2>4 DEF Verified
    <3>2. stored[r].of # None
      BY <2>6, Normalized, NoneAssumption
    <3> QED
      BY <1>1, <2>6, <3>1, <3>2 DEF IInv, TypeOK, StoredInv
  <2> QED
    BY <2>6, <2>7, Normalized DEF Same
<1>2. IInv /\ [Next]_vars => [Only]_vars
  BY <1>1
<1> QED
  BY <1>2, Invariant, PTL DEF Spec, OnlyTheSame
=============================================================================
