--------------------------- MODULE InboundProofs ---------------------------
(***************************************************************************)
(* Proofs about Inbound, for every capacity and every price of a frame.    *)
(*                                                                         *)
(* Both bounds come from one measure: what was let through since s, plus   *)
(* what the bucket holds now, never exceeds a full bucket plus what        *)
(* accrued since s; and for the time at which the bucket was last full,    *)
(* it is exactly that.                                                     *)
(***************************************************************************)
EXTENDS Inbound, TLAPS

Spent(s) == Cost * accepted[s] + Refilled

MeasureInv ==
  /\ last_refill <= clock
  /\ \A s \in Time : s > clock => accepted[s] = 0
  /\ \A s \in 0..clock : Spent(s) <= Capacity + (clock - s)
  /\ \E s \in 0..clock : Spent(s) = Capacity + (clock - s)
  /\ outcome = "dropped" => Refilled < Cost

IInv == TypeOK /\ MeasureInv

LEMMA RefilledType ==
  ASSUME TypeOK, last_refill <= clock
  PROVE  Refilled \in 0..Capacity
BY NumberAssumption DEF TypeOK, Time, Refilled

LEMMA Price ==
  ASSUME NEW n \in Nat
  PROVE  Cost * n \in Nat /\ Cost * (n + 1) = Cost * n + Cost /\ Cost * 0 = 0
BY NumberAssumption

(* What the bucket holds grows by one with time, up to its capacity. *)
LEMMA AdvanceFills ==
  ASSUME TypeOK, last_refill <= clock, Advance
  PROVE  Refilled' = IF Refilled < Capacity THEN Refilled + 1 ELSE Refilled
BY NumberAssumption DEF TypeOK, Time, Advance, limiter, Refilled

(* A frame pays its price, or nothing. *)
LEMMA FramePays ==
  ASSUME TypeOK, last_refill <= clock, NEW f \in Frame, TextFrame(f)
  PROVE  \/ /\ Accept(f) /\ Refilled >= Cost /\ Refilled' = Refilled - Cost
            /\ outcome' \in {"relayed", "ignored"}
         \/ /\ Refuse /\ Refilled < Cost /\ Refilled' = Refilled
            /\ outcome' = "dropped"
<1>1. Refilled \in 0..Capacity BY RefilledType
<1>2. CASE Accept(f)
  <2>1. tokens' = Refilled - Cost /\ last_refill' = clock /\ clock' = clock /\ Refilled >= Cost
        /\ outcome' \in {"relayed", "ignored"}
    BY <1>2 DEF Accept, TextFrame
  <2>. DEFINE r == Refilled
  <2>2. r \in 0..Capacity /\ tokens' = r - Cost /\ r >= Cost /\ clock \in Nat
    BY <1>1, <2>1 DEF TypeOK, Time
  <2>3. Refilled' = IF tokens' + (clock' - last_refill') < Capacity
                    THEN tokens' + (clock' - last_refill') ELSE Capacity
    BY DEF Refilled
  <2>. HIDE DEF r
  <2>4. Refilled' = r - Cost
    BY <2>1, <2>2, <2>3, NumberAssumption
  <2>. QED BY <1>2, <2>1, <2>4 DEF r
<1>3. CASE Refuse
  <2>1. tokens' = Refilled /\ last_refill' = clock /\ clock' = clock /\ Refilled < Cost
        /\ outcome' = "dropped"
    BY <1>3 DEF Refuse, TextFrame
  <2>. DEFINE r == Refilled
  <2>2. r \in 0..Capacity /\ tokens' = r /\ clock \in Nat
    BY <1>1, <2>1 DEF TypeOK, Time
  <2>3. Refilled' = IF tokens' + (clock' - last_refill') < Capacity
                    THEN tokens' + (clock' - last_refill') ELSE Capacity
    BY DEF Refilled
  <2>. HIDE DEF r
  <2>4. Refilled' = r
    BY <2>1, <2>2, <2>3, NumberAssumption
  <2>. QED BY <1>3, <2>1, <2>4 DEF r
<1>. QED BY <1>2, <1>3 DEF TextFrame

-----------------------------------------------------------------------------
LEMMA InitInv == Init => IInv
<1>. SUFFICES ASSUME Init PROVE IInv OBVIOUS
<1>1. TypeOK BY NumberAssumption DEF Init, TypeOK, Time
<1>2. Refilled = Capacity BY NumberAssumption DEF Init, Refilled
<1>3. Spent(0) = Capacity
  BY <1>2, Price, NumberAssumption DEF Init, Spent, Time
<1>4. MeasureInv
  BY <1>3, NumberAssumption DEF Init, MeasureInv
<1>. QED BY <1>1, <1>4 DEF IInv

LEMMA StepInv == IInv /\ [Next]_vars => IInv'
<1>. SUFFICES ASSUME IInv, [Next]_vars PROVE IInv' OBVIOUS
<1>0. TypeOK /\ last_refill <= clock /\ Refilled \in 0..Capacity
      /\ clock \in 0..MaxClock /\ accepted \in [Time -> Nat]
      /\ Capacity \in Nat /\ Cost \in Nat /\ MaxClock \in Nat
  BY RefilledType, NumberAssumption DEF IInv, MeasureInv, TypeOK, Time
<1>1. CASE Advance
  <2>1. clock' = clock + 1 /\ clock' \in Time /\ accepted' = accepted
        /\ last_refill' = last_refill /\ tokens' = tokens /\ outcome' = "none"
    BY <1>0, <1>1 DEF Advance, limiter, Time
  <2>2. TypeOK' BY <2>1 DEF IInv, TypeOK
  <2>3. Refilled' = IF Refilled < Capacity THEN Refilled + 1 ELSE Refilled
    BY <1>0, <1>1, AdvanceFills
  <2>4. \A s \in Time : Cost * accepted[s] \in Nat
    BY <1>0, Price
  <2>n. PICK n \in Time : n = clock' BY <2>1
  <2>5. Cost * accepted[n] = 0
    <3>1. accepted[n] = 0 BY <1>0, <2>1, <2>n DEF IInv, MeasureInv, Time
    <3>. QED BY <3>1, Price
  <2>6. \A s \in 0..clock' : Spent(s)' <= Capacity + (clock' - s)
    <3>1. ASSUME NEW s \in 0..clock PROVE Spent(s)' <= Capacity + (clock' - s)
      <4>1. Spent(s) <= Capacity + (clock - s) BY DEF IInv, MeasureInv
      <4>2. Cost * accepted[s] \in Nat BY <1>0, <2>4 DEF Time
      <4>. DEFINE q == Cost * accepted[s]
      <4>3. q \in Nat /\ q + Refilled <= Capacity + (clock - s) /\ Spent(s)' = q + Refilled'
        BY <2>1, <4>1, <4>2 DEF Spent
      <4>. HIDE DEF q
      <4>. QED BY <1>0, <2>1, <2>3, <4>3
    <3>2. Spent(n)' <= Capacity + (clock' - n)
      BY <1>0, <2>1, <2>n, <2>3, <2>5 DEF Spent
    <3>3. \A s \in 0..clock' : s \in 0..clock \/ s = n BY <1>0, <2>1, <2>n
    <3>. QED BY <3>1, <3>2, <3>3
  <2>7. \E s \in 0..clock' : Spent(s)' = Capacity + (clock' - s)
    <3>1. CASE Refilled < Capacity
      <4>1. PICK s \in 0..clock : Spent(s) = Capacity + (clock - s) BY DEF IInv, MeasureInv
      <4>. DEFINE q == Cost * accepted[s]
      <4>2. q \in Nat /\ q + Refilled = Capacity + (clock - s) /\ Spent(s)' = q + Refilled'
        BY <1>0, <2>1, <2>4, <4>1 DEF Spent, Time
      <4>. HIDE DEF q
      <4>3. Spent(s)' = Capacity + (clock' - s) BY <1>0, <2>1, <2>3, <3>1, <4>2
      <4>. QED BY <1>0, <2>1, <4>3
    <3>2. CASE ~(Refilled < Capacity)
      <4>1. Refilled' = Capacity /\ accepted' = accepted BY <1>0, <2>1, <2>3, <3>2
      <4>2. Spent(n)' = Capacity BY <1>0, <2>5, <4>1 DEF Spent
      <4>3. Capacity + (clock' - n) = Capacity BY <1>0, <2>1, <2>n
      <4>. QED BY <1>0, <2>1, <2>n, <4>2, <4>3
    <3>. QED BY <3>1, <3>2
  <2>8. \A s \in Time : s > clock' => accepted'[s] = 0
    BY <1>0, <2>1 DEF IInv, MeasureInv, Time
  <2>9. last_refill' <= clock'
    BY <1>0, <2>1 DEF TypeOK, Time
  <2>10. MeasureInv'
    BY <2>1, <2>6, <2>7, <2>8, <2>9 DEF MeasureInv
  <2>. QED BY <2>2, <2>10 DEF IInv
<1>2. ASSUME NEW f \in Frame, TextFrame(f) PROVE IInv'
  <2>1. clock' = clock /\ last_refill' = clock
    BY <1>2 DEF TextFrame, Accept, Refuse
  <2>2. CASE Accept(f) /\ Refilled >= Cost /\ Refilled' = Refilled - Cost
             /\ outcome' \in {"relayed", "ignored"}
    <3>1. tokens' = Refilled - Cost
          /\ accepted' = [s \in Time |-> IF s <= clock THEN accepted[s] + 1 ELSE accepted[s]]
      BY <2>2 DEF Accept
    <3>2. TypeOK'
      BY <1>0, <2>1, <2>2, <3>1 DEF TypeOK, Time
    <3>3. ASSUME NEW s \in 0..clock PROVE Spent(s)' = Spent(s)
      <4>1. s \in Time /\ accepted[s] \in Nat /\ accepted'[s] = accepted[s] + 1
        BY <1>0, <3>1 DEF Time
      <4>2. Cost * accepted'[s] = Cost * accepted[s] + Cost /\ Cost * accepted[s] \in Nat
        BY <4>1, Price
      <4>. DEFINE p == Cost * accepted[s]
                  q == Cost * accepted'[s]
      <4>3. p \in Nat /\ q = p + Cost /\ Spent(s) = p + Refilled /\ Spent(s)' = q + Refilled'
        BY <4>2 DEF Spent
      <4>. HIDE DEF p, q
      <4>. QED BY <1>0, <2>2, <4>3
    <3>4. \A s \in Time : s > clock' => accepted'[s] = 0
      BY <1>0, <2>1, <3>1 DEF IInv, MeasureInv, Time
    <3>5. MeasureInv'
      BY <1>0, <2>1, <2>2, <3>3, <3>4 DEF IInv, MeasureInv
    <3>. QED BY <3>2, <3>5 DEF IInv
  <2>3. CASE Refuse /\ Refilled < Cost /\ Refilled' = Refilled /\ outcome' = "dropped"
    <3>1. tokens' = Refilled /\ accepted' = accepted BY <2>3 DEF Refuse
    <3>2. TypeOK' BY <1>0, <2>1, <2>3, <3>1 DEF TypeOK
    <3>3. \A s \in 0..clock : Spent(s)' = Spent(s) BY <2>3, <3>1 DEF Spent
    <3>4. MeasureInv'
      BY <1>0, <2>1, <2>3, <3>1, <3>3 DEF IInv, MeasureInv
    <3>. QED BY <3>2, <3>4 DEF IInv
  <2>. QED BY <1>0, <1>2, <2>2, <2>3, FramePays
<1>3. CASE UNCHANGED vars
  BY <1>3 DEF IInv, TypeOK, MeasureInv, Spent, Refilled, vars, limiter
<1>. QED BY <1>1, <1>2, <1>3 DEF Next

LEMMA Invariant == Spec => []IInv
<1>1. Init => IInv BY InitInv
<1>2. IInv /\ [Next]_vars => IInv' BY StepInv
<1>. QED BY <1>1, <1>2, PTL DEF Spec

-----------------------------------------------------------------------------
(* The bucket holds no more than its capacity, and no debt.                *)
THEOREM TypeCorrect == Spec => []TypeOK
<1>1. IInv => TypeOK BY DEF IInv
<1>. QED BY Invariant, <1>1, PTL

(* No window sees more frames than a burst and the sustained rate allow.   *)
THEOREM RateIsBounded == Spec => []RateBounded
<1>1. ASSUME IInv PROVE RateBounded
  <2>0. Refilled \in Nat /\ clock \in 0..MaxClock /\ accepted \in [Time -> Nat]
        /\ Capacity \in Nat /\ MaxClock \in Nat
    BY <1>1, RefilledType, NumberAssumption DEF IInv, MeasureInv, TypeOK, Time
  <2>. SUFFICES ASSUME NEW s \in 0..clock
                PROVE  Cost * accepted[s] <= Capacity + (clock - s)
    BY DEF RateBounded
  <2>. DEFINE p == Cost * accepted[s]
  <2>1. p + Refilled <= Capacity + (clock - s) BY <1>1 DEF IInv, MeasureInv, Spent
  <2>2. p \in Nat
    <3>1. accepted[s] \in Nat BY <2>0 DEF Time
    <3>. QED BY <3>1, Price
  <2>. HIDE DEF p
  <2>3. p <= Capacity + (clock - s) BY <2>0, <2>1, <2>2
  <2>. QED BY <2>3 DEF p
<1>. QED BY Invariant, <1>1, PTL

(* A client that keeps to the rate loses no frame.                         *)
THEOREM NothingDroppedWithinRate == Spec => []DroppedOnlyOverRate
<1>1. ASSUME IInv PROVE DroppedOnlyOverRate
  <2>0. Refilled \in Nat /\ clock \in 0..MaxClock /\ accepted \in [Time -> Nat]
        /\ Capacity \in Nat /\ Cost \in Nat /\ MaxClock \in Nat
    BY <1>1, RefilledType, NumberAssumption DEF IInv, MeasureInv, TypeOK, Time
  <2>. SUFFICES ASSUME outcome = "dropped"
                PROVE  \E s \in 0..clock : Cost * (accepted[s] + 1) > Capacity + (clock - s)
    BY DEF DroppedOnlyOverRate
  <2>1. PICK s \in 0..clock : Spent(s) = Capacity + (clock - s)
    BY <1>1 DEF IInv, MeasureInv
  <2>2. Refilled < Cost BY <1>1 DEF IInv, MeasureInv
  <2>. DEFINE p == Cost * accepted[s]
              q == Cost * (accepted[s] + 1)
  <2>3. p \in Nat /\ q = p + Cost /\ p + Refilled = Capacity + (clock - s)
    BY <2>0, <2>1, Price DEF Spent, Time
  <2>. HIDE DEF p, q
  <2>4. q > Capacity + (clock - s) BY <2>0, <2>2, <2>3
  <2>. QED BY <2>4 DEF q
<1>. QED BY Invariant, <1>1, PTL

-----------------------------------------------------------------------------
Verdict == CASE outcome = "none" -> "none"
             [] outcome = "dropped" -> "refused"
             [] OTHER -> "taken"

LEMMA BucketStep == IInv /\ [Next]_vars => [Abstract!Next]_<<Refilled, Verdict>>
<1>. SUFFICES ASSUME IInv, [Next]_vars PROVE [Abstract!Next]_<<Refilled, Verdict>> OBVIOUS
<1>0. TypeOK /\ last_refill <= clock BY DEF IInv, MeasureInv
<1>1. CASE Advance
  <2>1. Refilled' = IF Refilled < Capacity THEN Refilled + 1 ELSE Refilled
    BY <1>0, <1>1, AdvanceFills
  <2>2. Abstract!Fill BY <1>1, <2>1 DEF Advance, Abstract!Fill
  <2>. QED BY <2>2 DEF Abstract!Next
<1>2. ASSUME NEW f \in Frame, TextFrame(f) PROVE Abstract!Next
  <2>1. CASE Accept(f) /\ Refilled >= Cost /\ Refilled' = Refilled - Cost
             /\ outcome' \in {"relayed", "ignored"}
    <3>1. Abstract!Take BY <2>1 DEF Abstract!Take
    <3>. QED BY <3>1 DEF Abstract!Next
  <2>2. CASE Refuse /\ Refilled < Cost /\ Refilled' = Refilled /\ outcome' = "dropped"
    <3>1. Abstract!Refuse BY <2>2 DEF Abstract!Refuse
    <3>. QED BY <3>1 DEF Abstract!Next
  <2>. QED BY <1>0, <1>2, <2>1, <2>2, FramePays
<1>3. CASE UNCHANGED vars
  BY <1>3 DEF Refilled, Verdict, vars, limiter
<1>. QED BY <1>1, <1>2, <1>3 DEF Next

(* The lazily refilled bucket implements the one that fills with time.     *)
THEOREM LimiterImplementsBucket == Spec => ImplementsBucket
<1>1. Init => Abstract!Init
  BY NumberAssumption DEF Init, Abstract!Init, Refilled
<1>2. IInv /\ [Next]_vars => [Abstract!Next]_<<Refilled, Verdict>> BY BucketStep
<1>. QED BY Invariant, <1>1, <1>2, PTL DEF Spec, ImplementsBucket, Abstract!Spec, Verdict
=============================================================================
