--------------------------- MODULE AdmissionProofs ---------------------------
(***************************************************************************)
(* Theorems about Admission, for every set of budgets and tasks and every  *)
(* capacity, period, map size and idle time that meet its assumptions.     *)
(***************************************************************************)
EXTENDS Admission, Integers, FiniteSetTheorems, TLAPS

-----------------------------------------------------------------------------
(* Arithmetic *)

LEMMA Monotone ==
  ASSUME NEW C \in Nat, NEW a \in Int, NEW b \in Int, a <= b
  PROVE  C * a <= C * b
OBVIOUS

LEMMA Spread ==
  ASSUME NEW C \in Nat, NEW a \in Int, NEW b \in Int
  PROVE  C * a \in Int /\ C * b \in Int /\ C * (a + b) = C * a + C * b
         /\ C * (a - b) = C * a - C * b
OBVIOUS

LEMMA SinceType ==
  ASSUME NEW a \in Nat, NEW b \in Nat
  PROVE  /\ Since(a, b) \in Nat
         /\ a < b => Since(a, b) = 0
         /\ a >= b => Since(a, b) = a - b
BY DEF Since

LEMMA LesserFacts ==
  ASSUME NEW a \in Int, NEW b \in Int
  PROVE  Lesser(a, b) \in {a, b} /\ Lesser(a, b) <= a /\ Lesser(a, b) <= b
BY DEF Lesser

LEMMA FullType == \A k \in Key : Capacity[k] \in Nat \ {0} /\ Full(k) \in Nat /\ Full(k) >= Period
<1>1. ASSUME NEW k \in Key PROVE Capacity[k] \in Nat \ {0} /\ Full(k) \in Nat /\ Full(k) >= Period
  <2>1. Capacity[k] \in Nat \ {0} /\ Period \in Nat
    BY KeyAssumption, TimeAssumption
  <2>2. Period * 1 <= Period * Capacity[k]
    BY <2>1, Monotone
  <2> QED
    BY <2>1, <2>2 DEF Full
<1> QED
  BY <1>1

-----------------------------------------------------------------------------
(* What a call reads and leaves *)

Typed == TypeOK /\ IsFiniteSet(DOMAIN buckets)

LEMMA LevelType ==
  ASSUME TypeOK, NEW k \in Key, NEW now \in Nat
  PROVE  Level(k, now) \in 0..Full(k)
<1>1. CASE k \notin DOMAIN buckets
  BY <1>1, FullType DEF Level
<1>2. CASE k \in DOMAIN buckets
  <2>1. buckets[k].tokens \in 0..Full(k) /\ buckets[k].updated \in Nat
    BY <1>2 DEF TypeOK
  <2>2. Since(now, buckets[k].updated) \in Nat
    BY <2>1, SinceType
  <2>3. Since(now, buckets[k].updated) * Capacity[k] \in Nat
    BY <2>2, FullType
  <2> QED
    BY <1>2, <2>1, <2>3, FullType DEF Level, Lesser
<1> QED
  BY <1>1, <1>2

LEMMA KeysForType ==
  ASSUME Typed, NEW k \in Key, NEW now \in Nat
  PROVE  /\ KeysFor(k, now) \subseteq DOMAIN buckets
         /\ Kept(now) \subseteq DOMAIN buckets
         /\ IsFiniteSet(Kept(now)) /\ Cardinality(Kept(now)) <= MaxBuckets
         /\ IsFiniteSet(KeysFor(k, now)) /\ Cardinality(KeysFor(k, now)) <= MaxBuckets
         /\ k \in DOMAIN buckets => KeysFor(k, now) = DOMAIN buckets
<1>1. Kept(now) \subseteq DOMAIN buckets
  BY DEF Kept
<1>2. /\ IsFiniteSet(Kept(now))
      /\ Cardinality(Kept(now)) \in Nat /\ Cardinality(DOMAIN buckets) \in Nat
      /\ Cardinality(Kept(now)) <= Cardinality(DOMAIN buckets)
  BY <1>1, FS_Subset, FS_CardinalityType DEF Typed
<1>3. Cardinality(DOMAIN buckets) <= MaxBuckets /\ MaxBuckets \in Nat
  BY TimeAssumption DEF Typed, TypeOK
<1>4. Cardinality(Kept(now)) <= MaxBuckets
  BY <1>2, <1>3
<1> QED
  BY <1>1, <1>2, <1>3, <1>4 DEF KeysFor, MapFull, Typed

LEMMA PutType ==
  ASSUME Typed, NEW k \in Key, NEW now \in Nat, ~MapFull(k, KeysFor(k, now)),
         NEW n \in 0..Full(k), Put(KeysFor(k, now), k, n, now)
  PROVE  /\ DOMAIN buckets' \in SUBSET Key
         /\ IsFiniteSet(DOMAIN buckets')
         /\ Cardinality(DOMAIN buckets') <= MaxBuckets
         /\ \A j \in DOMAIN buckets' : buckets'[j] \in [tokens : 0..Full(j), updated : Nat]
<1> DEFINE D == KeysFor(k, now)
<1>1. DOMAIN buckets' = D \cup {k} /\ D \subseteq DOMAIN buckets /\ DOMAIN buckets \subseteq Key
  BY KeysForType DEF Put, Typed, TypeOK
<1>2. IsFiniteSet(D) /\ Cardinality(D) \in Nat /\ Cardinality(D) <= MaxBuckets
  BY KeysForType, FS_CardinalityType
<1>3. /\ IsFiniteSet(D \cup {k})
      /\ Cardinality(D \cup {k}) = IF k \in D THEN Cardinality(D) ELSE Cardinality(D) + 1
  BY <1>2, FS_AddElement
<1>4. k \notin D => ~(Cardinality(D) >= MaxBuckets)
  BY DEF MapFull
<1> HIDE DEF D
<1>5. Cardinality(D \cup {k}) <= MaxBuckets
  BY <1>2, <1>3, <1>4, TimeAssumption
<1>6. \A j \in DOMAIN buckets' : buckets'[j] \in [tokens : 0..Full(j), updated : Nat]
  BY <1>1 DEF Put, Typed, TypeOK, D
<1> QED
  BY <1>1, <1>3, <1>5, <1>6

LEMMA RetryType ==
  ASSUME NEW k \in Key, NEW level \in Nat, level < Period
  PROVE  RetryAfter(k, level) \in Nat /\ level + RetryAfter(k, level) * Capacity[k] >= Period
<1>1. Capacity[k] \in Nat \ {0} /\ Period \in Nat
  BY FullType, TimeAssumption
<1> DEFINE c == Capacity[k]
           d == Period - level
<1>2. d \in Nat /\ c \in Nat \ {0} /\ d + c - 1 \in Nat
  BY <1>1
<1> HIDE DEF c, d
<1>3. (d + c - 1) \div c \in Nat /\ ((d + c - 1) \div c) * c >= d
  BY <1>2
<1> QED
  BY <1>1, <1>2, <1>3 DEF RetryAfter, c, d

-----------------------------------------------------------------------------
(* Types *)

LEMMA AuditType ==
  ASSUME TypeOK, NEW k \in Key, NEW now \in Nat, NEW D, NEW n \in Nat
  PROVE  /\ Forgetting(D, now) \in [base : Nat, seen : Nat, spent : Nat, back : Nat]
         /\ Audit(k, D, now, n) => audit' \in [base : Nat, seen : Nat, spent : Nat, back : Nat]
<1>1. audit \in [base : Nat, seen : Nat, spent : Nat, back : Nat]
  BY DEF TypeOK
<1>2. Greater(audit.seen, now) \in Nat
  BY <1>1 DEF Greater
<1>3. Since(audit.seen, now) \in Nat
  BY <1>1, SinceType
<1>4. Forgetting(D, now) \in [base : Nat, seen : Nat, spent : Nat, back : Nat]
  BY <1>1, <1>2 DEF Forgetting
<1>5. Audit(k, D, now, n) => audit' \in [base : Nat, seen : Nat, spent : Nat, back : Nat]
  <2>1. CASE k # Watched
    BY <1>4, <2>1 DEF Audit
  <2>2. ASSUME k = Watched, Audit(k, D, now, n)
        PROVE  audit' \in [base : Nat, seen : Nat, spent : Nat, back : Nat]
    <3>1. /\ audit' = [audit EXCEPT !.seen = Greater(audit.seen, now),
                                    !.back = audit.back + Since(audit.seen, now),
                                    !.spent = audit.spent + n]
      BY <2>2 DEF Audit
    <3>2. audit.back + Since(audit.seen, now) \in Nat /\ audit.spent + n \in Nat
      BY <1>1, <1>3
    <3> QED
      BY <1>1, <1>2, <3>1, <3>2
  <2> QED
    BY <2>1, <2>2
<1> QED
  BY <1>4, <1>5

LEMMA ReturnType ==
  ASSUME TypeOK, NEW t \in Task \cup {Sweeper}, Return(t)
  PROVE  call' \in [Task \cup {Sweeper} -> Calls]
BY DEF TypeOK, Return, Calls

LEMMA InitTyped == Init => Typed
<1> SUFFICES ASSUME Init PROVE Typed
  OBVIOUS
<1>1. DOMAIN buckets = {} /\ IsFiniteSet({}) /\ Cardinality({}) = 0
  BY FS_EmptySet DEF Init
<1>2. call \in [Task \cup {Sweeper} -> Calls]
  BY DEF Init, Calls
<1> QED
  BY <1>1, <1>2, TimeAssumption DEF Init, Typed, TypeOK

LEMMA StepTyped ==
  ASSUME Typed, [Next]_vars
  PROVE  Typed'
<1> USE DEF Typed
<1>1. ASSUME UNCHANGED buckets
      PROVE  /\ DOMAIN buckets' \in SUBSET Key /\ IsFiniteSet(DOMAIN buckets')
             /\ Cardinality(DOMAIN buckets') <= MaxBuckets
             /\ \A k \in DOMAIN buckets' : buckets'[k] \in [tokens : 0..Full(k), updated : Nat]
  BY <1>1 DEF TypeOK
<1>2. ASSUME NEW D, D \subseteq DOMAIN buckets, IsFiniteSet(D), Cardinality(D) <= MaxBuckets,
             buckets' = [j \in D |-> buckets[j]]
      PROVE  /\ DOMAIN buckets' \in SUBSET Key /\ IsFiniteSet(DOMAIN buckets')
             /\ Cardinality(DOMAIN buckets') <= MaxBuckets
             /\ \A k \in DOMAIN buckets' : buckets'[k] \in [tokens : 0..Full(k), updated : Nat]
  BY <1>2 DEF TypeOK
<1>3. CASE UNCHANGED vars
  BY <1>1, <1>3 DEF vars, TypeOK
<1>4. ASSUME NEW t \in Task, NEW k \in Key, Called(t, k) PROVE Typed'
  <2>1. [op |-> "check", key |-> k, now |-> clock] \in Calls
    BY DEF TypeOK, Calls
  <2>2. call' \in [Task \cup {Sweeper} -> Calls]
    BY <1>4, <2>1 DEF TypeOK, Called
  <2> QED
    BY <1>1, <1>4, <2>2 DEF Called, TypeOK
<1>5. CASE MaintainCalled
  <2>1. [op |-> "maintain", now |-> clock] \in Calls
    BY DEF TypeOK, Calls
  <2>2. call' \in [Task \cup {Sweeper} -> Calls]
    BY <1>5, <2>1 DEF TypeOK, MaintainCalled
  <2> QED
    BY <1>1, <1>5, <2>2 DEF MaintainCalled, TypeOK
<1>6. ASSUME NEW t \in Task, Unavailable(t) PROVE Typed'
  <2>1. PICK k \in Key, now \in 0..clock :
          /\ buckets' = [j \in KeysFor(k, now) |-> buckets[j]]
          /\ audit' = Forgetting(KeysFor(k, now), now)
          /\ Return(t) /\ UNCHANGED <<clock, promise>>
    BY <1>6 DEF Unavailable
  <2>2. now \in Nat
    BY DEF TypeOK
  <2> QED
    BY <1>2, <2>1, <2>2, KeysForType, ReturnType, AuditType DEF TypeOK
<1>7. CASE Maintain
  <2>1. PICK now \in 0..clock :
          /\ buckets' = [j \in Kept(now) |-> buckets[j]]
          /\ audit' = Forgetting(Kept(now), now)
          /\ Return(Sweeper) /\ UNCHANGED <<clock, promise>>
    BY <1>7 DEF Maintain
  <2>2. now \in Nat
    BY DEF TypeOK
  <2> QED
    BY <1>2, <2>1, <2>2, KeysForType, KeyAssumption, ReturnType, AuditType DEF TypeOK
<1>8. ASSUME NEW t \in Task, Limited(t) PROVE Typed'
  <2>1. PICK k \in Key, now \in 0..clock :
          /\ ~MapFull(k, KeysFor(k, now))
          /\ Level(k, now) < Period
          /\ Put(KeysFor(k, now), k, Level(k, now), now)
          /\ promise' = IF k # Watched THEN promise
                        ELSE [at |-> now, retry |-> RetryAfter(k, Level(k, now))]
          /\ Audit(k, KeysFor(k, now), now, 0)
          /\ Return(t) /\ UNCHANGED clock
    BY <1>8 DEF Limited
  <2>2. now \in Nat /\ 0 \in Nat
    BY DEF TypeOK
  <2>3. Level(k, now) \in 0..Full(k) /\ Level(k, now) \in Nat
    BY <2>2, LevelType, FullType
  <2>4. RetryAfter(k, Level(k, now)) \in Nat
    BY <2>1, <2>3, RetryType
  <2>5. promise' \in {None} \cup [at : Nat, retry : Nat]
    BY <2>1, <2>2, <2>4 DEF TypeOK
  <2> QED
    BY <2>1, <2>2, <2>3, <2>5, PutType, ReturnType, AuditType DEF TypeOK
<1>9. ASSUME NEW t \in Task, Admitted(t) PROVE Typed'
  <2>1. PICK k \in Key, now \in 0..clock :
          /\ ~MapFull(k, KeysFor(k, now))
          /\ Level(k, now) >= Period
          /\ Put(KeysFor(k, now), k, Level(k, now) - Period, now)
          /\ promise' = IF k # Watched THEN promise ELSE None
          /\ Audit(k, KeysFor(k, now), now, 1)
          /\ Return(t) /\ UNCHANGED clock
    BY <1>9 DEF Admitted
  <2>2. now \in Nat /\ 1 \in Nat
    BY DEF TypeOK
  <2>3. Level(k, now) - Period \in 0..Full(k)
    BY <2>1, <2>2, LevelType, FullType, TimeAssumption
  <2> QED
    BY <2>1, <2>2, <2>3, PutType, ReturnType, AuditType DEF TypeOK
<1>10. CASE Tick
  BY <1>1, <1>10 DEF Tick, TypeOK
<1>11. CASE OpenWindow
  BY <1>1, <1>11 DEF OpenWindow, TypeOK
<1> QED
  BY <1>3, <1>4, <1>5, <1>6, <1>7, <1>8, <1>9, <1>10, <1>11 DEF Next, Check

(* The map never outgrows MaxBuckets, and no bucket holds more than its    *)
(* capacity.                                                               *)
THEOREM AdmissionTyped == Spec => []TypeOK
<1>1. Typed /\ [Next]_vars => Typed'
  BY StepTyped
<1>2. Typed => TypeOK
  BY DEF Typed
<1> QED
  BY InitTyped, <1>1, <1>2, PTL DEF Spec

-----------------------------------------------------------------------------
(* The budget *)

(* What the watched bucket would hold at the latest time applied to it,    *)
(* and what was admitted, add up to no more than a full bucket and the     *)
(* refill of the window so far.                                            *)
Worth == Level(Watched, audit.seen)

BudgetInv ==
  /\ audit.base <= audit.seen /\ audit.seen <= clock
  /\ Watched \in DOMAIN buckets => buckets[Watched].updated <= audit.seen
  /\ Worth + audit.spent * Period <=
       Full(Watched) + Capacity[Watched] * (audit.seen - audit.base + audit.back)

(* A bucket that time has moved on, capped, is worth at most what it was   *)
(* and the refill of that time.                                            *)
LEMMA Refill ==
  ASSUME NEW C \in Nat, NEW F \in Nat, NEW x \in Nat, NEW d \in Nat, NEW e \in Nat
  PROVE  /\ Lesser(x + (d + e) * C, F) <= Lesser(x + d * C, F) + C * e
         /\ Lesser(Lesser(x + d * C, F) + e * C, F) = Lesser(x + (d + e) * C, F)
<1>1. d * C \in Nat /\ e * C \in Nat /\ C * e = e * C /\ (d + e) * C = d * C + e * C
  BY Spread
<1> DEFINE p == d * C
           q == e * C
<1>2. p \in Nat /\ q \in Nat
  BY <1>1
<1> HIDE DEF p, q
<1>3. /\ Lesser(x + p + q, F) <= Lesser(x + p, F) + q
      /\ Lesser(Lesser(x + p, F) + q, F) = Lesser(x + p + q, F)
  BY <1>2 DEF Lesser
<1>4. x + p + q = x + (p + q)
  BY <1>2
<1> QED
  BY <1>1, <1>3, <1>4 DEF p, q

(* Forgetting an idle bucket gives nothing away: it was full.              *)
LEMMA ForgottenWasFull ==
  ASSUME Typed, NEW now \in Nat, Watched \in DOMAIN buckets, Watched \notin Kept(now),
         buckets[Watched].updated <= audit.seen
  PROVE  Level(Watched, Greater(audit.seen, now)) = Full(Watched)
<1> DEFINE u == buckets[Watched].updated
           n == buckets[Watched].tokens
           g == Greater(audit.seen, now)
           C == Capacity[Watched]
<1>1. u \in Nat /\ n \in Nat /\ C \in Nat \ {0} /\ audit.seen \in Nat
  BY FullType, KeyAssumption DEF Typed, TypeOK
<1>2. now - u >= IdleTTL /\ now >= u /\ Since(now, u) = now - u
  BY <1>1, TimeAssumption DEF Kept, Since
<1>3. g \in Nat /\ g >= now /\ g >= u /\ Since(g, u) = g - u
  BY <1>1, <1>2 DEF Greater, Since
<1>4. g - u >= Period /\ g - u \in Nat /\ Period \in Nat
  BY <1>1, <1>2, <1>3, TimeAssumption
<1>5. C * Period <= C * (g - u)
  BY <1>1, <1>4, Monotone
<1>6. Full(Watched) = C * Period /\ Full(Watched) \in Nat /\ (g - u) * C = C * (g - u)
  BY <1>1, <1>4, FullType, KeyAssumption DEF Full
<1>7. n + (g - u) * C >= Full(Watched)
  <2>1. (g - u) * C \in Nat
    BY <1>1, <1>4
  <2> QED
    BY <1>1, <1>5, <1>6, <2>1
<1>8. Lesser(n + (g - u) * C, Full(Watched)) = Full(Watched)
  <2>1. (g - u) * C \in Nat
    BY <1>1, <1>4
  <2> QED
    BY <1>1, <1>6, <1>7, <2>1 DEF Lesser
<1> QED
  BY <1>3, <1>8 DEF Level

LEMMA WorthGrows ==
  ASSUME Typed, BudgetInv, NEW g \in Nat, g >= audit.seen
  PROVE  /\ Level(Watched, g) <= Worth + Capacity[Watched] * (g - audit.seen)
         /\ Level(Watched, g) \in Nat /\ Worth \in Nat
<1> DEFINE u == buckets[Watched].updated
           n == buckets[Watched].tokens
           C == Capacity[Watched]
           F == Full(Watched)
<1>1. C \in Nat /\ F \in Nat /\ audit.seen \in Nat
  BY FullType, KeyAssumption DEF Typed, TypeOK
<1>2. Level(Watched, g) \in Nat /\ Worth \in Nat
  BY <1>1, LevelType, KeyAssumption DEF Typed, Worth
<1>3. C * (g - audit.seen) \in Nat
  BY <1>1
<1>4. CASE Watched \notin DOMAIN buckets
  BY <1>1, <1>2, <1>3, <1>4 DEF Level, Worth
<1>5. CASE Watched \in DOMAIN buckets
  <2>1. u \in Nat /\ n \in Nat /\ u <= audit.seen
    BY <1>5, FullType, KeyAssumption DEF Typed, TypeOK, BudgetInv
  <2>2. Since(g, u) = (audit.seen - u) + (g - audit.seen) /\ Since(audit.seen, u) = audit.seen - u
    BY <1>1, <2>1 DEF Since
  <2>3. audit.seen - u \in Nat /\ g - audit.seen \in Nat
    BY <1>1, <2>1
  <2>4. Lesser(n + ((audit.seen - u) + (g - audit.seen)) * C, F)
          <= Lesser(n + (audit.seen - u) * C, F) + C * (g - audit.seen)
    BY <1>1, <2>1, <2>3, Refill
  <2> QED
    BY <1>2, <1>5, <2>2, <2>4 DEF Level, Worth
<1> QED
  BY <1>2, <1>4, <1>5

LEMMA LevelGrows ==
  ASSUME Typed, NEW a \in Nat, NEW b \in Nat, a <= b
  PROVE  Level(Watched, a) <= Level(Watched, b)
<1> DEFINE u == buckets[Watched].updated
           n == buckets[Watched].tokens
           C == Capacity[Watched]
           F == Full(Watched)
<1>1. C \in Nat /\ F \in Nat
  BY FullType, KeyAssumption
<1>2. CASE Watched \notin DOMAIN buckets
  BY <1>1, <1>2 DEF Level
<1>3. CASE Watched \in DOMAIN buckets
  <2>1. u \in Nat /\ n \in Nat
    BY <1>3, FullType, KeyAssumption DEF Typed, TypeOK
  <2>2. Since(a, u) \in Nat /\ Since(b, u) \in Nat /\ Since(a, u) <= Since(b, u)
    BY <2>1 DEF Since
  <2>3. C * Since(a, u) <= C * Since(b, u)
    BY <1>1, <2>2, Monotone
  <2>4. /\ Since(a, u) * C = C * Since(a, u) /\ Since(b, u) * C = C * Since(b, u)
        /\ C * Since(a, u) \in Nat /\ C * Since(b, u) \in Nat
    BY <1>1, <2>2
  <2>5. Lesser(n + Since(a, u) * C, F) <= Lesser(n + Since(b, u) * C, F)
    BY <1>1, <2>1, <2>3, <2>4 DEF Lesser
  <2> QED
    BY <1>3, <2>5 DEF Level
<1> QED
  BY <1>2, <1>3

(* A step that keeps the watched bucket, or sweeps it out. *)
LEMMA BudgetKept ==
  ASSUME Typed, BudgetInv, NEW now \in Nat, now <= clock, NEW D,
         clock' = clock, audit' = Forgetting(D, now),
         D \subseteq DOMAIN buckets,
         Watched \in DOMAIN buckets /\ Watched \notin D => Watched \notin Kept(now),
         Watched \in DOMAIN buckets' <=> Watched \in D,
         Watched \in D => buckets'[Watched] = buckets[Watched]
  PROVE  BudgetInv'
<1>1. CASE Watched \notin DOMAIN buckets \/ Watched \in D
  <2>1. audit' = audit
    BY <1>1 DEF Forgetting
  <2>2. Worth' = Worth
    BY <1>1, <2>1 DEF Worth, Level
  <2> QED
    BY <1>1, <2>1, <2>2 DEF BudgetInv
<1>2. CASE Watched \in DOMAIN buckets /\ Watched \notin D
  <2> DEFINE g == Greater(audit.seen, now)
             C == Capacity[Watched]
  <2>1. /\ audit \in [base : Nat, seen : Nat, spent : Nat, back : Nat] /\ clock \in Nat
        /\ C \in Nat /\ Full(Watched) \in Nat /\ Period \in Nat
    BY FullType, KeyAssumption, TimeAssumption DEF Typed, TypeOK
  <2>2. g \in Nat /\ g >= audit.seen /\ g <= clock
    BY <2>1 DEF Greater, BudgetInv
  <2>3. audit' = [audit EXCEPT !.seen = g]
    BY <1>2 DEF Forgetting
  <2>4. Worth' = Full(Watched)
    BY <1>2 DEF Worth, Level
  <2>5. Level(Watched, g) = Full(Watched)
    BY <1>2, ForgottenWasFull DEF BudgetInv
  <2>6. Full(Watched) <= Worth + C * (g - audit.seen) /\ Worth \in Nat
    BY <2>2, <2>5, WorthGrows
  <2> HIDE DEF g, C
  <2>7. Worth + audit.spent * Period
          <= Full(Watched) + C * (audit.seen - audit.base + audit.back)
    BY DEF BudgetInv, C
  <2>8. /\ C * (audit.seen - audit.base + audit.back) + C * (g - audit.seen)
             = C * (g - audit.base + audit.back)
        /\ C * (audit.seen - audit.base + audit.back) \in Int /\ C * (g - audit.seen) \in Int
        /\ audit.spent * Period \in Nat
    BY <2>1, <2>2
  <2>9. Full(Watched) + audit.spent * Period
          <= Full(Watched) + C * (g - audit.base + audit.back)
    BY <2>1, <2>6, <2>7, <2>8
  <2>10. /\ audit'.seen = g /\ audit'.base = audit.base
         /\ audit'.spent = audit.spent /\ audit'.back = audit.back
    BY <2>1, <2>3
  <2>11. audit.base <= g
    BY <2>1, <2>2 DEF BudgetInv
  <2> QED
    BY <1>2, <2>2, <2>4, <2>9, <2>10, <2>11 DEF BudgetInv, C
<1> QED
  BY <1>1, <1>2

(* A check of the watched budget that admits n requests, 0 or 1. *)
LEMMA BudgetChecked ==
  ASSUME Typed, BudgetInv, NEW now \in Nat, now <= clock, NEW n \in {0, 1}, NEW D,
         clock' = clock, Audit(Watched, D, now, n),
         n * Period <= Level(Watched, now),
         Put(D, Watched, Level(Watched, now) - n * Period, now)
  PROVE  BudgetInv'
<1> DEFINE g == Greater(audit.seen, now)
           C == Capacity[Watched]
           F == Full(Watched)
           L == Level(Watched, now)
           late == Since(audit.seen, now)
           P == n * Period
<1>1. /\ audit \in [base : Nat, seen : Nat, spent : Nat, back : Nat] /\ clock \in Nat
      /\ C \in Nat /\ F \in Nat /\ Period \in Nat /\ P \in Nat
  BY FullType, KeyAssumption, TimeAssumption DEF Typed, TypeOK
<1>2. /\ g \in Nat /\ g >= audit.seen /\ g >= now /\ g <= clock /\ late \in Nat
      /\ now >= audit.seen => g = now /\ late = 0
      /\ now < audit.seen => g = audit.seen /\ late = audit.seen - now
      /\ Since(g, now) = g - now
  <2>1. audit.seen \in Nat /\ audit.seen <= clock
    BY <1>1 DEF BudgetInv
  <2> HIDE DEF L, P, C, F
  <2> QED
    BY <1>1, <2>1 DEF Greater, Since
<1>3. /\ audit'.seen = g /\ audit'.base = audit.base
      /\ audit'.spent = audit.spent + n /\ audit'.back = audit.back + late
  BY <1>1 DEF Audit
<1>4. /\ Watched \in DOMAIN buckets' /\ buckets'[Watched].updated = now
      /\ buckets'[Watched].tokens = L - P
  BY DEF Put
<1>5. L \in Nat /\ L <= F /\ Worth \in Nat
  BY LevelType, KeyAssumption, FullType, <1>1 DEF Typed, Worth
<1> HIDE DEF g, C, F, L, late, P
<1>6. L - P \in Nat /\ L - P <= F
  BY <1>1, <1>5 DEF L, P
<1>7. Worth' = Lesser(L - P + (g - now) * C, F)
  BY <1>2, <1>3, <1>4 DEF Worth, Level, C, F
<1>8. (g - now) * C \in Nat
  BY <1>1, <1>2
<1>9. Worth' <= L - P + (g - now) * C /\ Worth' \in Int
  BY <1>1, <1>6, <1>7, <1>8, LesserFacts
<1>10. Worth + audit.spent * Period <= F + C * (audit.seen - audit.base + audit.back)
  BY DEF BudgetInv, C, F
<1>11. (audit.spent + n) * Period = audit.spent * Period + P /\ audit.spent * Period \in Nat
  BY <1>1 DEF P
<1>12. CASE now >= audit.seen
  <2>1. Worth' <= L - P
    BY <1>1, <1>2, <1>6, <1>9, <1>12
  <2>2. L <= Worth + C * (g - audit.seen)
    BY <1>2, <1>12, WorthGrows DEF L, C
  <2>3. /\ C * (audit.seen - audit.base + audit.back) + C * (g - audit.seen)
             = C * (g - audit.base + (audit.back + late))
        /\ C * (audit.seen - audit.base + audit.back) \in Int /\ C * (g - audit.seen) \in Int
    BY <1>1, <1>2, <1>12
  <2> QED
    BY <1>1, <1>2, <1>3, <1>4, <1>5, <1>9, <1>10, <1>11, <2>1, <2>2, <2>3
       DEF BudgetInv, C, F
<1>13. CASE now < audit.seen
  <2>1. L <= Worth
    BY <1>1, <1>13, LevelGrows DEF L, Worth
  <2>2. /\ C * (audit.seen - audit.base + audit.back) + (g - now) * C
             = C * (g - audit.base + (audit.back + late))
        /\ C * (audit.seen - audit.base + audit.back) \in Int
    BY <1>1, <1>2, <1>13
  <2> QED
    BY <1>1, <1>2, <1>3, <1>4, <1>5, <1>8, <1>9, <1>10, <1>11, <1>13, <2>1, <2>2
       DEF BudgetInv, C, F
<1> QED
  BY <1>1, <1>12, <1>13

LEMMA InitBudget == Init => BudgetInv
<1> SUFFICES ASSUME Init PROVE BudgetInv
  OBVIOUS
<1>1. Watched \notin DOMAIN buckets /\ audit.spent = 0 /\ audit.seen = 0
      /\ audit.base = 0 /\ audit.back = 0 /\ clock = 0
  BY DEF Init
<1>2. Worth = Full(Watched)
  BY <1>1 DEF Worth, Level
<1> QED
  BY <1>1, <1>2, FullType, KeyAssumption, TimeAssumption DEF BudgetInv

LEMMA StepBudget ==
  ASSUME Typed, BudgetInv, [Next]_vars
  PROVE  BudgetInv'
<1>1. ASSUME UNCHANGED <<buckets, audit>>, clock' \in Nat, clock <= clock'
      PROVE  BudgetInv'
  <2>1. Worth' = Worth
    BY <1>1 DEF Worth, Level
  <2>2. audit.seen \in Nat /\ clock \in Nat
    BY DEF Typed, TypeOK
  <2>3. audit.seen <= clock'
    BY <1>1, <2>2 DEF BudgetInv
  <2> QED
    BY <1>1, <2>1, <2>3 DEF BudgetInv
<1>2. clock \in Nat /\ \A now \in 0..clock : now \in Nat /\ now <= clock
  BY DEF Typed, TypeOK
<1>3. CASE UNCHANGED vars \/ MaintainCalled \/ \E t \in Task, k \in Key : Called(t, k)
  BY <1>1, <1>2, <1>3 DEF vars, MaintainCalled, Called
<1>4. CASE Tick
  BY <1>1, <1>2, <1>4 DEF Tick
<1>5. CASE OpenWindow
  <2>1. audit' = [base |-> clock, seen |-> clock, spent |-> 0, back |-> 0]
        /\ UNCHANGED <<clock, buckets>>
    BY <1>5 DEF OpenWindow
  <2>2. Worth' = Level(Watched, clock)
    BY <2>1 DEF Worth, Level
  <2>3. Level(Watched, clock) \in 0..Full(Watched)
    BY <1>2, LevelType, KeyAssumption DEF Typed
  <2>4. Watched \in DOMAIN buckets => buckets[Watched].updated <= clock
    <3>1. audit.seen \in Nat
      BY DEF Typed, TypeOK
    <3>2. Watched \in DOMAIN buckets => buckets[Watched].updated \in Nat
      BY DEF Typed, TypeOK
    <3> QED
      BY <1>2, <3>1, <3>2 DEF BudgetInv
  <2>5. /\ Full(Watched) \in Nat /\ Capacity[Watched] \in Nat /\ Period \in Nat
        /\ 0 * Period = 0 /\ Capacity[Watched] * (clock - clock + 0) = 0
    BY <1>2, FullType, KeyAssumption, TimeAssumption
  <2>6. Worth' + 0 * Period <= Full(Watched) + Capacity[Watched] * (clock - clock + 0)
    BY <2>2, <2>3, <2>5
  <2>7. clock <= clock
    BY <1>2
  <2> QED
    BY <2>1, <2>4, <2>6, <2>7 DEF BudgetInv
<1>6. ASSUME NEW t \in Task, Unavailable(t) PROVE BudgetInv'
  <2>1. PICK k \in Key, now \in 0..clock :
          /\ MapFull(k, KeysFor(k, now))
          /\ buckets' = [j \in KeysFor(k, now) |-> buckets[j]]
          /\ audit' = Forgetting(KeysFor(k, now), now)
          /\ clock' = clock
    BY <1>6 DEF Unavailable
  <2>2. KeysFor(k, now) \subseteq DOMAIN buckets
    BY <1>2, KeysForType
  <2>3. Watched \in DOMAIN buckets /\ Watched \notin KeysFor(k, now) => Watched \notin Kept(now)
    BY DEF KeysFor
  <2> QED
    BY <1>2, <2>1, <2>2, <2>3, BudgetKept
<1>7. CASE Maintain
  <2>1. PICK now \in 0..clock :
          /\ buckets' = [j \in Kept(now) |-> buckets[j]]
          /\ audit' = Forgetting(Kept(now), now)
          /\ clock' = clock
    BY <1>7 DEF Maintain
  <2>2. Kept(now) \subseteq DOMAIN buckets
    BY DEF Kept
  <2> QED
    BY <1>2, <2>1, <2>2, BudgetKept
<1>8. ASSUME NEW k \in Key, NEW now \in 0..clock, NEW n \in {0, 1}, clock' = clock,
             n * Period <= Level(k, now),
             Put(KeysFor(k, now), k, Level(k, now) - n * Period, now),
             Audit(k, KeysFor(k, now), now, n)
      PROVE  BudgetInv'
  <2>1. CASE k = Watched
    BY <1>2, <1>8, <2>1, BudgetChecked
  <2>2. CASE k # Watched
    <3>1. KeysFor(k, now) \subseteq DOMAIN buckets
      BY <1>2, KeysForType
    <3>2. Watched \in DOMAIN buckets /\ Watched \notin KeysFor(k, now) => Watched \notin Kept(now)
      BY DEF KeysFor
    <3>3. audit' = Forgetting(KeysFor(k, now), now)
      BY <1>8, <2>2 DEF Audit
    <3>4. /\ Watched \in DOMAIN buckets' <=> Watched \in KeysFor(k, now)
          /\ Watched \in KeysFor(k, now) => buckets'[Watched] = buckets[Watched]
      BY <1>8, <2>2 DEF Put
    <3> QED
      BY <1>2, <1>8, <3>1, <3>2, <3>3, <3>4, BudgetKept
  <2> QED
    BY <2>1, <2>2
<1>9. ASSUME NEW t \in Task, Limited(t) PROVE BudgetInv'
  <2>1. PICK k \in Key, now \in 0..clock :
          /\ Put(KeysFor(k, now), k, Level(k, now), now)
          /\ Audit(k, KeysFor(k, now), now, 0)
          /\ clock' = clock
    BY <1>9 DEF Limited
  <2>2. Level(k, now) \in Nat
    BY <1>2, LevelType, FullType DEF Typed
  <2>3. 0 * Period = 0 /\ Level(k, now) - 0 = Level(k, now) /\ 0 <= Level(k, now)
    BY <2>2, TimeAssumption
  <2> QED
    BY <1>8, <2>1, <2>3
<1>10. ASSUME NEW t \in Task, Admitted(t) PROVE BudgetInv'
  <2>1. PICK k \in Key, now \in 0..clock :
          /\ Level(k, now) >= Period
          /\ Put(KeysFor(k, now), k, Level(k, now) - Period, now)
          /\ Audit(k, KeysFor(k, now), now, 1)
          /\ clock' = clock
    BY <1>10 DEF Admitted
  <2>2. Level(k, now) \in Nat
    BY <1>2, LevelType, FullType DEF Typed
  <2>3. 1 * Period = Period /\ Period <= Level(k, now)
    BY <2>1, <2>2, TimeAssumption
  <2> QED
    BY <1>8, <2>1, <2>3
<1> QED
  BY <1>3, <1>4, <1>5, <1>6, <1>7, <1>9, <1>10 DEF Next, Check

(* In any window of time a budget admits no more than its capacity and the *)
(* refill of the window, late calls counted as BudgetHeld says: whatever   *)
(* buckets are forgotten, and in whatever order calls take the mutex.      *)
THEOREM BudgetsHold == Spec => []BudgetHeld
<1>1. Typed /\ [Next]_vars => Typed'
  BY StepTyped
<1>2. Typed /\ BudgetInv /\ [Next]_vars => BudgetInv'
  BY StepBudget
<1>3. Typed /\ BudgetInv => BudgetHeld
  <2> SUFFICES ASSUME Typed, BudgetInv PROVE BudgetHeld
    OBVIOUS
  <2> DEFINE C == Capacity[Watched]
             F == Full(Watched)
             S == audit.spent * Period
  <2>1. /\ audit \in [base : Nat, seen : Nat, spent : Nat, back : Nat] /\ clock \in Nat
        /\ C \in Nat /\ F \in Nat /\ Period \in Nat
    BY FullType, KeyAssumption, TimeAssumption DEF Typed, TypeOK
  <2>2. Worth \in Nat
    BY <2>1, LevelType, KeyAssumption DEF Typed, Worth
  <2>3. S \in Nat
    BY <2>1
  <2> HIDE DEF C, F, S
  <2>4. audit.seen <= clock /\ Worth + S <= F + C * (audit.seen - audit.base + audit.back)
    BY DEF BudgetInv, C, F, S
  <2>5. audit.seen - audit.base + audit.back <= clock - audit.base + audit.back
    BY <2>1, <2>4
  <2>6. C * (audit.seen - audit.base + audit.back) <= C * (clock - audit.base + audit.back)
    BY <2>1, <2>5, Monotone
  <2>7. /\ C * (audit.seen - audit.base + audit.back) \in Int
        /\ C * (clock - audit.base + audit.back) \in Int
    BY <2>1
  <2>8. S <= F + C * (clock - audit.base + audit.back)
    BY <2>1, <2>2, <2>3, <2>4, <2>6, <2>7
  <2> QED
    BY <2>8 DEF BudgetHeld, C, F, S
<1> QED
  BY InitTyped, InitBudget, <1>1, <1>2, <1>3, PTL DEF Spec

-----------------------------------------------------------------------------
(* Retry-After *)

LEMMA StepRetry ==
  ASSUME Typed, RetryHonest, [Next]_vars
  PROVE  RetryHonest'
<1> USE DEF Typed
<1>1. ASSUME UNCHANGED <<buckets, promise>> PROVE RetryHonest'
  BY <1>1 DEF RetryHonest, Level
<1>2. clock \in Nat /\ \A now \in 0..clock : now \in Nat
  BY DEF TypeOK
<1>3. Full(Watched) \in Nat /\ Full(Watched) >= Period /\ Capacity[Watched] \in Nat /\ Period \in Nat
  BY FullType, KeyAssumption, TimeAssumption
(* The watched bucket stays as it is or is swept out. *)
<1>4. ASSUME NEW D, promise' = promise,
             Watched \in DOMAIN buckets' <=> Watched \in D,
             Watched \in D => Watched \in DOMAIN buckets /\ buckets'[Watched] = buckets[Watched]
      PROVE  RetryHonest'
  <2>1. CASE Watched \in D
    BY <1>4, <2>1 DEF RetryHonest, Level
  <2>2. CASE Watched \notin D
    BY <1>3, <1>4, <2>2 DEF RetryHonest, Level
  <2> QED
    BY <2>1, <2>2
<1>5. CASE UNCHANGED vars \/ MaintainCalled \/ Tick \/ OpenWindow \/ \E t \in Task, k \in Key : Called(t, k)
  BY <1>1, <1>5 DEF vars, MaintainCalled, Tick, OpenWindow, Called
<1>6. ASSUME NEW t \in Task, Unavailable(t) PROVE RetryHonest'
  <2>1. PICK k \in Key, now \in 0..clock :
          /\ buckets' = [j \in KeysFor(k, now) |-> buckets[j]]
          /\ promise' = promise
    BY <1>6 DEF Unavailable
  <2>2. KeysFor(k, now) \subseteq DOMAIN buckets
    BY <1>2, KeysForType
  <2> QED
    BY <1>4, <2>1, <2>2
<1>7. CASE Maintain
  <2>1. PICK now \in 0..clock :
          /\ buckets' = [j \in Kept(now) |-> buckets[j]]
          /\ promise' = promise
    BY <1>7 DEF Maintain
  <2>2. Kept(now) \subseteq DOMAIN buckets
    BY DEF Kept
  <2> QED
    BY <1>4, <2>1, <2>2
<1>8. ASSUME NEW k \in Key, NEW now \in 0..clock, NEW n, k # Watched, promise' = promise,
             Put(KeysFor(k, now), k, n, now)
      PROVE  RetryHonest'
  <2>1. KeysFor(k, now) \subseteq DOMAIN buckets
    BY <1>2, KeysForType
  <2> QED
    BY <1>4, <1>8, <2>1 DEF Put
<1>9. ASSUME NEW t \in Task, Limited(t) PROVE RetryHonest'
  <2>1. PICK k \in Key, now \in 0..clock :
          /\ Level(k, now) < Period
          /\ Put(KeysFor(k, now), k, Level(k, now), now)
          /\ promise' = IF k # Watched THEN promise
                        ELSE [at |-> now, retry |-> RetryAfter(k, Level(k, now))]
    BY <1>9 DEF Limited
  <2>2. CASE k # Watched
    BY <1>8, <2>1, <2>2
  <2>3. CASE k = Watched
    <3> DEFINE L == Level(Watched, now)
               r == RetryAfter(Watched, L)
               C == Capacity[Watched]
    <3>1. L \in Nat /\ now \in Nat
      BY <1>2, <1>3, LevelType, KeyAssumption
    <3>2. r \in Nat /\ L + r * C >= Period
      BY <2>1, <2>3, <3>1, RetryType
    <3>3. Since(now + r, now) = r
      BY <3>1, <3>2 DEF Since
    <3>4. r * C \in Nat
      BY <1>3, <3>2
    <3>5. Lesser(L + r * C, Full(Watched)) >= Period
      BY <1>3, <3>1, <3>2, <3>4 DEF Lesser
    <3> HIDE DEF L, r, C
    <3>6. /\ Watched \in DOMAIN buckets' /\ buckets'[Watched].tokens = L
          /\ buckets'[Watched].updated = now
      BY <2>1, <2>3 DEF Put, L
    <3>7. promise'.at = now /\ promise'.retry = r
      BY <2>1, <2>3 DEF r, L
    <3> QED
      BY <3>3, <3>5, <3>6, <3>7 DEF RetryHonest, Level, C
  <2> QED
    BY <2>2, <2>3
<1>10. ASSUME NEW t \in Task, Admitted(t) PROVE RetryHonest'
  <2>1. PICK k \in Key, now \in 0..clock :
          /\ Put(KeysFor(k, now), k, Level(k, now) - Period, now)
          /\ promise' = IF k # Watched THEN promise ELSE None
    BY <1>10 DEF Admitted
  <2>2. CASE k # Watched
    BY <1>8, <2>1, <2>2
  <2>3. CASE k = Watched
    BY <2>1, <2>3 DEF RetryHonest
  <2> QED
    BY <2>2, <2>3
<1> QED
  BY <1>5, <1>6, <1>7, <1>9, <1>10 DEF Next, Check

(* Who was told to retry in n seconds and waits finds a token, unless      *)
(* another request took it.                                                *)
THEOREM RetriesAreHonest == Spec => []RetryHonest
<1>1. Init => RetryHonest
  BY DEF Init, RetryHonest
<1>2. Typed /\ [Next]_vars => Typed'
  BY StepTyped
<1>3. Typed /\ RetryHonest /\ [Next]_vars => RetryHonest'
  BY StepRetry
<1> QED
  BY InitTyped, <1>1, <1>2, <1>3, PTL DEF Spec

-----------------------------------------------------------------------------
(* What one call does to the budgets of others                             *)

(* A budget that a sweep forgets was full, at whatever time somebody asks  *)
(* for it next, also if the sweep read the clock long ago.                 *)
LEMMA SweptWasFull ==
  ASSUME Typed, NEW k \in DOMAIN buckets, NEW now \in Nat, k \notin Kept(now),
         NEW T \in Nat, T >= now
  PROVE  Level(k, T) = Full(k)
<1> DEFINE u == buckets[k].updated
           n == buckets[k].tokens
           C == Capacity[k]
<1>1. k \in Key /\ u \in Nat /\ n \in Nat /\ C \in Nat \ {0} /\ Full(k) \in Nat
  BY FullType DEF Typed, TypeOK
<1>2. now >= u /\ now - u >= IdleTTL
  BY <1>1, TimeAssumption DEF Kept, Since
<1>3. Since(T, u) = T - u /\ T - u \in Nat /\ T - u >= Period /\ Period \in Nat
  BY <1>1, <1>2, TimeAssumption DEF Since
<1>4. C * Period <= C * (T - u) /\ C * (T - u) = (T - u) * C /\ C * (T - u) \in Nat
  BY <1>1, <1>3, Monotone
<1>5. n + (T - u) * C >= Full(k)
  BY <1>1, <1>4 DEF Full
<1>6. Lesser(n + (T - u) * C, Full(k)) = Full(k)
  BY <1>1, <1>4, <1>5 DEF Lesser
<1> QED
  BY <1>3, <1>6 DEF Level

(* Refilling in two steps gives no less than refilling in one.             *)
LEMMA LateRefill ==
  ASSUME NEW C \in Nat, NEW F \in Nat, NEW x \in Nat, NEW a \in Nat, NEW b \in Nat,
         NEW e \in Nat, b <= a + e
  PROVE  Lesser(x + b * C, F) <= Lesser(Lesser(x + a * C, F) + e * C, F)
<1>1. C * b <= C * (a + e)
  BY Monotone
<1> DEFINE p == a * C
           q == b * C
           r == e * C
<1>2. p \in Nat /\ q \in Nat /\ r \in Nat /\ C * b = q /\ C * (a + e) = p + r
  BY Spread
<1> HIDE DEF p, q, r
<1>3. Lesser(x + q, F) <= Lesser(Lesser(x + p, F) + r, F)
  BY <1>1, <1>2 DEF Lesser
<1> QED
  BY <1>3 DEF p, q, r

(* What a budget holds at T is what it held before, and the refill.        *)
LEMMA LevelAhead ==
  ASSUME Typed, NEW k \in Key, NEW now \in Nat, NEW T \in Nat, T >= now
  PROVE  Level(k, T) <= Lesser(Level(k, now) + (T - now) * Capacity[k], Full(k))
<1> DEFINE u == buckets[k].updated
           n == buckets[k].tokens
           C == Capacity[k]
           F == Full(k)
<1>1. C \in Nat /\ F \in Nat /\ T - now \in Nat /\ (T - now) * C \in Nat
  BY FullType
<1>2. CASE k \notin DOMAIN buckets
  BY <1>1, <1>2 DEF Level, Lesser
<1>3. CASE k \in DOMAIN buckets
  <2>1. u \in Nat /\ n \in Nat
    BY <1>3, FullType DEF Typed, TypeOK
  <2>2. /\ Since(now, u) \in Nat /\ Since(T, u) \in Nat
        /\ Since(T, u) <= Since(now, u) + (T - now)
    BY <1>1, <2>1 DEF Since
  <2>3. /\ Level(k, T) = Lesser(n + Since(T, u) * C, F)
        /\ Level(k, now) = Lesser(n + Since(now, u) * C, F)
    BY <1>3 DEF Level
  <2> HIDE DEF n, C, F, u
  <2>4. Lesser(n + Since(T, u) * C, F)
          <= Lesser(Lesser(n + Since(now, u) * C, F) + (T - now) * C, F)
    BY <1>1, <2>1, <2>2, LateRefill
  <2> QED
    BY <2>3, <2>4 DEF C, F
<1> QED
  BY <1>2, <1>3

(* A check that leaves k `taken` units below what it finds.                *)
LEMMA CheckCosts ==
  ASSUME Typed, NEW k \in Key, NEW now \in Nat, NEW T \in Nat, T >= now,
         NEW taken \in {0, Period}, Level(k, now) >= taken,
         Put(KeysFor(k, now), k, Level(k, now) - taken, now)
  PROVE  Level(k, T)' + taken >= Level(k, T)
<1> DEFINE L == Level(k, now)
           F == Full(k)
           x == (T - now) * Capacity[k]
<1>1. L \in Nat /\ L <= F /\ F \in Nat /\ x \in Nat /\ taken \in Nat
  BY LevelType, FullType, TimeAssumption DEF Typed
<1>2. k \in DOMAIN buckets' /\ buckets'[k] = [tokens |-> L - taken, updated |-> now]
  BY DEF Put
<1>3. Level(k, T)' = Lesser(L - taken + Since(T, now) * Capacity[k], F)
  BY <1>2 DEF Level, Full
<1>4. Since(T, now) = T - now
  BY DEF Since
<1>5. Level(k, T) <= Lesser(L + x, F) /\ Level(k, T) \in Nat
  BY LevelAhead, LevelType, FullType DEF Typed
<1> HIDE DEF L, F, x
<1>6. Lesser(L - taken + x, F) + taken >= Lesser(L + x, F)
  BY <1>1 DEF Lesser
<1>7. Lesser(L - taken + x, F) \in Int /\ Lesser(L + x, F) \in Int
  BY <1>1 DEF Lesser
<1> QED
  BY <1>1, <1>3, <1>4, <1>5, <1>6, <1>7 DEF x

(* Whoever is swept out, and in whatever order the calls read the clock: a *)
(* budget is worth the same, to those that read the clock from now on,     *)
(* after every call that is not about it; a refused call costs nothing, an *)
(* admitted one a token at most (check_at writes the refilled bucket back  *)
(* also when it refuses).                                                  *)
Asks(t, k) == Check(t) /\ call[t].key = k
EachItsOwn ==
  \A k \in Key : \A T \in Nat : T >= clock =>
    /\ Level(k, T)' + Period >= Level(k, T)
    /\ (~\E t \in Task : Admitted(t) /\ Asks(t, k)) => Level(k, T)' >= Level(k, T)
    /\ (~\E t \in Task : Asks(t, k)) => Level(k, T)' = Level(k, T)

LEMMA KeptOrSwept ==
  ASSUME Typed, NEW k \in Key, NEW now \in Nat, NEW T \in Nat, T >= now,
         k \in DOMAIN buckets' => k \in DOMAIN buckets /\ buckets'[k] = buckets[k],
         k \in DOMAIN buckets /\ k \notin DOMAIN buckets' => k \notin Kept(now)
  PROVE  Level(k, T)' = Level(k, T)
<1>1. CASE k \in DOMAIN buckets'
  BY <1>1 DEF Level, Full
<1>2. CASE k \notin DOMAIN buckets'
  <2>1. Level(k, T)' = Full(k)
    BY <1>2 DEF Level, Full
  <2>2. Level(k, T) = Full(k)
    BY <1>2, SweptWasFull DEF Level
  <2> QED
    BY <2>1, <2>2
<1> QED
  BY <1>1, <1>2

THEOREM NobodyPaysForOthers == Spec => [][EachItsOwn]_vars
<1>1. ASSUME Typed, [Next]_vars, NEW k \in Key, NEW T \in Nat, T >= clock
      PROVE  /\ Level(k, T)' + Period >= Level(k, T)
             /\ (~\E t \in Task : Admitted(t) /\ Asks(t, k)) => Level(k, T)' >= Level(k, T)
             /\ (~\E t \in Task : Asks(t, k)) => Level(k, T)' = Level(k, T)
  <2>1. clock \in Nat /\ Period \in Nat /\ Level(k, T) \in Nat
    BY <1>1, LevelType, FullType, TimeAssumption DEF Typed, TypeOK
  <2>2. CASE Level(k, T)' = Level(k, T)
    BY <2>1, <2>2
  <2>3. CASE buckets' = buckets
    BY <2>2, <2>3 DEF Level, Full
  <2>4. ASSUME NEW t \in Task, Unavailable(t) PROVE Level(k, T)' = Level(k, T)
    <3>1. PICK j \in Key, now \in 0..clock :
            MapFull(j, KeysFor(j, now)) /\ buckets' = [i \in KeysFor(j, now) |-> buckets[i]]
      BY <2>4 DEF Unavailable
    <3>2. now \in Nat /\ T >= now
      BY <1>1, <2>1
    <3>3. DOMAIN buckets' = KeysFor(j, now) /\ KeysFor(j, now) \subseteq DOMAIN buckets
      BY <1>1, <3>1, <3>2, KeysForType
    <3>4. k \in DOMAIN buckets /\ k \notin DOMAIN buckets' => k \notin Kept(now)
      BY <3>3 DEF KeysFor
    <3> QED
      BY <1>1, <3>1, <3>2, <3>3, <3>4, KeptOrSwept
  <2>5. CASE Maintain
    <3>1. PICK now \in 0..clock : buckets' = [i \in Kept(now) |-> buckets[i]]
      BY <2>5 DEF Maintain
    <3>2. now \in Nat /\ T >= now
      BY <1>1, <2>1
    <3>3. DOMAIN buckets' = Kept(now) /\ Kept(now) \subseteq DOMAIN buckets
      BY <3>1 DEF Kept
    <3>4. Level(k, T)' = Level(k, T)
      BY <1>1, <3>1, <3>2, <3>3, KeptOrSwept
    <3> QED
      BY <2>2, <3>4
  <2>6. ASSUME NEW t \in Task, NEW j \in Key, NEW now \in 0..clock, NEW taken \in {0, Period},
               Limited(t) \/ Admitted(t), Checking(t, j, now), Level(j, now) >= taken,
               Put(KeysFor(j, now), j, Level(j, now) - taken, now),
               taken = Period => Admitted(t)
        PROVE  /\ Level(k, T)' + Period >= Level(k, T)
               /\ (~Admitted(t) \/ j # k) => Level(k, T)' >= Level(k, T)
               /\ j # k => Level(k, T)' = Level(k, T)
    <3>1. now \in Nat /\ T >= now
      BY <1>1, <2>1
    <3>2. CASE j # k
      <4>1. /\ k \in DOMAIN buckets' <=> k \in KeysFor(j, now)
            /\ k \in DOMAIN buckets' => buckets'[k] = buckets[k]
        BY <2>6, <3>2 DEF Put
      <4>2. KeysFor(j, now) \subseteq DOMAIN buckets
        BY <1>1, <3>1, KeysForType
      <4>3. k \in DOMAIN buckets /\ k \notin DOMAIN buckets' => k \notin Kept(now)
        BY <4>1 DEF KeysFor
      <4>4. Level(k, T)' = Level(k, T)
        BY <1>1, <3>1, <4>1, <4>2, <4>3, KeptOrSwept
      <4> QED
        BY <2>1, <3>2, <4>4
    <3>3. CASE j = k
      <4>1. Level(k, T)' + taken >= Level(k, T)
        BY <1>1, <2>6, <3>1, <3>3, CheckCosts
      <4>2. Level(k, T)' \in Int
        <5>1. /\ Level(k, now) \in Nat /\ Full(k) \in Nat /\ Capacity[k] \in Nat
              /\ taken \in Nat /\ Since(T, now) \in Nat
          <6>1. Level(k, now) \in 0..Full(k) /\ Full(k) \in Nat /\ Capacity[k] \in Nat
            BY <1>1, <3>1, LevelType, FullType DEF Typed
          <6>2. taken \in Nat
            BY <2>1
          <6>3. Since(T, now) \in Nat
            BY <3>1, SinceType
          <6> QED
            BY <6>1, <6>2, <6>3
        <5>2. Level(k, T)' = Lesser(Level(k, now) - taken + Since(T, now) * Capacity[k], Full(k))
          BY <2>6, <3>3 DEF Put, Level, Full
        <5>3. Since(T, now) * Capacity[k] \in Nat
          BY <5>1
        <5> QED
          BY <5>1, <5>2, <5>3 DEF Lesser
      <4> QED
        BY <2>1, <2>6, <3>3, <4>1, <4>2
    <3> QED
      BY <3>2, <3>3
  <2>7. ASSUME NEW t \in Task, Limited(t) \/ Admitted(t)
        PROVE  \E j \in Key, now \in 0..clock, taken \in {0, Period} :
                 /\ Checking(t, j, now) /\ Level(j, now) >= taken
                 /\ Put(KeysFor(j, now), j, Level(j, now) - taken, now)
                 /\ taken = Period => Admitted(t)
    <3>1. CASE Limited(t)
      <4>1. PICK j \in Key, now \in 0..clock :
              Checking(t, j, now) /\ Put(KeysFor(j, now), j, Level(j, now), now)
        BY <3>1 DEF Limited
      <4>2. Level(j, now) \in Nat /\ Level(j, now) - 0 = Level(j, now) /\ Level(j, now) >= 0
        BY <1>1, <2>1, LevelType, FullType DEF Typed
      <4>3. 0 # Period
        BY TimeAssumption
      <4> QED
        BY <4>1, <4>2, <4>3
    <3>2. CASE Admitted(t)
      BY <3>2 DEF Admitted
    <3> QED
      BY <2>7, <3>1, <3>2
  <2>8. ASSUME NEW t \in Task, Limited(t) \/ Admitted(t)
        PROVE  /\ Level(k, T)' + Period >= Level(k, T)
               /\ (~(Admitted(t) /\ Asks(t, k))) => Level(k, T)' >= Level(k, T)
               /\ ~Asks(t, k) => Level(k, T)' = Level(k, T)
    <3>1. PICK j \in Key, now \in 0..clock, taken \in {0, Period} :
                 /\ Checking(t, j, now) /\ Level(j, now) >= taken
                 /\ Put(KeysFor(j, now), j, Level(j, now) - taken, now)
                 /\ taken = Period => Admitted(t)
      BY <2>7, <2>8
    <3>2. j = k => Asks(t, k)
      BY <2>8, <3>1 DEF Asks, Check, Checking
    <3> QED
      BY <2>6, <2>8, <3>1, <3>2
  <2> QED
    BY <1>1, <2>2, <2>3, <2>4, <2>5, <2>8
    DEF Next, Check, Called, MaintainCalled, Tick, OpenWindow, vars
<1>2. ASSUME Typed, [Next]_vars PROVE EachItsOwn
  BY <1>1, <1>2 DEF EachItsOwn
<1>3. Typed /\ [Next]_vars => Typed'
  BY StepTyped
<1> QED
  BY <1>2, <1>3, InitTyped, PTL DEF Spec
=============================================================================
