------------------------------ MODULE Admission ------------------------------
(***************************************************************************)
(* The request budgets of src/src/admission.rs: a bounded map of token     *)
(* buckets, one per budget (Connection(ip), Creation(ip) or Room(id)),     *)
(* behind one mutex.                                                       *)
(*                                                                         *)
(* Time is counted in whole seconds and tokens in units of 1/Period token, *)
(* so that every product in check_at is an integer: a bucket of capacity n *)
(* is full at n * Period units and gains n units a second (the code's      *)
(* refill, capacity / 60).  The rounding of f64 is left out.               *)
(*                                                                         *)
(* check and maintain read Instant::now() before they take the mutex, so   *)
(* a call can hold a time that is older than one already applied.  What a  *)
(* call does under the mutex is one step.                                  *)
(***************************************************************************)
EXTENDS Naturals, FiniteSets

CONSTANTS
  Key,         \* the budgets
  Capacity,    \* Capacity[k]: 30, 5 or 20 tokens, by the kind of k
  Period,      \* seconds in which an empty bucket fills: 60
  MaxBuckets,  \* MAX_BUCKETS
  IdleTTL,     \* IDLE_TTL
  Task,        \* requests that call check, one at a time each
  Sweeper,     \* the maintenance task
  Watched,     \* the budget whose admissions are counted
  MaxClock     \* bound of the model: the last second

ASSUME KeyAssumption == Capacity \in [Key -> Nat \ {0}] /\ Watched \in Key
ASSUME TaskAssumption == Sweeper \notin Task
ASSUME TimeAssumption ==
  /\ Period \in Nat \ {0} /\ IdleTTL \in Nat /\ MaxClock \in Nat
  /\ MaxBuckets \in Nat \ {0}
  /\ IdleTTL >= Period   \* an idle bucket is full before it is forgotten

VARIABLES
  clock,    \* Instant::now(), in seconds since the start
  buckets,  \* Limits.buckets: a function on the keys it holds
  call,     \* the call each task is in, with the time it has read
  promise,  \* history: the last Limited(retry) of the watched budget, if
            \* nothing was spent of it since
  audit     \* history: what the watched budget admitted in a window of time

vars == <<clock, buckets, call, promise, audit>>

None  == [at |-> 0]
Idle  == [op |-> "idle"]
Calls == {Idle}
         \cup [op : {"check"}, key : Key, now : Nat]
         \cup [op : {"maintain"}, now : Nat]

Full(k) == Capacity[k] * Period

TypeOK ==
  /\ clock \in Nat
  /\ DOMAIN buckets \in SUBSET Key
  /\ Cardinality(DOMAIN buckets) <= MaxBuckets
  /\ \A k \in DOMAIN buckets : buckets[k] \in [tokens : 0..Full(k), updated : Nat]
  /\ call \in [Task \cup {Sweeper} -> Calls]
  /\ promise \in {None} \cup [at : Nat, retry : Nat]
  /\ audit \in [base : Nat, seen : Nat, spent : Nat, back : Nat]

Init ==
  /\ clock = 0
  /\ buckets = [k \in {} |-> [tokens |-> 0, updated |-> 0]]
  /\ call = [t \in Task \cup {Sweeper} |-> Idle]
  /\ promise = None
  /\ audit = [base |-> 0, seen |-> 0, spent |-> 0, back |-> 0]

-----------------------------------------------------------------------------
Lesser(a, b)  == IF a < b THEN a ELSE b
Greater(a, b) == IF a < b THEN b ELSE a
Since(now, then) == IF now < then THEN 0 ELSE now - then   \* saturating

(* retain(.. < IDLE_TTL): the keys that a sweep at `now` leaves. *)
KeptHalfTime(now) ==                                                 \* mutant
  {k \in DOMAIN buckets : Since(now, buckets[k].updated) < IdleTTL \div 2}
Kept(now) == {k \in DOMAIN buckets : Since(now, buckets[k].updated) < IdleTTL}

(* The keys left when k has been looked up: a full map is swept for a new  *)
(* key, and only then.                                                     *)
MapFull(k, D) == k \notin D /\ Cardinality(D) >= MaxBuckets
KeysFor(k, now) ==
  IF MapFull(k, DOMAIN buckets) THEN Kept(now) ELSE DOMAIN buckets

(* The tokens of k at `now`; a key without an entry has a full bucket.     *)
LevelUncapped(k, now) ==                                             \* mutant
  IF k \notin DOMAIN buckets THEN Full(k)
  ELSE buckets[k].tokens + Since(now, buckets[k].updated) * Capacity[k]
Level(k, now) ==
  IF k \notin DOMAIN buckets THEN Full(k)
  ELSE Lesser(buckets[k].tokens + Since(now, buckets[k].updated) * Capacity[k],
              Full(k))

(* The keys D remain; k, of them or new, holds `tokens` from `now` on. *)
Put(D, k, tokens, now) ==
  buckets' = [j \in D \cup {k} |->
                IF j = k THEN [tokens |-> tokens, updated |-> now] ELSE buckets[j]]

(* ((1.0 - tokens) / refill).ceil() *)
RetryRoundedDown(k, level) == (Period - level) \div Capacity[k]      \* mutant
RetryAfter(k, level) == (Period - level + Capacity[k] - 1) \div Capacity[k]

(* History: `seen` is the latest time applied to the watched budget, be it *)
(* by a check or by the sweep that forgot it; `back` adds up by how much   *)
(* the times of its checks lay behind.                                     *)
Forgetting(D, now) ==
  IF Watched \in (DOMAIN buckets) \ D
  THEN [audit EXCEPT !.seen = Greater(@, now)] ELSE audit
Audit(k, D, now, n) ==
  audit' = IF k # Watched THEN Forgetting(D, now)
           ELSE [audit EXCEPT !.seen = Greater(@, now),
                              !.back = @ + Since(audit.seen, now),
                              !.spent = @ + n]
-----------------------------------------------------------------------------
(* Admission::check *)

Called(t, k) ==
  /\ call[t] = Idle
  /\ call' = [call EXCEPT ![t] = [op |-> "check", key |-> k, now |-> clock]]
  /\ UNCHANGED <<clock, buckets, promise, audit>>

Checking(t, k, now) == call[t] = [op |-> "check", key |-> k, now |-> now]
Return(t) == call' = [call EXCEPT ![t] = Idle]

Unavailable(t) ==
  \E k \in Key : \E now \in 0..clock :
    /\ Checking(t, k, now)
    /\ MapFull(k, KeysFor(k, now))
    /\ buckets' = [j \in KeysFor(k, now) |-> buckets[j]]
    /\ audit' = Forgetting(KeysFor(k, now), now)
    /\ Return(t)
    /\ UNCHANGED <<clock, promise>>

(* A refused call refreshes the bucket all the same. *)
Limited(t) ==
  \E k \in Key : \E now \in 0..clock :
    /\ Checking(t, k, now)
    /\ ~MapFull(k, KeysFor(k, now))
    /\ Level(k, now) < Period
    /\ Put(KeysFor(k, now), k, Level(k, now), now)
    /\ promise' = IF k # Watched THEN promise
                  ELSE [at |-> now, retry |-> RetryAfter(k, Level(k, now))]
    /\ Audit(k, KeysFor(k, now), now, 0)
    /\ Return(t)
    /\ UNCHANGED clock

Admitted(t) ==
  \E k \in Key : \E now \in 0..clock :
    /\ Checking(t, k, now)
    /\ ~MapFull(k, KeysFor(k, now))
    /\ Level(k, now) >= Period
    /\ Put(KeysFor(k, now), k, Level(k, now) - Period, now)
    /\ promise' = IF k # Watched THEN promise ELSE None
    /\ Audit(k, KeysFor(k, now), now, 1)
    /\ Return(t)
    /\ UNCHANGED clock

-----------------------------------------------------------------------------
(* Admission::maintain *)

MaintainCalled ==
  /\ call[Sweeper] = Idle
  /\ call' = [call EXCEPT ![Sweeper] = [op |-> "maintain", now |-> clock]]
  /\ UNCHANGED <<clock, buckets, promise, audit>>

Maintain ==
  \E now \in 0..clock :
    /\ call[Sweeper] = [op |-> "maintain", now |-> now]
    /\ buckets' = [j \in Kept(now) |-> buckets[j]]
    /\ audit' = Forgetting(Kept(now), now)
    /\ Return(Sweeper)
    /\ UNCHANGED <<clock, promise>>

Tick ==
  /\ clock < MaxClock
  /\ clock' = clock + 1
  /\ UNCHANGED <<buckets, call, promise, audit>>

(* History: a new window of time starts being counted. *)
OpenWindow ==
  /\ audit' = [base |-> clock, seen |-> clock, spent |-> 0, back |-> 0]
  /\ UNCHANGED <<clock, buckets, call, promise>>

Check(t) == Unavailable(t) \/ Limited(t) \/ Admitted(t)

Next ==
  \/ \E t \in Task : (\E k \in Key : Called(t, k)) \/ Check(t)
  \/ MaintainCalled \/ Maintain
  \/ Tick \/ OpenWindow

Spec == Init /\ [][Next]_vars

-----------------------------------------------------------------------------
(* In any window of time a budget admits at most its capacity and what is  *)
(* refilled meanwhile.  Forgetting an idle bucket gives nothing away; each *)
(* call that was overtaken since it read the clock (`back`) adds the       *)
(* seconds it was late, for they are refilled twice.                       *)
BudgetHeld ==
  audit.spent * Period <=
    Full(Watched) + Capacity[Watched] * (clock - audit.base + audit.back)

(* A client that was told to retry in n seconds, and waits, finds a token  *)
(* there unless another request took it.                                   *)
RetryHonest ==
  promise # None => Level(Watched, promise.at + promise.retry) >= Period
=============================================================================
