----------------------------- MODULE GateProofs -----------------------------
(***************************************************************************)
(* Theorems about Gate, for every finite set of creations and of sockets,  *)
(* every assignment of addresses and every limit.                          *)
(***************************************************************************)
EXTENDS Gate, FiniteSetTheorems, TLAPS

-----------------------------------------------------------------------------
(* The inductive invariant *)

(* A request that has not asked for a computation has none. *)
JobInv ==
  \A q \in Request :
    pc[q] \in {"new", "lookup", "upgrading", "requiring", "awaiting", "ponging"}
      => job[q] = "none"

(* A guard is owned from the lookup of a protected room to the end of      *)
(* authenticate, and by nobody else.                                       *)
OwnerInv ==
  \A s \in Socket :
    s \in guarded <=> \/ pc[s] \in Authenticating
                      \/ pc[s] = "upgrading" /\ found[s] = "protected"

(* Nothing takes a protected room for an open one on the way from the      *)
(* creation request to the check of a password.                            *)
PasswordInv ==
  /\ \A r \in Creation : pc[r] = "inserting" /\ hash[r] = "null" => wants[r] = "open"
  /\ \A s \in Socket : pc[s] = "upgrading" /\ found[s] = "open" => wants[target[s]] = "open"
  /\ \A s \in Socket : job[s] = "ok" => correct[s]

(* A room asked for with a password is never stored as an open one.        *)
NoOpenFallback == \A r \in Creation : row[r] = "open" => wants[r] = "open"

IInv ==
  /\ TypeOK /\ JobInv /\ OwnerInv /\ PasswordInv
  /\ NoOpenFallback /\ GateHolds /\ PermitsConserved /\ PendingConserved

-----------------------------------------------------------------------------
(* Counting guards *)

Held(a, G) == {s \in G : AddressOf[s] = a}

LEMMA HeldFacts ==
  ASSUME NEW G \in SUBSET Socket, NEW a \in Address
  PROVE  /\ IsFiniteSet(G) /\ IsFiniteSet(Held(a, G))
         /\ Cardinality(G) \in Nat /\ Cardinality(Held(a, G)) \in Nat
         /\ \A s \in Held(a, G) : Cardinality(Held(a, G)) # 0 /\ Cardinality(G) # 0
<1>1. IsFiniteSet(G)
  BY FS_Subset, RequestAssumption
<1>2. Held(a, G) \in SUBSET G
  BY DEF Held
<1>3. IsFiniteSet(Held(a, G))
  BY <1>1, <1>2, FS_Subset
<1> QED
  BY <1>1, <1>2, <1>3, FS_CardinalityType, FS_EmptySet

(* PendingConserved in terms of Held. *)
LEMMA Conserved ==
  PendingConserved <=> /\ pending_total = Cardinality(guarded)
                       /\ \A a \in Address : pending[a] = Cardinality(Held(a, guarded))
BY DEF PendingConserved, Held

LEMMA ConservedNext ==
  PendingConserved' <=> /\ pending_total' = Cardinality(guarded')
                        /\ \A a \in Address : pending'[a] = Cardinality(Held(a, guarded'))
BY DEF PendingConserved, Held

LEMMA TakeFacts ==
  ASSUME TypeOK, PendingConserved, NEW s \in Socket, s \notin guarded,
         HasGuard(AddressOf[s]), TakeGuard(s)
  PROVE  /\ guarded' = guarded \cup {s} /\ guarded' \in SUBSET Socket
         /\ pending' \in [Address -> 0..MaxPendingPerIp]
         /\ pending_total' \in 0..MaxPending
         /\ PendingConserved'
<1> DEFINE b == AddressOf[s]
<1>1. b \in Address
  BY RequestAssumption
<1>2. guarded \in SUBSET Socket /\ guarded' = guarded \cup {s} /\ guarded' \in SUBSET Socket
  BY DEF TypeOK, TakeGuard
<1>3. /\ pending \in [Address -> 0..MaxPendingPerIp]
      /\ pending' = [pending EXCEPT ![b] = @ + 1]
      /\ pending_total \in 0..MaxPending /\ pending_total' = pending_total + 1
  BY DEF TypeOK, TakeGuard
<1>4. pending_total < MaxPending /\ pending[b] < MaxPendingPerIp
  BY DEF HasGuard
<1>5. pending' \in [Address -> 0..MaxPendingPerIp] /\ pending_total' \in 0..MaxPending
  BY <1>1, <1>3, <1>4, LimitsAssumption
<1>6. pending_total' = Cardinality(guarded')
  BY <1>1, <1>2, <1>3, Conserved, HeldFacts, FS_AddElement
<1>7. ASSUME NEW a \in Address PROVE pending'[a] = Cardinality(Held(a, guarded'))
  <2>1. CASE a = b
    <3>1. Held(a, guarded') = Held(a, guarded) \cup {s} /\ s \notin Held(a, guarded)
      BY <1>2, <2>1 DEF Held
    <3>2. Cardinality(Held(a, guarded')) = Cardinality(Held(a, guarded)) + 1
      BY <1>2, <3>1, HeldFacts, FS_AddElement
    <3> QED
      BY <1>1, <1>3, <2>1, <3>2, Conserved
  <2>2. CASE a # b
    <3>1. Held(a, guarded') = Held(a, guarded)
      BY <1>2, <2>2 DEF Held
    <3> QED
      BY <1>3, <2>2, <3>1, Conserved
  <2> QED
    BY <2>1, <2>2
<1> QED
  BY <1>2, <1>5, <1>6, <1>7, ConservedNext

LEMMA DropFacts ==
  ASSUME TypeOK, PendingConserved, NEW s \in Socket, DropGuard(s)
  PROVE  /\ guarded' = guarded \ {s} /\ guarded' \in SUBSET Socket
         /\ pending' \in [Address -> 0..MaxPendingPerIp]
         /\ pending_total' \in 0..MaxPending
         /\ PendingConserved'
<1> DEFINE b == AddressOf[s]
<1>1. b \in Address /\ guarded \in SUBSET Socket
  BY RequestAssumption DEF TypeOK
<1>2. CASE s \notin guarded
  <2>1. UNCHANGED guards /\ guarded \ {s} = guarded
    BY <1>2 DEF DropGuard
  <2> QED
    BY <2>1 DEF guards, TypeOK, PendingConserved
<1>3. CASE s \in guarded
  <2>1. /\ guarded' = guarded \ {s}
        /\ pending' = [pending EXCEPT ![b] = @ - 1]
        /\ pending_total' = pending_total - 1
    BY <1>3 DEF DropGuard
  <2>2. s \in Held(b, guarded)
    BY <1>3 DEF Held
  <2>3. /\ pending_total = Cardinality(guarded) /\ pending_total # 0
        /\ pending[b] = Cardinality(Held(b, guarded)) /\ pending[b] # 0
    BY <1>1, <2>2, Conserved, HeldFacts
  <2>4. /\ pending \in [Address -> 0..MaxPendingPerIp] /\ pending_total \in 0..MaxPending
    BY DEF TypeOK
  <2>5. pending' \in [Address -> 0..MaxPendingPerIp] /\ pending_total' \in 0..MaxPending
    BY <1>1, <2>1, <2>3, <2>4, LimitsAssumption
  <2>6. pending_total' = Cardinality(guarded')
    BY <1>1, <1>3, <2>1, <2>3, HeldFacts, FS_RemoveElement
  <2>7. ASSUME NEW a \in Address PROVE pending'[a] = Cardinality(Held(a, guarded'))
    <3>1. CASE a = b
      <4>1. Held(a, guarded') = Held(a, guarded) \ {s} /\ s \in Held(a, guarded)
        BY <2>1, <2>2, <3>1 DEF Held
      <4>2. Cardinality(Held(a, guarded')) = Cardinality(Held(a, guarded)) - 1
        BY <1>1, <4>1, HeldFacts, FS_RemoveElement
      <4> QED
        BY <1>1, <2>1, <2>3, <2>4, <3>1, <4>2
    <3>2. CASE a # b
      <4>1. Held(a, guarded') = Held(a, guarded)
        BY <2>1, <3>2 DEF Held
      <4> QED
        BY <2>1, <2>4, <3>2, <4>1, Conserved
    <3> QED
      BY <3>1, <3>2
  <2> QED
    BY <1>1, <2>1, <2>5, <2>6, <2>7, ConservedNext
<1> QED
  BY <1>2, <1>3

-----------------------------------------------------------------------------
(* Counting permits *)

Running(j) == {q \in Request : j[q] = "running"}

LEMMA RunningFacts ==
  ASSUME NEW j
  PROVE  /\ IsFiniteSet(Running(j)) /\ Cardinality(Running(j)) \in Nat
         /\ \A q \in Running(j) : Cardinality(Running(j)) # 0
<1>1. IsFiniteSet(Request)
  BY FS_Union, RequestAssumption DEF Request
<1>2. Running(j) \in SUBSET Request
  BY DEF Running
<1>3. IsFiniteSet(Running(j))
  BY <1>1, <1>2, FS_Subset
<1> QED
  BY <1>3, FS_CardinalityType, FS_EmptySet

LEMMA StartFacts ==
  ASSUME TypeOK, PermitsConserved, NEW q \in Request, job[q] = "none", StartJob(q)
  PROVE  /\ slots' \in 0..Slots
         /\ job' \in [Request -> {"none", "running", "ok", "bad", "error"}]
         /\ job'[q] = "running" /\ \A p \in Request \ {q} : job'[p] = job[p]
         /\ PermitsConserved'
<1>1. /\ slots \in 0..Slots /\ slots > 0 /\ slots' = slots - 1
      /\ job \in [Request -> {"none", "running", "ok", "bad", "error"}]
      /\ job' = [job EXCEPT ![q] = "running"]
  BY DEF TypeOK, StartJob
<1>2. Running(job') = Running(job) \cup {q} /\ q \notin Running(job)
  BY <1>1 DEF Running
<1>3. Cardinality(Running(job')) = Cardinality(Running(job)) + 1
  BY <1>2, RunningFacts, FS_AddElement
<1>4. slots + Cardinality(Running(job)) = Slots
  BY DEF PermitsConserved, Running
<1>5. slots' + Cardinality(Running(job')) = Slots
  BY <1>1, <1>3, <1>4, RunningFacts, LimitsAssumption
<1> QED
  BY <1>1, <1>5, LimitsAssumption DEF PermitsConserved, Running

LEMMA EndFacts ==
  ASSUME TypeOK, PermitsConserved, NEW q \in Request, JobEnds(q)
  PROVE  /\ slots' \in 0..Slots
         /\ job' \in [Request -> {"none", "running", "ok", "bad", "error"}]
         /\ \A p \in Request \ {q} : job'[p] = job[p]
         /\ job'[q] \in {"ok", "bad", "error"}
         /\ q \notin Creation /\ job'[q] = "ok" => correct[q]
         /\ PermitsConserved'
<1>1. PICK result \in {"ok", "bad", "error"} :
        /\ job' = [job EXCEPT ![q] = result]
        /\ q \notin Creation /\ result = "ok" => correct[q]
  BY DEF JobEnds
<1>2. /\ slots \in 0..Slots /\ slots' = slots + 1 /\ job[q] = "running"
      /\ job \in [Request -> {"none", "running", "ok", "bad", "error"}]
  BY DEF TypeOK, JobEnds
<1>3. Running(job') = Running(job) \ {q} /\ q \in Running(job)
  BY <1>1, <1>2 DEF Running
<1>4. Cardinality(Running(job')) = Cardinality(Running(job)) - 1
  BY <1>3, RunningFacts, FS_RemoveElement
<1>5. slots + Cardinality(Running(job)) = Slots
  BY DEF PermitsConserved, Running
<1>6. /\ slots' + Cardinality(Running(job')) = Slots
      /\ Cardinality(Running(job)) \in Nat \ {0}
  BY <1>2, <1>3, <1>4, <1>5, RunningFacts, LimitsAssumption
<1>7. slots' \in 0..Slots
  BY <1>2, <1>5, <1>6, LimitsAssumption
<1> QED
  BY <1>1, <1>2, <1>6, <1>7 DEF PermitsConserved, Running

-----------------------------------------------------------------------------
(* Initial states *)

LEMMA InitInv == Init => IInv
<1> SUFFICES ASSUME Init PROVE IInv
  OBVIOUS
<1>1. TypeOK /\ JobInv /\ OwnerInv /\ PasswordInv /\ NoOpenFallback /\ GateHolds
  BY LimitsAssumption
  DEF Init, TypeOK, JobInv, OwnerInv, PasswordInv, NoOpenFallback, GateHolds,
      Places, Authenticating, Timed, Request
<1>2. Running(job) = {}
  BY DEF Init, Running
<1>3. PermitsConserved
  BY <1>2, FS_EmptySet, LimitsAssumption DEF Init, PermitsConserved, Running
<1>4. \A a \in Address : Held(a, {}) = {}
  BY DEF Held
<1>5. PendingConserved
  BY <1>4, Conserved, FS_EmptySet DEF Init
<1> QED
  BY <1>1, <1>3, <1>5 DEF IInv

-----------------------------------------------------------------------------
(* Steps of a creation request *)

(* What every step leaves alone in most of its conjuncts. *)
LEMMA KeepGuards ==
  ASSUME PendingConserved, UNCHANGED guards PROVE PendingConserved'
BY DEF PendingConserved, guards

LEMMA KeepPermits ==
  ASSUME PermitsConserved, UNCHANGED kdf PROVE PermitsConserved'
BY DEF PermitsConserved, kdf

LEMMA CreateStep ==
  ASSUME IInv, NEW r \in Creation, Create(r)
  PROVE  IInv'
<1> USE RequestAssumption DEF Request, Goto, creation, socket
<1>1. r \in Request /\ r \notin Socket
  OBVIOUS
<1>2. CASE CreateRefused(r) \/ CreateOpen(r) \/ CreateBusy(r) \/ InsertFails(r)
  <2>1. UNCHANGED <<row, creation, socket, guards, kdf>>
    BY <1>2 DEF CreateRefused, CreateOpen, CreateBusy, InsertFails
  <2>2. PendingConserved' /\ PermitsConserved'
    BY <2>1, KeepGuards, KeepPermits DEF IInv
  <2>3. TypeOK'
    BY <1>2, <2>1 DEF IInv, TypeOK, CreateRefused, CreateOpen, CreateBusy, InsertFails,
                      Places, guards, kdf
  <2>4. JobInv' /\ OwnerInv' /\ PasswordInv' /\ NoOpenFallback' /\ GateHolds'
    BY <1>2, <2>1
    DEF IInv, TypeOK, JobInv, OwnerInv, PasswordInv, NoOpenFallback, GateHolds,
        CreateRefused, CreateOpen, CreateBusy, InsertFails, guards, kdf
  <2> QED
    BY <2>2, <2>3, <2>4 DEF IInv
<1>3. CASE CreateHashing(r)
  <2>1. job[r] = "none" /\ StartJob(r) /\ UNCHANGED <<row, creation, socket, guards>>
    BY <1>1, <1>3 DEF IInv, JobInv, CreateHashing
  <2>2. PendingConserved'
    BY <2>1, KeepGuards DEF IInv
  <2>3. TypeOK' /\ PermitsConserved'
    BY <1>1, <1>3, <2>1, StartFacts DEF IInv, TypeOK, CreateHashing, Places, guards
  <2>4. JobInv' /\ OwnerInv' /\ PasswordInv' /\ NoOpenFallback' /\ GateHolds'
    BY <1>1, <1>3, <2>1, StartFacts
    DEF IInv, TypeOK, JobInv, OwnerInv, PasswordInv, NoOpenFallback, GateHolds,
        CreateHashing, guards
  <2> QED
    BY <2>2, <2>3, <2>4 DEF IInv
<1>4. CASE Hashed(r)
  <2>1. UNCHANGED <<row, wants, socket, guards, kdf>>
    BY <1>4 DEF Hashed
  <2>2. PendingConserved' /\ PermitsConserved'
    BY <2>1, KeepGuards, KeepPermits DEF IInv
  <2>3. TypeOK'
    BY <1>4 DEF IInv, TypeOK, Hashed, Places, guards, kdf
  <2>4. JobInv' /\ OwnerInv' /\ PasswordInv' /\ NoOpenFallback' /\ GateHolds'
    BY <1>1, <1>4
    DEF IInv, TypeOK, JobInv, OwnerInv, PasswordInv, NoOpenFallback, GateHolds,
        Hashed, guards, kdf
  <2> QED
    BY <2>2, <2>3, <2>4 DEF IInv
<1>5. CASE Inserted(r) \/ CreateAbandoned(r)
  <2>1. /\ UNCHANGED <<creation, socket, guards, kdf>>
        /\ row' = row \/ (pc[r] = "inserting" /\ row' = Stored(r))
    <3>1. CASE Inserted(r)
      BY <3>1 DEF Inserted
    <3>2. CASE CreateAbandoned(r)
      BY <3>2 DEF CreateAbandoned
    <3> QED
      BY <1>5, <3>1, <3>2
  <2>2. PendingConserved' /\ PermitsConserved'
    BY <2>1, KeepGuards, KeepPermits DEF IInv
  <2>3. TypeOK'
    BY <1>5, <2>1
    DEF IInv, TypeOK, Inserted, CreateAbandoned, Stored, Places, guards, kdf
  <2>4. JobInv' /\ OwnerInv' /\ PasswordInv' /\ NoOpenFallback' /\ GateHolds'
    BY <1>1, <1>5, <2>1
    DEF IInv, TypeOK, JobInv, OwnerInv, PasswordInv, NoOpenFallback, GateHolds,
        Inserted, CreateAbandoned, Stored, guards, kdf
  <2> QED
    BY <2>2, <2>3, <2>4 DEF IInv
<1>6. CASE Expired(r)
  <2>1. UNCHANGED <<creation, pc, socket, guards, kdf>>
    BY <1>6 DEF Expired
  <2>2. PendingConserved' /\ PermitsConserved'
    BY <2>1, KeepGuards, KeepPermits DEF IInv
  <2>3. TypeOK' /\ NoOpenFallback'
    BY <1>6 DEF IInv, TypeOK, NoOpenFallback, Expired, guards, kdf
  <2>4. JobInv' /\ OwnerInv' /\ PasswordInv' /\ GateHolds'
    BY <2>1 DEF IInv, JobInv, OwnerInv, PasswordInv, GateHolds, guards, kdf
  <2> QED
    BY <2>2, <2>3, <2>4 DEF IInv
<1> QED
  BY <1>2, <1>3, <1>4, <1>5, <1>6 DEF Create

-----------------------------------------------------------------------------
(* Steps of a socket *)

LEMMA HandlerStep ==
  ASSUME IInv, NEW s \in Socket, Handler(s)
  PROVE  IInv'
<1> USE RequestAssumption DEF Request, Goto, creation, socket
<1>1. s \in Request /\ s \notin Creation
  OBVIOUS
<1>2. CASE Rejected(s) \/ LookupStarts(s) \/ LookupFails(s)
  <2>1. UNCHANGED <<row, creation, socket, guards, kdf>>
    BY <1>2 DEF Rejected, LookupStarts, LookupFails
  <2>2. PendingConserved' /\ PermitsConserved'
    BY <2>1, KeepGuards, KeepPermits DEF IInv
  <2>3. TypeOK'
    BY <1>2, <2>1 DEF IInv, TypeOK, Rejected, LookupStarts, LookupFails, Places, guards, kdf
  <2>4. JobInv' /\ PasswordInv' /\ NoOpenFallback' /\ GateHolds'
    BY <1>1, <1>2, <2>1
    DEF IInv, TypeOK, JobInv, PasswordInv, NoOpenFallback, GateHolds,
        Rejected, LookupStarts, LookupFails, kdf
  <2>5. OwnerInv'
    BY <1>2, <2>1
    DEF IInv, TypeOK, OwnerInv, Rejected, LookupStarts, LookupFails, Authenticating,
        Timed, guards
  <2> QED
    BY <2>2, <2>3, <2>4, <2>5 DEF IInv
<1>3. CASE LookedUp(s)
  <2>1. /\ UNCHANGED <<row, creation, target, correct, kdf>>
        /\ pc[s] = "lookup" /\ s \notin guarded
    BY <1>3 DEF LookedUp, IInv, OwnerInv, Authenticating, Timed
  <2>2. PermitsConserved'
    BY <2>1, KeepPermits DEF IInv
  <2>3. \/ UNCHANGED guards
        \/ /\ row[target[s]] = "protected" /\ pc' = [pc EXCEPT ![s] = "upgrading"]
           /\ HasGuard(AddressOf[s]) /\ TakeGuard(s)
    BY <1>3 DEF LookedUp
  <2>4. /\ PendingConserved' /\ guarded' \in SUBSET Socket
        /\ pending' \in [Address -> 0..MaxPendingPerIp] /\ pending_total' \in 0..MaxPending
    <3>1. CASE UNCHANGED guards
      BY <3>1, KeepGuards DEF IInv, TypeOK, guards
    <3>2. CASE HasGuard(AddressOf[s]) /\ TakeGuard(s)
      BY <2>1, <3>2, TakeFacts DEF IInv
    <3> QED
      BY <2>3, <3>1, <3>2
  <2>5. found' = [found EXCEPT ![s] =
                    IF row[target[s]] = "expired" THEN "none" ELSE row[target[s]]]
        /\ row[target[s]] \in {"none", "open", "protected", "expired"}
    BY <1>3 DEF LookedUp, IInv, TypeOK
  <2>6. pc' \in [Request -> Places] /\ found' \in [Socket -> {"none", "open", "protected"}]
    BY <1>3, <2>5 DEF IInv, TypeOK, LookedUp, Places
  <2>7. TypeOK'
    BY <2>1, <2>4, <2>6 DEF IInv, TypeOK, kdf
  <2>8. JobInv' /\ PasswordInv' /\ NoOpenFallback' /\ GateHolds'
    BY <1>1, <1>3, <2>1, <2>5
    DEF IInv, TypeOK, JobInv, PasswordInv, NoOpenFallback, GateHolds, LookedUp, kdf
  <2>9. OwnerInv'
    <3>1. ASSUME NEW t \in Socket, t # s
          PROVE  pc'[t] = pc[t] /\ found'[t] = found[t] /\ (t \in guarded' <=> t \in guarded)
      BY <1>3, <3>1 DEF IInv, TypeOK, LookedUp, TakeGuard, guards
    <3>2. s \in guarded' <=> pc'[s] = "upgrading" /\ found'[s] = "protected"
      BY <1>1, <1>3, <2>1, <2>5 DEF IInv, TypeOK, LookedUp, TakeGuard, guards
    <3>3. pc'[s] \notin Authenticating
      BY <1>1, <1>3 DEF IInv, TypeOK, LookedUp, Authenticating, Timed
    <3> QED
      BY <3>1, <3>2, <3>3 DEF IInv, OwnerInv
  <2> QED
    BY <2>2, <2>4, <2>7, <2>8, <2>9 DEF IInv
<1>4. CASE UpgradeFails(s)
  <2>1. UNCHANGED <<row, creation, socket, kdf>> /\ DropGuard(s)
        /\ pc' = [pc EXCEPT ![s] = "closed"]
    BY <1>4 DEF UpgradeFails
  <2>2. PendingConserved' /\ PermitsConserved'
    BY <2>1, DropFacts, KeepPermits DEF IInv
  <2>3. TypeOK'
    BY <2>1, DropFacts DEF IInv, TypeOK, Places, kdf
  <2>4. JobInv' /\ PasswordInv' /\ NoOpenFallback' /\ GateHolds'
    BY <1>1, <2>1 DEF IInv, TypeOK, JobInv, PasswordInv, NoOpenFallback, GateHolds, kdf
  <2>5. OwnerInv'
    BY <1>1, <2>1, DropFacts DEF IInv, TypeOK, OwnerInv, Authenticating, Timed
  <2> QED
    BY <2>2, <2>3, <2>4, <2>5 DEF IInv
<1>5. CASE Upgraded(s)
  <2>1. UNCHANGED <<row, creation, socket, guards, kdf>>
        /\ pc[s] = "upgrading" /\ found[s] \in {"none", "open", "protected"}
    BY <1>5 DEF Upgraded, IInv, TypeOK
  <2>2. PendingConserved' /\ PermitsConserved'
    BY <2>1, KeepGuards, KeepPermits DEF IInv
  <2>3. /\ pc' = [pc EXCEPT ![s] = pc'[s]]
        /\ pc'[s] = IF found[s] = "none" THEN "closed"
                    ELSE IF found[s] = "open" THEN "attach" ELSE "requiring"
    BY <1>1, <1>5, <2>1 DEF Upgraded, IInv, TypeOK
  <2>4. TypeOK'
    BY <2>1, <2>3 DEF IInv, TypeOK, Places, Authenticating, Timed, guards, kdf
  <2>5. JobInv' /\ PasswordInv' /\ NoOpenFallback' /\ GateHolds'
    BY <1>1, <2>1, <2>3
    DEF IInv, TypeOK, JobInv, PasswordInv, NoOpenFallback, GateHolds, kdf
  <2>6. OwnerInv'
    BY <1>1, <2>1, <2>3 DEF IInv, TypeOK, OwnerInv, Authenticating, Timed, guards
  <2> QED
    BY <2>2, <2>4, <2>5, <2>6 DEF IInv
<1> QED
  BY <1>2, <1>3, <1>4, <1>5 DEF Handler
(* A failure keeps the guard until FailureDone. *)
LEMMA FailStep ==
  ASSUME IInv, NEW s \in Socket, pc[s] \in Timed, Fail(s),
         UNCHANGED <<row, creation, socket, kdf>>
  PROVE  IInv'
<1> USE RequestAssumption DEF Request, creation, socket
<1>1. s \in Request /\ s \notin Creation
  OBVIOUS
<1>2. UNCHANGED guards /\ pc' = [pc EXCEPT ![s] = "failing"]
  BY DEF Fail, Goto
<1>3. PendingConserved' /\ PermitsConserved'
  BY <1>2, KeepGuards, KeepPermits DEF IInv
<1>4. TypeOK'
  BY <1>2 DEF IInv, TypeOK, Places, Authenticating, guards, kdf
<1>5. JobInv' /\ PasswordInv' /\ NoOpenFallback' /\ GateHolds'
  BY <1>1, <1>2 DEF IInv, TypeOK, JobInv, PasswordInv, NoOpenFallback, GateHolds, kdf
<1>6. OwnerInv'
  BY <1>1, <1>2 DEF IInv, TypeOK, OwnerInv, Authenticating, Timed, guards
<1> QED
  BY <1>3, <1>4, <1>5, <1>6 DEF IInv

LEMMA AuthenticateStep ==
  ASSUME IInv, NEW s \in Socket, Authenticate(s)
  PROVE  IInv'
<1> USE RequestAssumption DEF Request, creation, socket
<1>1. s \in Request /\ s \notin Creation
  OBVIOUS
<1>2. CASE AuthRequiredSent(s) \/ PingReceived(s) \/ PongSent(s)
  <2>1. /\ UNCHANGED <<row, creation, socket, guards, kdf>>
        /\ pc[s] \in Timed \ {"verifying"}
        /\ pc' = [pc EXCEPT ![s] = pc'[s]] /\ pc'[s] \in {"awaiting", "ponging"}
    BY <1>1, <1>2
    DEF IInv, TypeOK, AuthRequiredSent, PingReceived, PongSent, Goto, Timed
  <2>2. PendingConserved' /\ PermitsConserved'
    BY <2>1, KeepGuards, KeepPermits DEF IInv
  <2>3. TypeOK'
    BY <2>1 DEF IInv, TypeOK, Places, Authenticating, Timed, guards, kdf
  <2>4. JobInv' /\ PasswordInv' /\ NoOpenFallback' /\ GateHolds'
    BY <1>1, <2>1 DEF IInv, TypeOK, JobInv, PasswordInv, NoOpenFallback, GateHolds, Timed, kdf
  <2>5. OwnerInv'
    BY <1>1, <2>1 DEF IInv, TypeOK, OwnerInv, Authenticating, Timed, guards
  <2> QED
    BY <2>2, <2>3, <2>4, <2>5 DEF IInv
<1>3. CASE AuthRefused(s) \/ VerifyBusy(s) \/ VerifyFailed(s) \/ SecondFrame(s) \/ Deadline(s)
  BY <1>3, FailStep DEF AuthRefused, VerifyBusy, VerifyFailed, SecondFrame, Deadline, Timed
<1>4. CASE VerifyStarts(s)
  <2>1. /\ UNCHANGED <<row, creation, target, found, guards>>
        /\ pc[s] = "awaiting" /\ pc' = [pc EXCEPT ![s] = "verifying"]
        /\ job[s] = "none" /\ StartJob(s)
    BY <1>1, <1>4 DEF IInv, JobInv, VerifyStarts, Goto
  <2>2. /\ correct' \in [Socket -> BOOLEAN]
        /\ \A t \in Socket \ {s} : correct'[t] = correct[t]
    BY <1>4 DEF IInv, TypeOK, VerifyStarts
  <2>3. PendingConserved'
    BY <2>1, KeepGuards DEF IInv
  <2>4. TypeOK' /\ PermitsConserved'
    BY <1>1, <2>1, <2>2, StartFacts
    DEF IInv, TypeOK, Places, Authenticating, Timed, guards
  <2>5. JobInv' /\ PasswordInv' /\ NoOpenFallback' /\ GateHolds'
    BY <1>1, <2>1, <2>2, StartFacts
    DEF IInv, TypeOK, JobInv, PasswordInv, NoOpenFallback, GateHolds
  <2>6. OwnerInv'
    BY <1>1, <2>1 DEF IInv, TypeOK, OwnerInv, Authenticating, Timed, guards
  <2> QED
    BY <2>3, <2>4, <2>5, <2>6 DEF IInv
<1>5. CASE Verified(s)
  <2>1. /\ UNCHANGED <<row, creation, socket, kdf>> /\ DropGuard(s)
        /\ pc' = [pc EXCEPT ![s] = "attach"] /\ job[s] = "ok"
    BY <1>5 DEF Verified, Goto
  <2>2. PendingConserved' /\ PermitsConserved'
    BY <2>1, DropFacts, KeepPermits DEF IInv
  <2>3. TypeOK'
    BY <2>1, DropFacts DEF IInv, TypeOK, Places, kdf
  <2>4. JobInv' /\ PasswordInv' /\ NoOpenFallback' /\ GateHolds'
    BY <1>1, <2>1 DEF IInv, TypeOK, JobInv, PasswordInv, NoOpenFallback, GateHolds, kdf
  <2>5. OwnerInv'
    BY <1>1, <2>1, DropFacts DEF IInv, TypeOK, OwnerInv, Authenticating, Timed
  <2> QED
    BY <2>2, <2>3, <2>4, <2>5 DEF IInv
<1>6. CASE FailureDone(s)
  <2>1. /\ UNCHANGED <<row, creation, socket, kdf>> /\ DropGuard(s)
        /\ pc' = [pc EXCEPT ![s] = "closed"]
    BY <1>6 DEF FailureDone, Goto
  <2>2. PendingConserved' /\ PermitsConserved'
    BY <2>1, DropFacts, KeepPermits DEF IInv
  <2>3. TypeOK'
    BY <2>1, DropFacts DEF IInv, TypeOK, Places, kdf
  <2>4. JobInv' /\ PasswordInv' /\ NoOpenFallback' /\ GateHolds'
    BY <1>1, <2>1 DEF IInv, TypeOK, JobInv, PasswordInv, NoOpenFallback, GateHolds, kdf
  <2>5. OwnerInv'
    BY <1>1, <2>1, DropFacts DEF IInv, TypeOK, OwnerInv, Authenticating, Timed
  <2> QED
    BY <2>2, <2>3, <2>4, <2>5 DEF IInv
<1> QED
  BY <1>2, <1>3, <1>4, <1>5, <1>6 DEF Authenticate

-----------------------------------------------------------------------------
(* The end of a computation, and a restart *)

LEMMA JobEndsStep ==
  ASSUME IInv, NEW q \in Request, JobEnds(q)
  PROVE  IInv'
<1>1. UNCHANGED <<row, creation, pc, socket, guards>> /\ job[q] = "running"
  BY DEF JobEnds
<1>2. PendingConserved'
  BY <1>1, KeepGuards DEF IInv
<1>3. TypeOK' /\ PermitsConserved'
  BY <1>1, EndFacts DEF IInv, TypeOK, creation, socket, guards
<1>4. JobInv'
  BY <1>1, EndFacts DEF IInv, JobInv
<1>5. OwnerInv' /\ NoOpenFallback' /\ GateHolds'
  BY <1>1 DEF IInv, OwnerInv, NoOpenFallback, GateHolds, creation, socket, guards
<1>6. PasswordInv'
  <2>1. ASSUME NEW s \in Socket, job'[s] = "ok" PROVE correct'[s]
    BY <1>1, <2>1, EndFacts, RequestAssumption DEF IInv, PasswordInv, Request, socket
  <2> QED
    BY <1>1, <2>1 DEF IInv, PasswordInv, creation, socket
<1> QED
  BY <1>2, <1>3, <1>4, <1>5, <1>6 DEF IInv

LEMMA RestartStep ==
  ASSUME IInv, Restart
  PROVE  IInv'
<1> USE RequestAssumption DEF Request, creation, socket
<1>1. /\ \A q \in Request : pc'[q] \in {"new", "gone", "closed"} /\ job'[q] = "none"
      /\ guarded' = {} /\ slots' = Slots
  BY DEF Restart
<1>2. TypeOK'
  BY LimitsAssumption DEF IInv, TypeOK, Restart, Places
<1>3. JobInv' /\ OwnerInv' /\ PasswordInv' /\ NoOpenFallback' /\ GateHolds'
  BY <1>1
  DEF IInv, JobInv, OwnerInv, PasswordInv, NoOpenFallback, GateHolds, Restart,
      Authenticating, Timed
<1>4. Running(job') = {}
  BY <1>1 DEF Running
<1>5. PermitsConserved'
  BY <1>1, <1>4, FS_EmptySet, LimitsAssumption DEF PermitsConserved, Running
<1>6. \A a \in Address : Held(a, {}) = {}
  BY DEF Held
<1>7. PendingConserved'
  BY <1>1, <1>6, ConservedNext, FS_EmptySet DEF Restart
<1> QED
  BY <1>2, <1>3, <1>5, <1>7 DEF IInv

LEMMA Step == IInv /\ [Next]_vars => IInv'
<1> SUFFICES ASSUME IInv, [Next]_vars PROVE IInv'
  OBVIOUS
<1>1. CASE UNCHANGED vars
  <2>1. UNCHANGED <<row, creation, pc, socket, guards, kdf>>
    BY <1>1 DEF vars
  <2>2. PendingConserved' /\ PermitsConserved'
    BY <2>1, KeepGuards, KeepPermits DEF IInv
  <2>3. TypeOK' /\ JobInv' /\ OwnerInv' /\ PasswordInv' /\ NoOpenFallback' /\ GateHolds'
    BY <2>1 DEF IInv, TypeOK, JobInv, OwnerInv, PasswordInv, NoOpenFallback, GateHolds,
                creation, socket, guards, kdf
  <2> QED
    BY <2>2, <2>3 DEF IInv
<1>2. CASE Next
  BY <1>2, CreateStep, HandlerStep, AuthenticateStep, JobEndsStep, RestartStep DEF Next
<1> QED
  BY <1>1, <1>2

LEMMA Invariant == Spec => []IInv
BY InitInv, Step, PTL DEF Spec

-----------------------------------------------------------------------------
(* The theorems *)

(* Every variable of the model keeps its type. *)
THEOREM GateTyped == Spec => []TypeOK
<1>1. IInv => TypeOK
  BY DEF IInv
<1> QED
  BY Invariant, <1>1, PTL

(* A protected room is reached with its password only: the verdict a       *)
(* session acts on is the one of its own computation, and a room that was  *)
(* asked for with a password is never looked up as an open one.            *)
THEOREM OnlyWithPassword == Spec => []GateHolds
<1>1. IInv => GateHolds
  BY DEF IInv
<1> QED
  BY Invariant, <1>1, PTL

(* A failed hash never turns a protected room into an open one. *)
THEOREM NeverOpenByMistake == Spec => []NoOpenFallback
<1>1. IInv => NoOpenFallback
  BY DEF IInv
<1> QED
  BY Invariant, <1>1, PTL

(* No permit of the password service is lost or doubled, for any number of *)
(* slots and any number of requests that give up waiting.                  *)
THEOREM PermitsAreConserved == Spec => []PermitsConserved
<1>1. IInv => PermitsConserved
  BY DEF IInv
<1> QED
  BY Invariant, <1>1, PTL

(* The two counters of Admission always agree with the guards that live,   *)
(* so the `expect` in the drop of a guard cannot fail.                     *)
THEOREM GuardsAreCounted == Spec => []PendingConserved
<1>1. IInv => PendingConserved
  BY DEF IInv
<1> QED
  BY Invariant, <1>1, PTL

(* Whoever is inside authenticate owns a guard, hence no more clients are  *)
(* there than the two limits allow.                                        *)
THEOREM AuthenticationIsBounded == Spec => []AuthBounded
<1>1. IInv => AuthBounded
  <2> SUFFICES ASSUME IInv PROVE AuthBounded
    OBVIOUS
  <2> DEFINE inside == {s \in Socket : pc[s] \in Authenticating}
             insideOf(a) == {s \in inside : AddressOf[s] = a}
  <2>1. inside \in SUBSET guarded /\ guarded \in SUBSET Socket
    BY DEF IInv, OwnerInv, TypeOK
  <2>2. IsFiniteSet(guarded)
    BY <2>1, FS_Subset, RequestAssumption
  <2>3. Cardinality(inside) \in Nat /\ Cardinality(inside) <= pending_total
    BY <2>1, <2>2, FS_Subset, FS_CardinalityType, Conserved DEF IInv
  <2>4. pending_total \in Nat /\ pending_total <= MaxPending
    BY LimitsAssumption DEF IInv, TypeOK
  <2>5. ASSUME NEW a \in Address PROVE Cardinality(insideOf(a)) <= MaxPendingPerIp
    <3>1. insideOf(a) \in SUBSET Held(a, guarded)
      BY <2>1 DEF Held
    <3>2. IsFiniteSet(Held(a, guarded))
      BY <2>1, HeldFacts
    <3>3. /\ Cardinality(insideOf(a)) \in Nat
          /\ Cardinality(insideOf(a)) <= Cardinality(Held(a, guarded))
      BY <3>1, <3>2, FS_Subset, FS_CardinalityType
    <3>4. Cardinality(Held(a, guarded)) = pending[a]
      BY Conserved DEF IInv
    <3>5. pending[a] \in Nat /\ pending[a] <= MaxPendingPerIp
      BY LimitsAssumption DEF IInv, TypeOK
    <3> HIDE DEF insideOf
    <3> QED
      BY <3>3, <3>4, <3>5, LimitsAssumption
  <2>6. Cardinality(inside) <= MaxPending
    BY <2>3, <2>4, LimitsAssumption
  <2> QED
    BY <2>5, <2>6, Zenon DEF AuthBounded
<1> QED
  BY Invariant, <1>1, PTL

-----------------------------------------------------------------------------
(* Gate implements Access *)

(* A row appears once, with what the creation asked for; a lookup that     *)
(* found a room found a row; and a password is shown once.                 *)
CreationInv ==
  \A r \in Creation :
    /\ pc[r] \in {"new", "hashing", "inserting"} => row[r] = "none"
    /\ pc[r] = "hashing" \/ hash[r] = "phc" => wants[r] = "protected"
    /\ row[r] \in {"open", "protected"} => row[r] = wants[r]
SocketInv ==
  \A s \in Socket :
    /\ found[s] # "none" => row[target[s]] # "none"
    /\ pc[s] \in Authenticating => found[s] = "protected"
    /\ pc[s] \in {"new", "lookup", "upgrading", "requiring", "awaiting", "ponging"}
         => ~correct[s]
AccessInv == IInv /\ CreationInv /\ SocketInv

LEMMA AccessInit == Init => CreationInv /\ SocketInv
BY RequestAssumption DEF Init, CreationInv, SocketInv, Request, Authenticating, Timed

(* The steps of a creation leave its sockets alone, except for its row.    *)
LEMMA AccessCreate ==
  ASSUME AccessInv, NEW r \in Creation, Create(r)
  PROVE  CreationInv' /\ SocketInv'
<1> USE RequestAssumption DEF AccessInv, IInv, Request, Goto, creation, socket
<1>1. CreationInv'
  <2>1. CASE CreateRefused(r) \/ CreateOpen(r) \/ CreateBusy(r) \/ CreateHashing(r)
    BY <2>1 DEF CreationInv, TypeOK, CreateRefused, CreateOpen, CreateBusy, CreateHashing
  <2>2. CASE Hashed(r) \/ InsertFails(r)
    BY <2>2 DEF CreationInv, TypeOK, Hashed, InsertFails
  <2>3. CASE Inserted(r) \/ CreateAbandoned(r)
    BY <2>3 DEF CreationInv, TypeOK, PasswordInv, Inserted, CreateAbandoned, Stored
  <2>4. CASE Expired(r)
    BY <2>4 DEF CreationInv, TypeOK, Expired
  <2> QED
    BY <2>1, <2>2, <2>3, <2>4 DEF Create
<1>2. /\ UNCHANGED socket
      /\ \A s \in Socket : pc'[s] = pc[s]
      /\ \A q \in Creation : row[q] # "none" => row'[q] # "none"
  <2>1. CASE CreateRefused(r) \/ CreateOpen(r) \/ CreateBusy(r) \/ CreateHashing(r)
    BY <2>1 DEF TypeOK, CreateRefused, CreateOpen, CreateBusy, CreateHashing
  <2>2. CASE Hashed(r) \/ InsertFails(r)
    BY <2>2 DEF TypeOK, Hashed, InsertFails
  <2>3. CASE Inserted(r) \/ CreateAbandoned(r)
    BY <2>3 DEF TypeOK, Inserted, CreateAbandoned, Stored
  <2>4. CASE Expired(r)
    BY <2>4 DEF TypeOK, Expired
  <2> QED
    BY <2>1, <2>2, <2>3, <2>4 DEF Create
<1>3. SocketInv'
  BY <1>2 DEF SocketInv, TypeOK
<1> QED
  BY <1>1, <1>3

LEMMA AccessSocket ==
  ASSUME AccessInv, NEW s \in Socket, Handler(s) \/ Authenticate(s)
  PROVE  CreationInv' /\ SocketInv'
<1> USE RequestAssumption DEF AccessInv, IInv, Request, Goto, Fail, creation, socket
<1>1. UNCHANGED <<row, creation, target>> /\ \A r \in Creation : pc'[r] = pc[r]
  <2>1. CASE Handler(s)
    BY <2>1 DEF TypeOK, Handler, Rejected, LookupStarts, LookupFails, LookedUp,
                UpgradeFails, Upgraded
  <2>2. CASE Authenticate(s)
    BY <2>2 DEF TypeOK, Authenticate, AuthRequiredSent, PingReceived, PongSent,
                AuthRefused, VerifyStarts, VerifyBusy, Verified, VerifyFailed,
                SecondFrame, Deadline, FailureDone
  <2> QED
    BY <2>1, <2>2
<1>2. CreationInv'
  BY <1>1 DEF CreationInv
<1>3. SocketInv'
  <2> USE DEF SocketInv, Authenticating, Timed
  <2>1. CASE Rejected(s) \/ LookupStarts(s) \/ LookupFails(s) \/ UpgradeFails(s)
    BY <2>1 DEF TypeOK, Rejected, LookupStarts, LookupFails, UpgradeFails
  <2>2. CASE LookedUp(s)
    BY <2>2 DEF TypeOK, LookedUp
  <2>3. CASE Upgraded(s)
    BY <2>3 DEF TypeOK, Upgraded
  <2>4. CASE AuthRequiredSent(s) \/ PingReceived(s) \/ PongSent(s)
    BY <2>4 DEF TypeOK, AuthRequiredSent, PingReceived, PongSent
  <2>5. CASE AuthRefused(s) \/ VerifyBusy(s) \/ VerifyFailed(s) \/ SecondFrame(s)
               \/ Deadline(s)
    BY <2>5 DEF TypeOK, AuthRefused, VerifyBusy, VerifyFailed, SecondFrame, Deadline
  <2>6. CASE VerifyStarts(s)
    BY <2>6 DEF TypeOK, VerifyStarts
  <2>7. CASE Verified(s) \/ FailureDone(s)
    BY <2>7 DEF TypeOK, Verified, FailureDone
  <2> QED
    BY <2>1, <2>2, <2>3, <2>4, <2>5, <2>6, <2>7 DEF Handler, Authenticate
<1> QED
  BY <1>2, <1>3

LEMMA AccessStep == AccessInv /\ [Next]_vars => AccessInv'
<1> SUFFICES ASSUME AccessInv, [Next]_vars PROVE AccessInv'
  OBVIOUS
<1>1. IInv'
  BY Step DEF AccessInv
<1>2. CASE UNCHANGED vars \/ \E q \in Request : JobEnds(q)
  <2>1. UNCHANGED <<row, creation, pc, socket>>
    BY <1>2 DEF vars, JobEnds
  <2> QED
    BY <1>1, <2>1 DEF AccessInv, CreationInv, SocketInv, creation, socket
<1>3. CASE Restart
  BY <1>1, <1>3, RequestAssumption
  DEF AccessInv, CreationInv, SocketInv, Restart, Request, creation, socket,
      Authenticating, Timed
<1>4. ASSUME NEW r \in Creation, Create(r) PROVE AccessInv'
  BY <1>1, <1>4, AccessCreate DEF AccessInv
<1>5. ASSUME NEW s \in Socket, Handler(s) \/ Authenticate(s) PROVE AccessInv'
  BY <1>1, <1>5, AccessSocket DEF AccessInv
<1> QED
  BY <1>2, <1>3, <1>4, <1>5 DEF Next

(* The mapping of rooms, and of the two sets of sockets.                   *)
Kind   == [r \in Creation |-> IF row[r] = "expired" THEN wants[r] ELSE row[r]]
Shown  == {s \in Socket : correct[s]}
Inside == {s \in Socket : pc[s] = "attach"}

LEMMA AccessStarts == Init => Rooms!Init
<1> SUFFICES ASSUME Init PROVE Rooms!Init
  OBVIOUS
<1>1. Kind = [r \in Creation |-> "none"]
  BY DEF Init, Kind
<1>2. Shown = {} /\ Inside = {}
  BY RequestAssumption DEF Init, Shown, Inside, Request
<1> QED
  BY <1>1, <1>2 DEF Init, Rooms!Init, Kind, Shown, Inside

(* What neither writes a row nor shows a password nor lets anybody in is   *)
(* nothing to Access.                                                      *)
LEMMA Unseen ==
  ASSUME UNCHANGED <<row, wants, target, correct>>,
         \A s \in Socket : pc'[s] = "attach" <=> pc[s] = "attach"
  PROVE  UNCHANGED Rooms!vars
<1>1. Kind' = Kind /\ Shown' = Shown /\ Inside' = Inside
  BY DEF Kind, Shown, Inside
<1> QED
  BY <1>1 DEF Rooms!vars, Kind, Shown, Inside

(* A socket that goes to "attach" enters a room that is there.             *)
LEMMA Entering ==
  ASSUME AccessInv, NEW s \in Socket, pc' = [pc EXCEPT ![s] = "attach"],
         UNCHANGED <<row, wants, target, correct>>,
         found[s] # "none", wants[target[s]] = "open" \/ correct[s]
  PROVE  Rooms!Enter(s)
<1> USE DEF AccessInv, IInv
<1>1. target[s] \in Creation /\ row[target[s]] # "none"
  BY DEF TypeOK, SocketInv
<1>2. Kind[target[s]] = wants[target[s]] /\ wants[target[s]] \in {"open", "protected"}
  BY <1>1 DEF Kind, TypeOK, CreationInv
<1>3. Kind' = Kind /\ Shown' = Shown
  BY DEF Kind, Shown
<1>4. Inside' = Inside \cup {s}
  BY RequestAssumption DEF Inside, TypeOK, Request
<1>5. Kind[target[s]] = "open" \/ (Kind[target[s]] = "protected" /\ s \in Shown)
  BY <1>2 DEF Shown
<1> QED
  BY <1>3, <1>4, <1>5 DEF Rooms!Enter, Kind, Shown, Inside

LEMMA SeenCreate ==
  ASSUME AccessInv, NEW r \in Creation, Create(r)
  PROVE  Rooms!Create(r) \/ UNCHANGED Rooms!vars
<1> USE RequestAssumption DEF AccessInv, IInv, Request, Goto, creation, socket
<1>1. UNCHANGED <<wants, target, correct>> /\ \A s \in Socket : pc'[s] = pc[s]
  <2>1. CASE CreateRefused(r) \/ CreateOpen(r) \/ CreateBusy(r) \/ CreateHashing(r)
    BY <2>1 DEF TypeOK, CreateRefused, CreateOpen, CreateBusy, CreateHashing
  <2>2. CASE Hashed(r) \/ InsertFails(r)
    BY <2>2 DEF TypeOK, Hashed, InsertFails
  <2>3. CASE Inserted(r) \/ CreateAbandoned(r)
    BY <2>3 DEF TypeOK, Inserted, CreateAbandoned
  <2>4. CASE Expired(r)
    BY <2>4 DEF Expired
  <2> QED
    BY <2>1, <2>2, <2>3, <2>4 DEF Create
<1>2. CASE row' = row
  BY <1>1, <1>2, Unseen
<1>3. CASE pc[r] = "inserting" /\ row' = Stored(r)
  <2>1. row[r] = "none" /\ row'[r] = wants[r] /\ wants[r] \in {"open", "protected"}
    BY <1>3 DEF CreationInv, PasswordInv, TypeOK, Stored
  <2>2. Kind[r] = "none" /\ Kind' = [Kind EXCEPT ![r] = wants[r]]
    BY <1>1, <1>3, <2>1 DEF Kind, Stored, TypeOK
  <2>3. Shown' = Shown /\ Inside' = Inside
    BY <1>1 DEF Shown, Inside
  <2> QED
    BY <1>1, <2>2, <2>3 DEF Rooms!Create, Kind, Shown, Inside
<1>4. CASE Expired(r)
  <2>1. Kind' = Kind
    BY <1>1, <1>4 DEF Expired, Kind, CreationInv, TypeOK
  <2>2. Shown' = Shown /\ Inside' = Inside
    BY <1>1 DEF Shown, Inside
  <2> QED
    BY <1>1, <2>1, <2>2 DEF Rooms!vars, Kind, Shown, Inside
<1>5. row' = row \/ (pc[r] = "inserting" /\ row' = Stored(r)) \/ Expired(r)
  BY DEF Create, CreateRefused, CreateOpen, CreateBusy, CreateHashing, Hashed,
         InsertFails, Inserted, CreateAbandoned
<1> QED
  BY <1>2, <1>3, <1>4, <1>5

LEMMA SeenSocket ==
  ASSUME AccessInv, NEW s \in Socket, Handler(s) \/ Authenticate(s)
  PROVE  Rooms!Show(s) \/ Rooms!Enter(s) \/ UNCHANGED Rooms!vars
<1> USE RequestAssumption DEF AccessInv, IInv, Request, Goto, Fail, creation, socket
<1>1. CASE Upgraded(s)
  <2>1. CASE found[s] = "open"
    BY <1>1, <2>1, Entering DEF Upgraded, PasswordInv
  <2>2. CASE found[s] # "open"
    BY <1>1, <2>2, Unseen DEF Upgraded, TypeOK
  <2> QED
    BY <2>1, <2>2
<1>2. CASE Verified(s)
  <2>1. found[s] # "none" /\ correct[s]
    BY <1>2 DEF Verified, SocketInv, PasswordInv, Authenticating, Timed
  <2> QED
    BY <1>2, <2>1, Entering DEF Verified
<1>3. CASE VerifyStarts(s)
  <2>1. /\ UNCHANGED <<row, wants, target>>
        /\ \A q \in Socket : pc'[q] = "attach" <=> pc[q] = "attach"
        /\ correct' = correct \/ correct' = [correct EXCEPT ![s] = TRUE]
    <3>1. UNCHANGED <<row, wants, target>> /\ pc[s] = "awaiting" /\ ~correct[s]
      BY <1>3 DEF VerifyStarts, SocketInv
    <3>2. \A q \in Socket : pc'[q] = "attach" <=> pc[q] = "attach"
      BY <1>3 DEF VerifyStarts, TypeOK
    <3>3. PICK right \in BOOLEAN : correct' = [correct EXCEPT ![s] = right]
      BY <1>3 DEF VerifyStarts
    <3>4. CASE right = TRUE
      BY <3>1, <3>2, <3>3, <3>4
    <3>5. CASE right = FALSE
      <4>1. correct[s] = FALSE /\ correct \in [Socket -> BOOLEAN]
        BY <3>1 DEF TypeOK
      <4>2. correct' = correct
        BY <3>3, <3>5, <4>1
      <4> QED
        BY <3>1, <3>2, <4>2
    <3> QED
      BY <3>4, <3>5
  <2>2. CASE correct' = correct
    BY <2>1, <2>2, Unseen
  <2>3. CASE correct' = [correct EXCEPT ![s] = TRUE]
    <3>1. Kind' = Kind /\ Inside' = Inside /\ s \notin Inside
      BY <1>3, <2>1 DEF Kind, Inside, VerifyStarts
    <3>2. Shown' = Shown \cup {s}
      BY <2>3 DEF Shown, TypeOK
    <3> QED
      BY <2>1, <3>1, <3>2 DEF Rooms!Show, Kind, Shown, Inside
  <2> QED
    BY <2>1, <2>2, <2>3
<1>4. CASE Rejected(s) \/ LookupStarts(s) \/ LookupFails(s) \/ LookedUp(s) \/ UpgradeFails(s)
  BY <1>4, Unseen DEF TypeOK, Rejected, LookupStarts, LookupFails, LookedUp, UpgradeFails
<1>5. CASE \/ AuthRequiredSent(s) \/ PingReceived(s) \/ PongSent(s) \/ AuthRefused(s)
           \/ VerifyBusy(s) \/ VerifyFailed(s) \/ SecondFrame(s) \/ Deadline(s)
           \/ FailureDone(s)
  BY <1>5, Unseen
  DEF TypeOK, Timed, AuthRequiredSent, PingReceived, PongSent, AuthRefused, VerifyBusy,
      VerifyFailed, SecondFrame, Deadline, FailureDone
<1> QED
  BY <1>1, <1>2, <1>3, <1>4, <1>5 DEF Handler, Authenticate

LEMMA Seen == AccessInv /\ [Next]_vars => [Rooms!Next]_(Rooms!vars)
<1> SUFFICES ASSUME AccessInv, [Next]_vars PROVE [Rooms!Next]_(Rooms!vars)
  OBVIOUS
<1>1. CASE UNCHANGED vars \/ \E q \in Request : JobEnds(q)
  <2>1. UNCHANGED <<row, creation, pc, socket>>
    BY <1>1 DEF vars, JobEnds
  <2> QED
    BY <2>1, Unseen DEF creation, socket
<1>2. CASE Restart
  <2>1. Kind' = Kind /\ Shown' = Shown /\ UNCHANGED <<wants, target>>
    BY <1>2 DEF Restart, Kind, Shown, creation, socket
  <2>2. Inside' = {}
    BY <1>2, RequestAssumption DEF Restart, Inside, Request
  <2> QED
    BY <2>1, <2>2 DEF Rooms!Next, Rooms!Restart, Kind, Shown, Inside
<1>3. ASSUME NEW r \in Creation, Create(r) PROVE [Rooms!Next]_(Rooms!vars)
  BY <1>3, SeenCreate DEF Rooms!Next
<1>4. ASSUME NEW s \in Socket, Handler(s) \/ Authenticate(s)
      PROVE  [Rooms!Next]_(Rooms!vars)
  BY <1>4, SeenSocket DEF Rooms!Next
<1> QED
  BY <1>1, <1>2, <1>3, <1>4 DEF Next

LEMMA AccessInvariant == Spec => []AccessInv
<1>1. Init => AccessInv
  BY InitInv, AccessInit DEF AccessInv
<1> QED
  BY <1>1, AccessStep, PTL DEF Spec

(* The way in implements Access: rows say what their creators wanted, for  *)
(* good, and sockets enter rooms that there are, with their passwords.     *)
THEOREM GateImplementsAccess == Spec => ImplementsAccess
  BY AccessInvariant, AccessStarts, Seen, PTL DEF Spec, ImplementsAccess, Rooms!Spec

-----------------------------------------------------------------------------
(* What follows from Access, and what needs no client to end               *)

(* Once a row is there, its room is open or protected for good: neither    *)
(* late hashes, abandoned requests, expiry nor restarts turn one into the  *)
(* other (create_room, create_room_with_password).                         *)
SameKind == \A r \in Creation : Kind[r] # "none" => Kind'[r] = Kind[r]

THEOREM KindForGood == Spec => [][SameKind]_vars
<1>1. ASSUME AccessInv, [Next]_vars PROVE SameKind
  <2>1. Rooms!Next \/ UNCHANGED Rooms!vars
    BY <1>1, Seen
  <2>2. Kind \in [Creation -> {"none", "open", "protected"}]
    BY <1>1 DEF Kind, AccessInv, IInv, TypeOK
  <2>3. CASE UNCHANGED Rooms!vars
    BY <2>3 DEF Rooms!vars, SameKind, Kind
  <2>4. ASSUME NEW r \in Creation, Rooms!Create(r) PROVE SameKind
    <3>1. Kind[r] = "none" /\ Kind' = [Kind EXCEPT ![r] = wants[r]]
      BY <2>4 DEF Rooms!Create, Kind
    <3> QED
      BY <2>2, <3>1 DEF SameKind
  <2>5. CASE Rooms!Restart \/ \E s \in Socket : Rooms!Show(s) \/ Rooms!Enter(s)
    <3>1. Kind' = Kind
      BY <2>5 DEF Rooms!Restart, Rooms!Show, Rooms!Enter, Kind
    <3> QED
      BY <3>1 DEF SameKind
  <2> QED
    BY <2>1, <2>3, <2>4, <2>5 DEF Rooms!Next
<1> QED
  BY <1>1, AccessInvariant, PTL DEF Spec

(* What Access is good for, proved from its steps alone: whatever          *)
(* implements Access has in it only sockets of rooms that came to be, open *)
(* or protected as their creators wanted, and in a protected room only     *)
(* those that have shown its password.                                     *)
KindWanted  == \A r \in Creation : Kind[r] # "none" => Kind[r] = wants[r]
NoIntruders ==
  \A s \in Inside : /\ Kind[target[s]] # "none"
                    /\ Kind[target[s]] = "protected" => s \in Shown
Admits == /\ wants \in [Creation -> {"open", "protected"}] /\ target \in [Socket -> Creation]
          /\ Kind \in [Creation -> {"none", "open", "protected"}] /\ Inside \subseteq Socket
          /\ KindWanted /\ NoIntruders

LEMMA StepAdmits ==
  ASSUME Admits, [Rooms!Next]_(Rooms!vars)
  PROVE  Admits'
<1> USE DEF Admits, KindWanted, NoIntruders
<1>1. CASE UNCHANGED Rooms!vars
  <2>1. UNCHANGED <<wants, target>> /\ Kind' = Kind /\ Shown' = Shown /\ Inside' = Inside
    BY <1>1 DEF Rooms!vars, Kind, Shown, Inside
  <2> QED
    BY <2>1
<1>2. ASSUME NEW r \in Creation, Rooms!Create(r) PROVE Admits'
  <2>1. /\ Kind[r] = "none" /\ Kind' = [Kind EXCEPT ![r] = wants[r]]
        /\ UNCHANGED <<wants, target>> /\ Shown' = Shown /\ Inside' = Inside
    BY <1>2 DEF Rooms!Create, Kind, Shown, Inside
  <2> QED
    BY <2>1
<1>3. ASSUME NEW s \in Socket, Rooms!Show(s) PROVE Admits'
  <2>1. /\ Shown' = Shown \cup {s}
        /\ UNCHANGED <<wants, target>> /\ Kind' = Kind /\ Inside' = Inside
    BY <1>3 DEF Rooms!Show, Kind, Shown, Inside
  <2> QED
    BY <2>1
<1>4. ASSUME NEW s \in Socket, Rooms!Enter(s) PROVE Admits'
  <2>1. /\ Kind[target[s]] = "open" \/ (Kind[target[s]] = "protected" /\ s \in Shown)
        /\ Inside' = Inside \cup {s}
        /\ UNCHANGED <<wants, target>> /\ Kind' = Kind /\ Shown' = Shown
    BY <1>4 DEF Rooms!Enter, Kind, Shown, Inside
  <2> QED
    BY <2>1
<1>5. CASE Rooms!Restart
  <2>1. Inside' = {} /\ UNCHANGED <<wants, target>> /\ Kind' = Kind
    BY <1>5 DEF Rooms!Restart, Kind, Inside
  <2> QED
    BY <2>1
<1> QED
  BY <1>1, <1>2, <1>3, <1>4, <1>5 DEF Rooms!Next

THEOREM AccessIsEnough == ImplementsAccess => [](KindWanted /\ NoIntruders)
<1>1. Rooms!Init => Admits
  <2>1. Rooms!Init => /\ wants \in [Creation -> {"open", "protected"}]
                      /\ target \in [Socket -> Creation]
                      /\ Kind = [r \in Creation |-> "none"] /\ Inside = {}
    BY DEF Rooms!Init, Kind, Inside
  <2> QED
    BY <2>1 DEF Admits, KindWanted, NoIntruders
<1>2. Admits /\ [Rooms!Next]_(Rooms!vars) => Admits'
  BY StepAdmits
<1>3. Admits => KindWanted /\ NoIntruders
  BY DEF Admits
<1> QED
  BY <1>1, <1>2, <1>3, PTL DEF ImplementsAccess, Rooms!Spec

(* Every guard belongs to a session whose upgrade or whose timer is        *)
(* running, and every permit that is missing to a job that is: the safety  *)
(* core of GuardsReturn and PermitsReturn, for any limits.  No client can  *)
(* keep either by sending nothing and reading nothing.                     *)
NoneKeptByClients ==
  /\ \A s \in guarded : pc[s] \in {"upgrading", "failing"} \cup Timed
  /\ slots = 0 => \E q \in Request : job[q] = "running"

THEOREM NothingKeptByClients == Spec => []NoneKeptByClients
<1>1. ASSUME IInv PROVE NoneKeptByClients
  <2>1. \A s \in guarded : pc[s] \in {"upgrading", "failing"} \cup Timed
    BY <1>1 DEF IInv, TypeOK, OwnerInv, Authenticating
  <2>2. ASSUME slots = 0 PROVE \E q \in Request : job[q] = "running"
    <3>1. Cardinality({q \in Request : job[q] = "running"}) # 0
      BY <1>1, <2>2, LimitsAssumption DEF IInv, PermitsConserved
    <3> QED
      BY <3>1, FS_EmptySet
  <2> QED
    BY <2>1, <2>2 DEF NoneKeptByClients
<1> QED
  BY <1>1, Invariant, PTL
=============================================================================
