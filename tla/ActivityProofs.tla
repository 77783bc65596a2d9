--------------------------- MODULE ActivityProofs ---------------------------
(***************************************************************************)
(* Proofs about Activity: its types, the bound on how far last_activity    *)
(* moves back, that no room is deleted while it is used, that the          *)
(* timestamps implement Lifetime, and that nobody waits in a circle.       *)
(*                                                                         *)
(* The inductive invariant adds to the types what a call in flight knows:  *)
(* its stamp is the time it began, at most Wait seconds ago, and the       *)
(* cutoff of a running cleanup is no later than the clock warrants.        *)
(***************************************************************************)
EXTENDS Activity, FiniteSetTheorems, TLAPS

InFlight(t) == stage[t] \in {"waiting", "running"}

StampInv ==
  \A t \in Task :
    /\ stage[t] = "locking" => op[t] = "attach"
    /\ InFlight(t) => begun[t] <= clock /\ clock <= begun[t] + Wait
    /\ InFlight(t) /\ op[t] # "attach" => at[t] = begun[t]

TouchInv ==
  \A r \in Id :
    /\ last_activity[r] <= clock /\ touched[r] <= clock
    /\ r \in rows => touched[r] <= last_activity[r] + Wait

CutoffInv ==
  stage[Cleaner] \in {"waiting", "running"} => cutoff <= clock - inactivity_expiry_secs

IInv == TypeOK /\ StampInv /\ TouchInv /\ CutoffInv

-----------------------------------------------------------------------------
(* Wrapping a number to 64 bits *)

LEMMA SignedType ==
  ASSUME NEW n \in Int
  PROVE  Signed(n) \in Int /\ Signed(n) < Half /\ Signed(n) >= -Half
<1>1. Half \in Nat \ {0} BY NumberAssumption
<1>2. n % (2 * Half) \in Int /\ 0 <= n % (2 * Half) /\ n % (2 * Half) < 2 * Half
  BY <1>1, Z3
<1>. QED BY <1>1, <1>2, SMT DEF Signed

LEMMA SignedSmall ==
  ASSUME NEW n \in Nat, n < Half
  PROVE  Signed(n) = n
<1>1. Half \in Nat \ {0} BY NumberAssumption
<1>2. n % (2 * Half) = n
  BY <1>1, Z3
<1>. QED BY <1>1, <1>2, SMT DEF Signed

LEMMA SignedBelow ==
  ASSUME NEW n \in Int, n >= -Half
  PROVE  Signed(n) <= n
<1>1. Half \in Nat \ {0} BY NumberAssumption
<1>2. CASE n < 0
  <2>1. n % (2 * Half) = n + 2 * Half BY <1>1, <1>2, Z3
  <2>. QED BY <1>1, <1>2, <2>1, SMT DEF Signed
<1>3. CASE n >= 0
  <2>1. n % (2 * Half) \in Nat /\ n % (2 * Half) <= n BY <1>1, <1>3, Z3
  <2>. QED BY <1>1, <1>3, <2>1, SMT DEF Signed
<1>. QED BY <1>2, <1>3

LEMMA ExpiryType ==
  ASSUME TypeOK
  PROVE  /\ hours * HourSecs \in Nat
         /\ inactivity_expiry_secs \in Int
         /\ inactivity_expiry_secs < Half
         /\ Representable => inactivity_expiry_secs = hours * HourSecs
<1>1. hours \in Nat /\ HourSecs \in Nat BY NumberAssumption DEF TypeOK
<1>2. hours * HourSecs \in Nat BY <1>1, SMT
<1>. DEFINE secs == hours * HourSecs
<1>. HIDE DEF secs
<1>3. secs \in Nat BY <1>2 DEF secs
<1>4. Signed(secs) \in Int /\ Signed(secs) < Half BY <1>3, SignedType
<1>5. secs < Half => Signed(secs) = secs BY <1>3, SignedSmall
<1>. QED BY <1>3, <1>4, <1>5 DEF secs, inactivity_expiry_secs, Representable

(* A cutoff is an integer, and no later than the threshold says. *)
LEMMA CutoffBound ==
  ASSUME TypeOK
  PROVE  Cutoff(clock) \in Int /\ Cutoff(clock) <= clock - inactivity_expiry_secs
<1>1. clock \in Nat /\ Half \in Nat BY NumberAssumption DEF TypeOK
<1>2. inactivity_expiry_secs \in Int /\ inactivity_expiry_secs < Half BY ExpiryType
<1>. DEFINE n == clock - inactivity_expiry_secs
<1>3. n \in Int /\ n >= -Half BY <1>1, <1>2
<1>. HIDE DEF n
<1>4. Signed(n) \in Int /\ Signed(n) <= n BY <1>3, SignedType, SignedBelow
<1>. QED BY <1>4 DEF n, Cutoff
-----------------------------------------------------------------------------
(* The inductive invariant *)

LEMMA InitInv == Init => IInv
<1>. SUFFICES ASSUME Init PROVE IInv OBVIOUS
<1>1. TypeOK
  BY ActorAssumption, NumberAssumption DEF Init, TypeOK, Actor
<1>2. StampInv /\ CutoffInv
  BY ActorAssumption DEF Init, StampInv, CutoffInv, InFlight, Actor
<1>3. TouchInv
  BY NumberAssumption DEF Init, TouchInv
<1>. QED BY <1>1, <1>2, <1>3 DEF IInv

(* The end of a call of a task, whatever it did to the table. *)
LEMMA AnswerKeeps ==
  ASSUME IInv, NEW t \in Task, stage[t] # "locking", Answer(t)
  PROVE  /\ StampInv' /\ CutoffInv'
         /\ clock' \in Nat /\ hours' \in Hours
         /\ lock' \in Actor \cup {NoTask}
         /\ stage' \in [Actor -> {"idle", "locking", "waiting", "running"}]
         /\ op' \in [Task -> {"none", "insert", "update", "attach"}]
         /\ at' \in [Task -> Nat] /\ begun' \in [Task -> Nat] /\ cutoff' \in Int
<1>1. t \in Actor /\ Cleaner \in Actor /\ t # Cleaner
  BY ActorAssumption DEF Actor
<1>2. stage' = [stage EXCEPT ![t] = "idle"] /\ op' = [op EXCEPT ![t] = "none"]
      /\ at' = [at EXCEPT ![t] = 0] /\ begun' = [begun EXCEPT ![t] = 0]
      /\ clock' = clock /\ hours' = hours /\ cutoff' = cutoff
      /\ lock' \in {lock, NoTask}
  BY DEF Answer, Goto, Release
<1>3. StampInv'
  BY <1>1, <1>2 DEF IInv, TypeOK, StampInv, InFlight
<1>4. CutoffInv'
  BY <1>1, <1>2 DEF IInv, TypeOK, CutoffInv, inactivity_expiry_secs, Signed
<1>. QED BY <1>1, <1>2, <1>3, <1>4 DEF IInv, TypeOK

(* A stamp is stored: it is no more than Wait older than anything stored   *)
(* before it.                                                              *)
LEMMA StoreKeeps ==
  ASSUME IInv, NEW t \in Task, stage[t] = "running", op[t] \in {"insert", "update"},
         Store(t), clock' = clock, rows' \subseteq rows \cup {RoomOf[t]}
  PROVE  /\ TouchInv'
         /\ last_activity' \in [Id -> Nat] /\ touched' \in [Id -> Nat]
<1>. DEFINE r == RoomOf[t]
<1>1. r \in Id BY ActorAssumption
<1>2. at[t] = begun[t] /\ begun[t] \in Nat /\ begun[t] <= clock /\ clock <= begun[t] + Wait
      /\ clock \in Nat /\ Wait \in Nat
  BY NumberAssumption DEF IInv, TypeOK, StampInv, InFlight
<1>3. last_activity \in [Id -> Nat] /\ touched \in [Id -> Nat]
  BY DEF IInv, TypeOK
<1>4. /\ last_activity' = [last_activity EXCEPT ![r] = at[t]]
      /\ touched' = [touched EXCEPT ![r] = IF begun[t] > touched[r] THEN begun[t] ELSE touched[r]]
  BY DEF Store
<1>5. last_activity' \in [Id -> Nat] /\ touched' \in [Id -> Nat]
  BY <1>1, <1>2, <1>3, <1>4
<1>6. ASSUME NEW q \in Id
      PROVE  /\ last_activity'[q] <= clock' /\ touched'[q] <= clock'
             /\ q \in rows' => touched'[q] <= last_activity'[q] + Wait
  <2>1. CASE q = r
    <3>1. last_activity'[r] = at[t]
          /\ touched'[r] = IF begun[t] > touched[r] THEN begun[t] ELSE touched[r]
      BY <1>1, <1>3, <1>4
    <3>2. touched[r] <= clock /\ touched[r] \in Nat
      BY <1>1, <1>3 DEF IInv, TouchInv
    <3>. HIDE DEF r
    <3>. QED BY <2>1, <3>1, <3>2, <1>2
  <2>2. CASE q # r
    <3>1. last_activity'[q] = last_activity[q] /\ touched'[q] = touched[q] /\ (q \in rows' => q \in rows)
      BY <1>3, <1>4, <2>2
    <3>. QED BY <3>1 DEF IInv, TouchInv
  <2>. QED BY <2>1, <2>2
<1>. QED BY <1>5, <1>6 DEF TouchInv
LEMMA StepInv == IInv /\ [Next]_vars => IInv'
<1>. SUFFICES ASSUME IInv, [Next]_vars PROVE IInv' OBVIOUS
<1>. USE DEF table, calls
<1>t. Cleaner \in Actor /\ Task \subseteq Actor /\ Cleaner \notin Task
      /\ NoTask \notin Actor /\ RoomOf \in [Task -> Id]
  BY ActorAssumption DEF Actor
<1>1. ASSUME NEW t \in Task, NEW kind \in {"insert", "update"}, Begin(t, kind)
      PROVE  IInv'
  <2>1. t \in Actor /\ t # Cleaner BY <1>t
  <2>2. TypeOK' BY <1>1, <2>1 DEF IInv, TypeOK, Begin, Stamp, Goto
  <2>3. StampInv'
    BY <1>1, <2>1, NumberAssumption DEF IInv, TypeOK, StampInv, InFlight, Begin, Stamp, Goto
  <2>4. TouchInv' BY <1>1 DEF IInv, TouchInv, Begin
  <2>5. CutoffInv'
    BY <1>1, <2>1 DEF IInv, TypeOK, CutoffInv, Begin, Goto, inactivity_expiry_secs, Signed
  <2>. QED BY <2>2, <2>3, <2>4, <2>5 DEF IInv
<1>2. ASSUME NEW t \in Task, CreateRoom(t) \/ ChatMessage(t) PROVE IInv'
  BY <1>1, <1>2 DEF CreateRoom, ChatMessage
<1>3. ASSUME NEW a \in Actor, Acquire(a) PROVE IInv'
  <2>1. TypeOK' BY <1>3 DEF IInv, TypeOK, Acquire, Goto
  <2>2. StampInv' BY <1>t, <1>3 DEF IInv, TypeOK, StampInv, InFlight, Acquire, Goto
  <2>3. TouchInv' BY <1>3 DEF IInv, TouchInv, Acquire
  <2>4. CutoffInv'
    BY <1>t, <1>3 DEF IInv, TypeOK, CutoffInv, Acquire, Goto, inactivity_expiry_secs, Signed
  <2>. QED BY <2>1, <2>2, <2>3, <2>4 DEF IInv
<1>4. ASSUME NEW t \in Task, Inserted(t) PROVE IInv'
  <2>1. stage[t] = "running" /\ op[t] = "insert" /\ Store(t) /\ Answer(t)
        /\ rows' = rows \cup {RoomOf[t]} /\ created' = created \cup {RoomOf[t]}
        /\ clock' = clock
    BY <1>4 DEF Inserted, Answer
  <2>2. TouchInv' /\ last_activity' \in [Id -> Nat] /\ touched' \in [Id -> Nat]
    BY <2>1, StoreKeeps
  <2>3. rows' \subseteq created' /\ created' \subseteq Id
    BY <1>t, <2>1 DEF IInv, TypeOK
  <2>. QED BY <2>1, <2>2, <2>3, AnswerKeeps DEF IInv, TypeOK
<1>5. ASSUME NEW t \in Task, Updated(t) PROVE IInv'
  <2>1. stage[t] = "running" /\ op[t] = "update" /\ Answer(t)
        /\ rows' = rows /\ created' = created /\ clock' = clock
    BY <1>5 DEF Updated, Answer
  <2>2. TouchInv' /\ last_activity' \in [Id -> Nat] /\ touched' \in [Id -> Nat]
    <3>1. CASE RoomOf[t] \in rows
      <4>1. Store(t) BY <1>5, <3>1 DEF Updated
      <4>. QED BY <2>1, <4>1, StoreKeeps
    <3>2. CASE RoomOf[t] \notin rows
      <4>1. UNCHANGED <<last_activity, touched>> BY <1>5, <3>2 DEF Updated
      <4>. QED BY <2>1, <4>1 DEF IInv, TypeOK, TouchInv
    <3>. QED BY <3>1, <3>2
  <2>. QED BY <2>1, <2>2, AnswerKeeps DEF IInv, TypeOK
<1>6. ASSUME NEW t \in Task, CallFails(t) \/ AttachAnswered(t) PROVE IInv'
  <2>1. stage[t] # "locking" /\ Answer(t) /\ UNCHANGED table /\ clock' = clock
    BY <1>6 DEF CallFails, AttachAnswered, Answer
  <2>2. TouchInv' BY <2>1 DEF IInv, TouchInv
  <2>. QED BY <2>1, <2>2, AnswerKeeps DEF IInv, TypeOK
<1>7. ASSUME NEW t \in Task, AttachBegins(t) \/ AttachLocks(t) PROVE IInv'
  <2>1. t \in Actor /\ t # Cleaner BY <1>t
  <2>2. TypeOK' BY <1>7, <2>1 DEF IInv, TypeOK, AttachBegins, AttachLocks, Goto
  <2>3. StampInv'
    <3>1. CASE AttachBegins(t)
      BY <2>1, <3>1 DEF IInv, TypeOK, StampInv, InFlight, AttachBegins, Goto
    <3>2. CASE AttachLocks(t)
      <4>1. op[t] = "attach" /\ stage[t] = "locking" /\ begun' = [begun EXCEPT ![t] = clock]
            /\ stage' = [stage EXCEPT ![t] = "waiting"] /\ UNCHANGED <<clock, op, at>>
        BY <3>2 DEF AttachLocks, Goto, IInv, StampInv
      <4>. QED BY <2>1, <4>1, NumberAssumption DEF IInv, TypeOK, StampInv, InFlight
    <3>. QED BY <1>7, <3>1, <3>2
  <2>4. TouchInv' BY <1>7 DEF IInv, TouchInv, AttachBegins, AttachLocks
  <2>5. CutoffInv'
    <3>1. UNCHANGED <<clock, hours, cutoff>> /\ stage'[Cleaner] = stage[Cleaner]
      BY <1>t, <1>7, <2>1 DEF IInv, TypeOK, AttachBegins, AttachLocks, Goto
    <3>2. inactivity_expiry_secs' = inactivity_expiry_secs
      BY <3>1 DEF inactivity_expiry_secs, Signed
    <3>. QED BY <3>1, <3>2 DEF IInv, CutoffInv
  <2>. QED BY <2>2, <2>3, <2>4, <2>5 DEF IInv
<1>8. ASSUME SweepBegins PROVE IInv'
  <2>1. TypeOK' BY <1>t, <1>8 DEF IInv, TypeOK, SweepBegins, Goto
  <2>2. StampInv' BY <1>t, <1>8 DEF IInv, TypeOK, StampInv, InFlight, SweepBegins, Goto
  <2>3. TouchInv' /\ CutoffInv' BY <1>t, <1>8 DEF IInv, TypeOK, TouchInv, CutoffInv, SweepBegins, Goto
  <2>. QED BY <2>1, <2>2, <2>3 DEF IInv
<1>9. ASSUME SweepLocks PROVE IInv'
  <2>1. Cutoff(clock) \in Int /\ Cutoff(clock) <= clock - inactivity_expiry_secs
    BY CutoffBound DEF IInv
  <2>2. TypeOK' BY <1>t, <1>9, <2>1 DEF IInv, TypeOK, SweepLocks, Goto
  <2>3. StampInv' BY <1>t, <1>9 DEF IInv, TypeOK, StampInv, InFlight, SweepLocks, Goto
  <2>4. TouchInv' BY <1>9 DEF IInv, TouchInv, SweepLocks
  <2>5. cutoff' = Cutoff(clock) /\ clock' = clock
        /\ inactivity_expiry_secs' = inactivity_expiry_secs
    BY <1>9 DEF SweepLocks, inactivity_expiry_secs, Signed
  <2>6. CutoffInv' BY <2>1, <2>5 DEF CutoffInv
  <2>. QED BY <2>2, <2>3, <2>4, <2>6 DEF IInv
<1>10. ASSUME Swept PROVE IInv'
  <2>1. TypeOK' BY <1>t, <1>10 DEF IInv, TypeOK, Swept, Goto
  <2>2. StampInv' BY <1>t, <1>10 DEF IInv, TypeOK, StampInv, InFlight, Swept, Goto
  <2>3. TouchInv' BY <1>10 DEF IInv, TypeOK, TouchInv, Swept
  <2>4. CutoffInv' BY <1>t, <1>10 DEF IInv, TypeOK, CutoffInv, Swept, Goto
  <2>. QED BY <2>1, <2>2, <2>3, <2>4 DEF IInv
<1>11. ASSUME SweepFails PROVE IInv'
  <2>1. TypeOK' BY <1>t, <1>11 DEF IInv, TypeOK, SweepFails, Goto, Release
  <2>2. StampInv' BY <1>t, <1>11 DEF IInv, TypeOK, StampInv, InFlight, SweepFails, Goto
  <2>3. TouchInv' /\ CutoffInv'
    BY <1>t, <1>11 DEF IInv, TypeOK, TouchInv, CutoffInv, SweepFails, Goto
  <2>. QED BY <2>1, <2>2, <2>3 DEF IInv
<1>12. ASSUME Tick PROVE IInv'
  <2>0. clock' = clock + 1 /\ clock \in Nat /\ Wait \in Nat /\ UNCHANGED <<hours, table, calls>>
    BY <1>12, NumberAssumption DEF Tick, IInv, TypeOK
  <2>1. TypeOK' BY <2>0 DEF IInv, TypeOK
  <2>2. StampInv'
    <3>1. \A t \in Task : InFlight(t) => clock < begun[t] + Wait BY <1>12 DEF Tick, InFlight
    <3>. QED BY <2>0, <3>1 DEF IInv, TypeOK, StampInv, InFlight
  <2>3. TouchInv' BY <2>0 DEF IInv, TypeOK, TouchInv
  <2>4. inactivity_expiry_secs \in Int /\ cutoff \in Int BY ExpiryType DEF IInv, TypeOK
  <2>5. inactivity_expiry_secs' = inactivity_expiry_secs
    BY <2>0 DEF inactivity_expiry_secs, Signed
  <2>6. CutoffInv'
    <3>. HIDE DEF inactivity_expiry_secs
    <3>. QED BY <2>0, <2>4, <2>5 DEF IInv, CutoffInv
  <2>. QED BY <2>1, <2>2, <2>3, <2>6 DEF IInv
<1>13. ASSUME Restart PROVE IInv'
  <2>1. TypeOK' BY <1>13 DEF IInv, TypeOK, Restart
  <2>2. StampInv' /\ CutoffInv' BY <1>t, <1>13 DEF StampInv, CutoffInv, InFlight, Restart
  <2>3. TouchInv' BY <1>13 DEF IInv, TouchInv, Restart
  <2>. QED BY <2>1, <2>2, <2>3 DEF IInv
<1>14. ASSUME UNCHANGED vars PROVE IInv'
  BY <1>14 DEF IInv, TypeOK, StampInv, TouchInv, CutoffInv, InFlight, vars,
               inactivity_expiry_secs, Signed
<1>. QED
  BY <1>2, <1>3, <1>4, <1>5, <1>6, <1>7, <1>8, <1>9, <1>10, <1>11, <1>12, <1>13, <1>14
  DEF Next, Call, Cleanup

LEMMA Invariant == Spec => []IInv
<1>1. Init => IInv BY InitInv
<1>2. IInv /\ [Next]_vars => IInv' BY StepInv
<1>. QED BY <1>1, <1>2, PTL DEF Spec

(* Every timestamp, stamp and cutoff is a number the code can hold. *)
THEOREM TypeCorrect == Spec => []TypeOK
<1>1. IInv => TypeOK BY DEF IInv
<1>. QED BY Invariant, <1>1, PTL

(* last_activity never moves back by more than a call waits (db.rs:93). *)
THEOREM BackwardsBounded == Spec => []BackBounded
<1>1. IInv => BackBounded BY DEF IInv, TypeOK, TouchInv, BackBounded
<1>. QED BY Invariant, <1>1, PTL
(* No room is deleted that was written in during the configured hours less *)
(* Wait, for all hours that 63 bits of seconds can represent.              *)
THEOREM Kept == Spec => KeptWhileActive
<1>1. ASSUME IInv, [Next]_vars PROVE DeletedOnlyIdle
  <2>1. CASE Swept
    <3>. SUFFICES ASSUME NEW r \in rows \ rows', Representable
                  PROVE  touched[r] + hours * HourSecs < clock + Wait
      BY DEF DeletedOnlyIdle
    <3>1. r \in Id /\ r \in rows /\ last_activity[r] < cutoff /\ cutoff <= clock - inactivity_expiry_secs
      BY <1>1, <2>1 DEF Swept, Inactive, IInv, TypeOK, CutoffInv
    <3>2. inactivity_expiry_secs = hours * HourSecs /\ inactivity_expiry_secs \in Int
      BY <1>1, ExpiryType DEF IInv
    <3>3. touched[r] <= last_activity[r] + Wait
      BY <1>1, <3>1 DEF IInv, TouchInv
    <3>4. touched[r] \in Int /\ last_activity[r] \in Int /\ clock \in Int /\ cutoff \in Int /\ Wait \in Int
      BY <1>1, <3>1, NumberAssumption DEF IInv, TypeOK
    <3>. HIDE DEF inactivity_expiry_secs
    <3>5. touched[r] + inactivity_expiry_secs < clock + Wait
      BY <3>1, <3>2, <3>3, <3>4
    <3>. QED BY <3>2, <3>5
  <2>2. CASE ~Swept
    <3>1. rows \ rows' = {}
      BY <1>1, <2>2 DEF Next, Call, Cleanup, CreateRoom, ChatMessage, Begin, AttachBegins,
        AttachLocks, Inserted, Updated, AttachAnswered, CallFails, Acquire, SweepBegins,
        SweepLocks, SweepFails, Tick, Restart, vars, table
    <3>. QED BY <3>1 DEF DeletedOnlyIdle
  <2>. QED BY <2>1, <2>2
<1>2. IInv /\ [Next]_vars => [DeletedOnlyIdle]_vars BY <1>1
<1>. QED BY Invariant, <1>2, PTL DEF Spec, KeptWhileActive

-----------------------------------------------------------------------------
(* The timestamps implement Lifetime *)

TableRow == [r \in Id |-> RowState(r)]

LEMMA SameRows ==
  ASSUME UNCHANGED <<clock, hours, rows, created, last_activity>>
  PROVE  TableRow' = TableRow
BY DEF TableRow, RowState, Stale, inactivity_expiry_secs, Signed

LEMMA RowStateValue ==
  ASSUME TypeOK, NEW r \in Id
  PROVE  /\ TableRow[r] = RowState(r)
         /\ RowState(r) = "absent" <=> r \notin created
         /\ RowState(r) = "deleted" <=> r \in created \ rows
         /\ RowState(r) = "stale" <=> r \in rows /\ Stale(r)
         /\ RowState(r) = "fresh" <=> r \in rows /\ ~Stale(r)
         /\ RowState(r) \in {"absent", "deleted", "stale", "fresh"}
BY DEF TableRow, RowState, TypeOK

LEMMA TableInit == Init => Table!Init
<1>. SUFFICES ASSUME Init PROVE Table!Init OBVIOUS
<1>1. \A r \in Id : RowState(r) = "absent" BY DEF Init, RowState
<1>. QED BY <1>1 DEF Table!Init

(* A row changes alone: it is inserted, touched, or overtaken by an older  *)
(* stamp than its own.                                                     *)
LEMMA OneRow ==
  ASSUME TypeOK, TypeOK', NEW r \in Id,
         UNCHANGED <<clock, hours>>,
         \A q \in Id \ {r} : /\ (q \in rows' <=> q \in rows)
                             /\ (q \in created' <=> q \in created)
                             /\ last_activity'[q] = last_activity[q],
         r \in rows', r \notin created \/ r \in rows
  PROVE  [Table!Next]_TableRow
<1>1. inactivity_expiry_secs' = inactivity_expiry_secs
  BY DEF inactivity_expiry_secs, Signed
<1>2. \A q \in Id \ {r} : RowState(q)' = RowState(q)
  BY <1>1 DEF RowState, Stale
<1>3. RowState(r)' \in {"fresh", "stale"}
  BY DEF RowState, TypeOK
<1>4. RowState(r) \in {"absent", "fresh", "stale"}
  BY DEF RowState, TypeOK
<1>5. TableRow' = [q \in Id |-> IF q \in {r} THEN RowState(r)' ELSE TableRow[q]]
  BY <1>2 DEF TableRow
<1>6. CASE RowState(r) = "absent"
  <2>1. Table!Insert(r)
    BY <1>3, <1>5, <1>6 DEF Table!Insert, Table!In, Table!Become, TableRow
  <2>. QED BY <2>1 DEF Table!Next
<1>7. CASE RowState(r) = "stale" /\ RowState(r)' = "fresh"
  <2>1. Table!Touch(r)
    BY <1>5, <1>7 DEF Table!Touch, Table!In, Table!Become, TableRow
  <2>. QED BY <2>1 DEF Table!Next
<1>8. CASE RowState(r) = "fresh" /\ RowState(r)' = "stale"
  <2>1. {r} \in SUBSET Table!In("fresh") /\ Table!Become({r}, "stale")
    BY <1>5, <1>8 DEF Table!In, Table!Become, TableRow
  <2>. QED BY <2>1 DEF Table!Age, Table!Next
<1>9. CASE RowState(r)' = RowState(r)
  BY <1>5, <1>9 DEF TableRow
<1>. QED BY <1>3, <1>4, <1>6, <1>7, <1>8, <1>9

LEMMA TableStep == IInv /\ IInv' /\ [Next]_vars => [Table!Next]_TableRow
<1>. SUFFICES ASSUME IInv, IInv', [Next]_vars PROVE [Table!Next]_TableRow OBVIOUS
<1>0. TypeOK /\ TypeOK' BY DEF IInv
<1>1. CASE \E t \in Task : Inserted(t)
  <2>1. PICK t \in Task : Inserted(t) BY <1>1
  <2>2. RoomOf[t] \in Id /\ last_activity \in [Id -> Nat]
    BY <1>0, ActorAssumption DEF TypeOK
  <2>. QED BY <1>0, <2>1, <2>2, OneRow DEF Inserted, Store, Answer
<1>2. CASE \E t \in Task : Updated(t)
  <2>1. PICK t \in Task : Updated(t) BY <1>2
  <2>2. RoomOf[t] \in Id /\ last_activity \in [Id -> Nat]
    BY <1>0, ActorAssumption DEF TypeOK
  <2>3. CASE RoomOf[t] \in rows
    BY <1>0, <2>1, <2>2, <2>3, OneRow DEF Updated, Store, Answer
  <2>4. CASE RoomOf[t] \notin rows
    BY <2>1, <2>4, SameRows DEF Updated, Answer
  <2>. QED BY <2>3, <2>4
<1>3. CASE Swept
  <2>1. inactivity_expiry_secs \in Int /\ clock \in Int /\ cutoff \in Int
        /\ cutoff <= clock - inactivity_expiry_secs
    BY <1>3, ExpiryType DEF IInv, TypeOK, CutoffInv, Swept
  <2>2. inactivity_expiry_secs' = inactivity_expiry_secs /\ clock' = clock /\ created' = created
    BY <1>3 DEF Swept, inactivity_expiry_secs, Signed
  <2>3. Inactive \subseteq {r \in Id : RowState(r) = "stale"}
    <3>1. ASSUME NEW r \in Inactive PROVE r \in Id /\ r \in rows /\ Stale(r)
      <4>1. r \in Id /\ r \in rows /\ last_activity[r] \in Int /\ last_activity[r] < cutoff
        BY <1>0 DEF Inactive, TypeOK
      <4>. HIDE DEF inactivity_expiry_secs
      <4>. QED BY <2>1, <4>1 DEF Stale
    <3>. QED BY <1>0, <3>1, RowStateValue
  <2>4. \A r \in Inactive : RowState(r)' = "deleted"
    BY <1>0, <1>3, <2>2 DEF Swept, RowState, Inactive, TypeOK
  <2>5. \A r \in Id \ Inactive : RowState(r)' = RowState(r)
    BY <1>0, <1>3, <2>2 DEF Swept, RowState, Stale, TypeOK
  <2>6. TableRow' = [r \in Id |-> IF r \in Inactive THEN "deleted" ELSE TableRow[r]]
    BY <2>4, <2>5 DEF TableRow
  <2>7. Inactive \in SUBSET Table!In("stale") /\ Table!Become(Inactive, "deleted")
    BY <2>3, <2>6 DEF Table!In, Table!Become, TableRow
  <2>. QED BY <2>7 DEF Table!Sweep, Table!Next
<1>4. CASE Tick
  <2>1. inactivity_expiry_secs \in Int /\ inactivity_expiry_secs' = inactivity_expiry_secs
    BY <1>0, <1>4, ExpiryType DEF Tick, inactivity_expiry_secs, Signed
  <2>2. clock \in Int /\ clock' = clock + 1 /\ UNCHANGED <<rows, created, last_activity>>
    BY <1>0, <1>4 DEF Tick, TypeOK, table
  <2>. DEFINE S == {r \in Id : RowState(r) = "fresh" /\ RowState(r)' = "stale"}
  <2>3. ASSUME NEW r \in Id, r \notin S PROVE RowState(r)' = RowState(r)
    <3>1. last_activity[r] \in Int BY <1>0 DEF TypeOK
    <3>2. Stale(r) => Stale(r)'
      <4>. HIDE DEF inactivity_expiry_secs
      <4>. QED BY <2>1, <2>2, <3>1 DEF Stale
    <3>3. RowState(r) = "absent" => RowState(r)' = "absent" BY <2>2 DEF RowState
    <3>4. RowState(r) = "deleted" => RowState(r)' = "deleted" BY <2>2 DEF RowState
    <3>5. r \in rows => r \in created /\ r \in rows' /\ r \in created' BY <1>0, <2>2 DEF TypeOK
    <3>6. r \in rows => RowState(r) = (IF Stale(r) THEN "stale" ELSE "fresh")
                        /\ RowState(r)' = (IF Stale(r)' THEN "stale" ELSE "fresh")
      BY <3>5 DEF RowState
    <3>. QED BY <1>0, <2>3, <3>2, <3>3, <3>4, <3>6, RowStateValue
  <2>4. TableRow' = [r \in Id |-> IF r \in S THEN "stale" ELSE TableRow[r]]
    BY <2>3 DEF TableRow
  <2>5. S \in SUBSET Table!In("fresh") /\ Table!Become(S, "stale")
    BY <2>4 DEF Table!In, Table!Become, TableRow
  <2>. QED BY <2>5 DEF Table!Age, Table!Next
<1>5. CASE ~(\E t \in Task : Inserted(t) \/ Updated(t)) /\ ~Swept /\ ~Tick
  <2>1. UNCHANGED <<clock, hours, rows, created, last_activity>>
    BY <1>5 DEF Next, Call, Cleanup, CreateRoom, ChatMessage, Begin, AttachBegins,
      AttachLocks, AttachAnswered, CallFails, Answer, Acquire, SweepBegins, SweepLocks,
      SweepFails, Restart, vars, table
  <2>. QED BY <2>1, SameRows
<1>. QED BY <1>1, <1>2, <1>3, <1>4, <1>5

(* The table of timestamps implements the table that Room is built on:     *)
(* only stale rooms are deleted, and no deleted room comes back.           *)
THEOREM TimestampsImplementTable == Spec => Table!Spec
<1>1. Init => Table!Init BY TableInit
<1>2. IInv /\ IInv' /\ [Next]_vars => [Table!Next]_TableRow BY TableStep
<1>. QED BY Invariant, <1>1, <1>2, PTL DEF Spec, Table!Spec, TableRow

-----------------------------------------------------------------------------
(* Nobody waits for ever: what can be said of it without fairness.         *)

(* The lock is held by an attach or a cleanup that has got it and is not   *)
(* answered yet; an id is inserted by one task, once.                      *)
HoldInv ==
  /\ \A a \in Actor :
       lock = a <=> stage[a] \in {"waiting", "running"} /\ (a # Cleaner => op[a] = "attach")
  /\ \A t \in Task : stage[t] = "idle" <=> op[t] = "none"
  /\ \A t \in Task : op[t] = "insert" =>
       /\ RoomOf[t] \notin created
       /\ \A u \in Task \ {t} : op[u] = "insert" => RoomOf[u] # RoomOf[t]

PoolInv == Cardinality(Running) <= Pool

LEMMA StepHold ==
  ASSUME IInv, HoldInv, [Next]_vars
  PROVE  HoldInv'
<1> USE ActorAssumption DEF IInv, TypeOK, HoldInv, Actor, Goto, table, calls
<1>1. CASE UNCHANGED vars \/ Tick
  BY <1>1 DEF vars, Tick
<1>2. ASSUME NEW t \in Task, Answer(t), stage[t] \in {"waiting", "running"},
             \/ created' = created
             \/ op[t] = "insert" /\ created' = created \cup {RoomOf[t]}
      PROVE  HoldInv'
  BY <1>2 DEF Answer, Release
<1>3. ASSUME NEW t \in Task, Call(t) PROVE HoldInv'
  <2>1. CASE CreateRoom(t) \/ ChatMessage(t)
    BY <2>1 DEF CreateRoom, ChatMessage, Begin, Stamp
  <2>2. CASE AttachBegins(t) \/ AttachLocks(t)
    BY <2>2 DEF AttachBegins, AttachLocks, StampInv
  <2>3. CASE Inserted(t) \/ Updated(t) \/ AttachAnswered(t) \/ CallFails(t)
    BY <1>2, <2>3 DEF Inserted, Updated, AttachAnswered, CallFails
  <2> QED
    BY <1>3, <2>1, <2>2, <2>3 DEF Call
<1>4. ASSUME NEW a \in Actor, Acquire(a) PROVE HoldInv'
  BY <1>4 DEF Acquire
<1>5. CASE Cleanup
  BY <1>5 DEF Cleanup, SweepBegins, SweepLocks, Swept, SweepFails, Release
<1>6. CASE Restart
  BY <1>6 DEF Restart
<1> QED
  BY <1>1, <1>3, <1>4, <1>5, <1>6 DEF Next

LEMMA StepPool ==
  ASSUME IInv, PoolInv, [Next]_vars
  PROVE  PoolInv'
<1>1. IsFiniteSet(Actor)
  BY ActorAssumption, FS_AddElement DEF Actor
<1>2. Running \in SUBSET Actor /\ IsFiniteSet(Running) /\ Cardinality(Running) \in Nat
  BY <1>1, FS_Subset, FS_CardinalityType DEF Running
<1>3. ASSUME Running' \subseteq Running PROVE PoolInv'
  <2>1. Cardinality(Running') \in Nat /\ Cardinality(Running') <= Cardinality(Running)
    BY <1>2, <1>3, FS_Subset, FS_CardinalityType
  <2> QED
    BY <1>2, <2>1, NumberAssumption DEF PoolInv
<1>4. ASSUME NEW a \in Actor, Acquire(a) PROVE PoolInv'
  <2>1. Running' = Running \cup {a} /\ a \notin Running /\ Cardinality(Running) < Pool
    BY <1>4 DEF Acquire, Goto, Running, IInv, TypeOK
  <2>2. Cardinality(Running') = Cardinality(Running) + 1
    BY <1>2, <2>1, FS_AddElement
  <2> QED
    BY <1>2, <2>1, <2>2, NumberAssumption DEF PoolInv
<1>5. ASSUME ~\E a \in Actor : Acquire(a) PROVE Running' \subseteq Running
  <2> USE DEF Running, Goto, IInv, TypeOK
  <2>1. ASSUME NEW t \in Task, Call(t) PROVE Running' \subseteq Running
    BY <2>1 DEF Call, CreateRoom, ChatMessage, Begin, AttachBegins, AttachLocks, Inserted,
       Updated, AttachAnswered, CallFails, Answer
  <2>2. CASE Cleanup
    BY <2>2 DEF Cleanup, SweepBegins, SweepLocks, Swept, SweepFails
  <2>3. CASE Tick \/ Restart \/ UNCHANGED vars
    BY <2>3 DEF Tick, Restart, vars, calls
  <2> QED
    BY <1>5, <2>1, <2>2, <2>3 DEF Next
<1> QED
  BY <1>3, <1>4, <1>5

LEMMA Holding == Spec => [](IInv /\ HoldInv /\ PoolInv)
<1>1. Init => IInv
  BY InitInv
<1>2. Init => HoldInv
  BY ActorAssumption DEF Init, HoldInv, Actor
<1>3. Init => PoolInv
  <2> SUFFICES ASSUME Init PROVE PoolInv
    OBVIOUS
  <2>1. Running = {}
    BY DEF Init, Running
  <2> QED
    BY <2>1, FS_EmptySet, NumberAssumption DEF PoolInv
<1>4. IInv /\ HoldInv /\ PoolInv /\ [Next]_vars => (IInv /\ HoldInv /\ PoolInv)'
  BY StepInv, StepHold, StepPool
<1> QED
  BY <1>1, <1>2, <1>3, <1>4, PTL DEF Spec

(* A call with a connection can be answered, whatever others do. *)
Answerable(a) ==
  IF a = Cleaner THEN lock = Cleaner
  ELSE op[a] \in {"attach", "update"} \/ (op[a] = "insert" /\ RoomOf[a] \notin created)

(* attach and the cleanup wait for a connection with the lock in hand: who *)
(* waits for the lock waits for one that waits for connections at most,    *)
(* who waits for a connection waits for one that can be answered.          *)
NobodyStuck ==
  /\ Cardinality(Running) <= Pool
  /\ \A a \in Actor :
       /\ stage[a] = "locking" => lock = NoTask \/ stage[lock] \in {"waiting", "running"}
       /\ stage[a] = "waiting" =>
            Cardinality(Running) < Pool \/ \E b \in Actor : stage[b] = "running"
       /\ stage[a] = "running" => Answerable(a)

(* The safety core of LockReleased, for every pool and any number of tasks *)
(* (state.rs:123, state.rs:195): there is no circular wait.                *)
THEOREM NoCircularWait == Spec => []NobodyStuck
<1>1. ASSUME IInv, HoldInv, PoolInv PROVE NobodyStuck
  <2>1. ASSUME NEW a \in Actor, stage[a] = "locking"
        PROVE  lock = NoTask \/ stage[lock] \in {"waiting", "running"}
    BY <1>1 DEF IInv, TypeOK, HoldInv
  <2>2. ASSUME NEW a \in Actor, stage[a] = "waiting"
        PROVE  Cardinality(Running) < Pool \/ \E b \in Actor : stage[b] = "running"
    <3>1. CASE Running = {}
      BY <3>1, FS_EmptySet, NumberAssumption
    <3> QED
      BY <3>1 DEF Running
  <2>3. ASSUME NEW a \in Actor, stage[a] = "running" PROVE Answerable(a)
    BY <1>1, <2>3, ActorAssumption DEF IInv, TypeOK, HoldInv, Answerable, Actor
  <2> QED
    BY <1>1, <2>1, <2>2, <2>3 DEF NobodyStuck, PoolInv
<1> QED
  BY <1>1, Holding, PTL

(* However late the updates and inserts under way are: what goes from the  *)
(* table was stale then, and what has gone does not come back.             *)
GoneForGood ==
  \A r \in Id : /\ RowState(r) = "deleted" => RowState(r)' = "deleted"
                /\ RowState(r) # "deleted" /\ RowState(r)' = "deleted" => RowState(r) = "stale"

THEOREM DeletedForGood == Spec => [][GoneForGood]_vars
<1>1. ASSUME IInv, IInv', [Next]_vars PROVE GoneForGood
  <2>1. [Table!Next]_TableRow
    BY <1>1, TableStep
  <2>2. TableRow \in [Id -> Table!States] /\ \A r \in Id : TableRow[r] = RowState(r)
    BY <1>1, RowStateValue DEF IInv, TableRow, Table!States
  <2>3. \A r \in Id : TableRow'[r] = RowState(r)'
    BY DEF TableRow
  <2>4. CASE Table!Next
    BY <2>2, <2>3, <2>4 DEF Table!Next, Table!Insert, Table!Touch, Table!Age, Table!Sweep,
       Table!Become, Table!In, GoneForGood, TableRow
  <2> QED
    BY <2>1, <2>2, <2>3, <2>4 DEF GoneForGood
<1> QED
  BY <1>1, Invariant, PTL DEF Spec
=============================================================================
