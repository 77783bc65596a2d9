------------------------------ MODULE Activity ------------------------------
(***************************************************************************)
(* The timestamps of the table `rooms` (src/src/db.rs): create_room and    *)
(* update_activity, which read the clock before their statement runs;      *)
(* room_exists as attach calls it, under the RoomMap lock                  *)
(* (src/src/state.rs); and expire_inactive_rooms as the cleanup task calls *)
(* it, with the threshold that the configuration gives (src/src/config.rs).*)
(*                                                                         *)
(* All of them wait for one of the connections of the pool, and attach and *)
(* the cleanup keep the lock while they wait.  A call that has waited for  *)
(* Wait seconds is answered, with an error if need be (the acquire timeout *)
(* of the pool).  Calls that neither hold the lock nor write a timestamp   *)
(* (room_password, GET /api/rooms/:id) only occupy a connection, as an     *)
(* update that fails does.                                                 *)
(*                                                                         *)
(* The wall clock is taken never to step back; the code has no guard       *)
(* against one that does.                                                  *)
(***************************************************************************)
EXTENDS Integers, FiniteSets

CONSTANTS
  Id,        \* room ids
  Task,      \* sessions and request handlers
  RoomOf,    \* RoomOf[t]: the room a task works for
  Cleaner,   \* the cleanup task
  NoTask,    \* nobody holds the lock
  Pool,      \* max_connections: 5
  Wait,      \* seconds from the clock read of a call to its answer
  Hours,     \* values of INACTIVITY_EXPIRY_HOURS
  HourSecs,  \* 3600
  Half,      \* 2^63
  MaxClock   \* bound of the clock

Actor == Task \cup {Cleaner}

ASSUME ActorAssumption ==
  /\ RoomOf \in [Task -> Id] /\ IsFiniteSet(Task)
  /\ Cleaner \notin Task /\ NoTask \notin Actor
ASSUME NumberAssumption ==
  /\ Pool \in Nat \ {0} /\ Wait \in Nat /\ Hours \subseteq Nat
  /\ HourSecs \in Nat \ {0} /\ Half \in Nat \ {0} /\ MaxClock \in Nat
  /\ MaxClock < Half

VARIABLES
  clock,          \* SystemTime::now, in seconds
  hours,          \* Config.inactivity_expiry_hours
  rows,           \* the ids in the table
  created,        \* the ids that were ever inserted
  last_activity,  \* the column, 0 where there is no row
  touched,        \* history: when the latest call that reached the row began
  lock,           \* who holds rooms.write()
  stage,          \* where the call of each actor is
  op,             \* which call a task makes
  at,             \* `now` of a task's call
  begun,          \* history: when the task's call read the clock
  cutoff          \* `cutoff` of the cleanup's call

table == <<rows, created, last_activity, touched>>
calls == <<lock, stage, op, at, begun, cutoff>>
vars  == <<clock, hours, table, calls>>

TypeOK ==
  /\ clock \in Nat /\ hours \in Hours
  /\ rows \subseteq created /\ created \subseteq Id
  /\ last_activity \in [Id -> Nat] /\ touched \in [Id -> Nat]
  /\ lock \in Actor \cup {NoTask}
  /\ stage \in [Actor -> {"idle", "locking", "waiting", "running"}]
  /\ op \in [Task -> {"none", "insert", "update", "attach"}]
  /\ at \in [Task -> Nat] /\ begun \in [Task -> Nat] /\ cutoff \in Int

Init ==
  /\ clock = 0 /\ hours \in Hours
  /\ rows = {} /\ created = {}
  /\ last_activity = [r \in Id |-> 0] /\ touched = [r \in Id |-> 0]
  /\ lock = NoTask /\ stage = [a \in Actor |-> "idle"]
  /\ op = [t \in Task |-> "none"] /\ cutoff = 0
  /\ at = [t \in Task |-> 0] /\ begun = [t \in Task |-> 0]

-----------------------------------------------------------------------------
(* Numbers: u64 times u64 wraps in a release build, and so does i64 minus  *)
(* i64; the cast from u64 to i64 keeps the bits.                           *)

Signed(n) == LET u == n % (2 * Half) IN IF u < Half THEN u ELSE u - 2 * Half

inactivity_expiry_secs == Signed(hours * HourSecs)

Cutoff(now) == Signed(now - inactivity_expiry_secs)

(* The configured hours are a number of seconds that an i64 can hold. *)
Representable == hours * HourSecs < Half

-----------------------------------------------------------------------------
(* A call: it waits for a connection, runs, and is answered. *)

Goto(a, place) == stage' = [stage EXCEPT ![a] = place]

(* Mutant: the cleanup waits for the lock with a connection in its hands. *)
RunningOrLocking ==
  {a \in Actor : stage[a] = "running" \/ (a = Cleaner /\ stage[a] = "locking")}
Running == {a \in Actor : stage[a] = "running"}

(* Mutant: the time of the row is written back. *)
StampOld(t) == /\ at' = [at EXCEPT ![t] = last_activity[RoomOf[t]]]
               /\ begun' = [begun EXCEPT ![t] = clock]
Stamp(t) == /\ at' = [at EXCEPT ![t] = clock]
            /\ begun' = [begun EXCEPT ![t] = clock]

Begin(t, kind) ==
  /\ stage[t] = "idle"
  /\ op' = [op EXCEPT ![t] = kind]
  /\ Stamp(t)
  /\ Goto(t, "waiting")
  /\ UNCHANGED <<clock, hours, table, lock, cutoff>>

(* The id is a fresh UUID: it was never inserted, and nobody else has it. *)
CreateRoom(t) ==
  /\ RoomOf[t] \notin created
  /\ \A u \in Task : op[u] = "insert" => RoomOf[u] # RoomOf[t]
  /\ Begin(t, "insert")
ChatMessage(t) == RoomOf[t] \in created /\ Begin(t, "update")

Acquire(a) ==
  /\ stage[a] = "waiting" /\ Cardinality(Running) < Pool
  /\ Goto(a, "running")
  /\ UNCHANGED <<clock, hours, table, lock, op, at, begun, cutoff>>

Release(a) == lock' = IF lock = a THEN NoTask ELSE lock

Answer(t) ==
  /\ Goto(t, "idle") /\ Release(t)
  /\ op' = [op EXCEPT ![t] = "none"]
  /\ at' = [at EXCEPT ![t] = 0] /\ begun' = [begun EXCEPT ![t] = 0]
  /\ UNCHANGED <<clock, hours, cutoff>>

Store(t) ==
  /\ last_activity' = [last_activity EXCEPT ![RoomOf[t]] = at[t]]
  /\ touched' = [touched EXCEPT ![RoomOf[t]] = IF begun[t] > @ THEN begun[t] ELSE @]

(* A handler that its client abandoned may have inserted the row all the   *)
(* same; it is then like any other.                                        *)
Inserted(t) ==
  /\ stage[t] = "running" /\ op[t] = "insert" /\ RoomOf[t] \notin created
  /\ rows' = rows \cup {RoomOf[t]} /\ created' = created \cup {RoomOf[t]}
  /\ Store(t)
  /\ Answer(t)

(* Mutant: the statement creates the row it does not find. *)
Upserted(t) ==
  /\ stage[t] = "running" /\ op[t] = "update"
  /\ rows' = rows \cup {RoomOf[t]}
  /\ Store(t)
  /\ Answer(t)
  /\ UNCHANGED created

(* The pool times out, the database is busy, or the task is dropped. *)
CallFails(t) ==
  /\ stage[t] \in {"waiting", "running"}
  /\ Answer(t)
  /\ UNCHANGED table

(* UPDATE touches no row once the room is deleted. *)
Updated(t) ==
  /\ stage[t] = "running" /\ op[t] = "update"
  /\ IF RoomOf[t] \in rows
     THEN Store(t)
     ELSE UNCHANGED <<last_activity, touched>>
  /\ Answer(t)
  /\ UNCHANGED <<rows, created>>

-----------------------------------------------------------------------------
(* attach: the lock first, then room_exists *)

AttachBegins(t) ==
  /\ stage[t] = "idle"
  /\ Goto(t, "locking")
  /\ op' = [op EXCEPT ![t] = "attach"]
  /\ UNCHANGED <<clock, hours, table, lock, at, begun, cutoff>>

AttachLocks(t) ==
  /\ stage[t] = "locking" /\ lock = NoTask
  /\ lock' = t
  /\ begun' = [begun EXCEPT ![t] = clock]
  /\ Goto(t, "waiting")
  /\ UNCHANGED <<clock, hours, table, op, at, cutoff>>

AttachAnswered(t) ==
  /\ stage[t] = "running" /\ op[t] = "attach"
  /\ Answer(t)
  /\ UNCHANGED table

-----------------------------------------------------------------------------
(* The cleanup task *)

SweepBegins ==
  /\ stage[Cleaner] = "idle"
  /\ Goto(Cleaner, "locking")
  /\ UNCHANGED <<clock, hours, table, lock, op, at, begun, cutoff>>

(* The cutoff is computed before the connection is there. *)
SweepLocks ==
  /\ stage[Cleaner] = "locking" /\ lock = NoTask
  /\ lock' = Cleaner
  /\ cutoff' = Cutoff(clock)
  /\ Goto(Cleaner, "waiting")
  /\ UNCHANGED <<clock, hours, table, op, at, begun>>

InactiveAtCutoff == {r \in rows : last_activity[r] <= cutoff}              \* mutant
Inactive == {r \in rows : last_activity[r] < cutoff}

Swept ==
  /\ stage[Cleaner] = "running" /\ lock = Cleaner
  /\ rows' = rows \ Inactive
  /\ last_activity' = [r \in Id |-> IF r \in Inactive THEN 0 ELSE last_activity[r]]
  /\ touched' = [r \in Id |-> IF r \in Inactive THEN 0 ELSE touched[r]]
  /\ lock' = NoTask /\ Goto(Cleaner, "idle") /\ cutoff' = 0
  /\ UNCHANGED <<clock, hours, created, op, at, begun>>

SweepFails ==
  /\ stage[Cleaner] \in {"waiting", "running"}
  /\ Release(Cleaner) /\ Goto(Cleaner, "idle") /\ cutoff' = 0
  /\ UNCHANGED <<clock, hours, table, op, at, begun>>

-----------------------------------------------------------------------------
(* Time, and a restart *)

(* No call of a task is out for longer than Wait. *)
Tick ==
  /\ clock < MaxClock
  /\ \A t \in Task :
       stage[t] \in {"waiting", "running"} => clock < begun[t] + Wait
  /\ clock' = clock + 1
  /\ UNCHANGED <<hours, table, calls>>

Restart ==
  /\ lock' = NoTask /\ stage' = [a \in Actor |-> "idle"]
  /\ op' = [t \in Task |-> "none"] /\ cutoff' = 0
  /\ at' = [t \in Task |-> 0] /\ begun' = [t \in Task |-> 0]
  /\ UNCHANGED <<clock, hours, table>>

Call(t) ==
  \/ CreateRoom(t) \/ ChatMessage(t) \/ AttachBegins(t) \/ AttachLocks(t)
  \/ Inserted(t) \/ Updated(t) \/ AttachAnswered(t) \/ CallFails(t)
Cleanup == SweepBegins \/ SweepLocks \/ Swept \/ SweepFails

Next ==
  \/ \E t \in Task : Call(t)
  \/ \E a \in Actor : Acquire(a)
  \/ Cleanup \/ Tick \/ Restart

Spec == Init /\ [][Next]_vars

-----------------------------------------------------------------------------
(* Safety *)

(* Two calls can reach the row in the other order than they read the clock *)
(* in: last_activity then moves back, but never by more than a call waits. *)
BackBounded == \A r \in rows : touched[r] <= last_activity[r] + Wait

(* A room that somebody wrote in during the configured hours, less the     *)
(* time a call waits, is not deleted: neither when the cutoff is old by    *)
(* the time the DELETE runs, nor when timestamps are stored out of order,  *)
(* nor for hours that are more seconds than 63 bits hold unless they are.  *)
DeletedOnlyIdle ==
  \A r \in rows \ rows' :
    Representable => touched[r] + hours * HourSecs < clock + Wait
KeptWhileActive == [][DeletedOnlyIdle]_vars

-----------------------------------------------------------------------------
(* The abstract table this module implements *)

Stale(r) == last_activity[r] < clock - inactivity_expiry_secs

RowState(r) ==
  CASE r \notin created -> "absent"
    [] r \in created \ rows -> "deleted"
    [] r \in rows -> IF Stale(r) THEN "stale" ELSE "fresh"

Table == INSTANCE Lifetime WITH row <- [r \in Id |-> RowState(r)]

-----------------------------------------------------------------------------
(* Liveness *)

(* The pool and the lock serve their waiters in turn, the interval of the  *)
(* cleanup goes on ticking, and restarts and failures of the cleanup come  *)
(* to an end.  A call of a task may fail every time.                       *)
FairSpec ==
  /\ Spec /\ <>[][~Restart /\ ~SweepFails]_vars
  /\ \A a \in Actor : SF_vars(Acquire(a))
  /\ \A t \in Task : /\ WF_vars(AttachAnswered(t))
                     /\ WF_vars(Inserted(t) \/ Updated(t))
  /\ WF_vars(SweepBegins) /\ SF_vars(SweepLocks) /\ WF_vars(Swept)

(* attach and the cleanup keep the lock while they wait for a connection:  *)
(* nobody who has a connection waits for the lock, so it is released.      *)
LockReleased == \A a \in Actor : lock = a ~> lock # a

(* Whatever the clock, the pool and the order of the statements do, a      *)
(* reader of the table sees rooms age, be touched and be deleted while     *)
(* stale, and no deleted room again; and a row that stays stale is deleted *)
(* in the end, one whose creator never learnt its id included.             *)
ImplementsTable == Table!FairSpec
=============================================================================
