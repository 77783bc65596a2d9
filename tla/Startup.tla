------------------------------ MODULE Startup ------------------------------
(***************************************************************************)
(* From the start of the process to its first request: main                *)
(* (src/src/main.rs), Config::from_env (src/src/config.rs), init_pool and  *)
(* run_migrations (src/src/db.rs).  The migration is a deferred            *)
(* transaction of SQLite, cut off wherever the process dies and run again  *)
(* at every start; systemd starts a process that died again, and a second  *)
(* process may be started by hand on the same file and the same port.      *)
(*                                                                         *)
(* SQLite's locks are those of a rollback journal: readers share the file, *)
(* one transaction at a time may write, and its commit waits for the       *)
(* readers to leave.                                                       *)
(***************************************************************************)
EXTENDS Naturals, FiniteSets

CONSTANTS
  Process,        \* processes started on one database and one port
  Room,           \* ids of rooms
  Garbling,       \* the sets of settings that may hold what does not parse
  MaxFaults,      \* bound on crashes and timeouts
  None

ASSUME ProcessAssumption == IsFiniteSet(Process) /\ None \notin Process
ASSUME FaultsAssumption  == MaxFaults \in Nat

VARIABLES
  garbled,        \* the settings that hold what does not parse
  minutes,        \* what CLEANUP_INTERVAL_MINS says where it parses
  pc,             \* where each process is
  schema,         \* the table `rooms` as committed
  row,            \* its rows; a "bare" one has no column password_hash
  draft,          \* the table as the transaction of a process sees it
  readers,        \* processes whose transaction has read
  writer,         \* the process whose transaction has written
  port,           \* the process that listens
  fate,           \* what became of each room (history)
  faults

locks == <<readers, writer>>
table == <<schema, row, fate>>
env   == <<garbled, minutes>>
vars  == <<env, pc, table, draft, locks, port, faults>>

Migrating == {"creating", "counting", "altering", "committing"}
Up        == {"migrated", "serving"}
Places    == {"starting", "opening", "failed"} \cup Migrating \cup Up
Tables    == {"none", "legacy", "current"}

TypeOK ==
  /\ garbled \in Garbling /\ minutes \in {0, 5}
  /\ pc \in [Process -> Places]
  /\ schema \in Tables /\ row \in [Room -> {"none", "bare", "open", "protected"}]
  /\ draft \in [Process -> Tables]
  /\ readers \in SUBSET Process /\ writer \in Process \cup {None}
  /\ writer # None => writer \in readers
  /\ port \in Process \cup {None}
  /\ fate \in [Room -> {"unborn", "open", "protected", "expired"}]
  /\ faults \in 0..MaxFaults

(* A database of no version, of the one before passwords, or of this one.  *)
Stored(t) == CASE t = "none"    -> {"none"}
               [] t = "legacy"  -> {"none", "bare"}
               [] t = "current" -> {"none", "open", "protected"}
Init ==
  /\ garbled \in Garbling /\ minutes \in {0, 5}
  /\ pc = [p \in Process |-> "starting"]
  /\ schema \in Tables /\ row \in [Room -> Stored(schema)]
  /\ draft = [p \in Process |-> "none"]
  /\ readers = {} /\ writer = None /\ port = None
  /\ fate = [r \in Room |-> CASE row[r] = "none" -> "unborn"
                              [] row[r] = "bare" -> "open"
                              [] OTHER -> row[r]]
  /\ faults = 0

Goto(p, place) == pc' = [pc EXCEPT ![p] = place]
ReleaseShared(p) == readers' = readers \ {p} /\ UNCHANGED writer        \* mutant
Release(p) == /\ readers' = readers \ {p}
              /\ writer' = IF writer = p THEN None ELSE writer
(* A panic, an error that main expects not to happen, or a kill.           *)
Dies(p) == /\ Goto(p, "failed")
           /\ Release(p)
           /\ port' = IF port = p THEN None ELSE port

-----------------------------------------------------------------------------
(* Config::from_env *)

(* What does not parse is refused by an assert or an expect; a number that *)
(* does not parse gives way to its default.                                *)
Valid == garbled \cap {"ALLOWED_ORIGINS", "BIND_ADDRESS", "TRUSTED_PROXY_IPS"} = {}
IntervalOrZero == IF "CLEANUP_INTERVAL_MINS" \in garbled THEN 0 ELSE minutes \* mutant
Interval == IF "CLEANUP_INTERVAL_MINS" \in garbled THEN 5 ELSE minutes

Configured(p) ==
  /\ pc[p] = "starting"
  /\ IF Valid THEN Goto(p, "opening") /\ UNCHANGED <<locks, port>> ELSE Dies(p)
  /\ UNCHANGED <<env, table, draft, faults>>

-----------------------------------------------------------------------------
(* run_migrations *)

Begin(p) ==
  /\ pc[p] = "opening"
  /\ Goto(p, "creating")
  /\ UNCHANGED <<env, table, draft, locks, port, faults>>

(* CREATE TABLE IF NOT EXISTS: it only reads where the table exists, and   *)
(* waits for another writer where it does not.                             *)
CreateTable(p) ==
  /\ pc[p] = "creating"
  /\ readers' = readers \cup {p}
  /\ IF schema = "none"
     THEN writer = None /\ writer' = p /\ draft' = [draft EXCEPT ![p] = "legacy"]
     ELSE UNCHANGED writer /\ draft' = [draft EXCEPT ![p] = schema]
  /\ Goto(p, "counting")
  /\ UNCHANGED <<env, table, port, faults>>

(* Mutant: the column is added without asking whether it is there. *)
CountNothing(p) ==
  /\ pc[p] = "counting"
  /\ Goto(p, "altering")
  /\ UNCHANGED <<env, table, draft, locks, port, faults>>
(* pragma_table_info: is the column there? *)
Count(p) ==
  /\ pc[p] = "counting"
  /\ Goto(p, IF draft[p] = "current" THEN "committing" ELSE "altering")
  /\ UNCHANGED <<env, table, draft, locks, port, faults>>

Alterable(p) == writer \in {None, p} /\ draft[p] # "current"
AddColumn(p) ==
  /\ pc[p] = "altering" /\ Alterable(p)
  /\ writer' = p
  /\ draft' = [draft EXCEPT ![p] = "current"]
  /\ Goto(p, "committing")
  /\ UNCHANGED <<env, table, readers, port, faults>>
(* A reader that wants to write while another one writes is told           *)
(* SQLITE_BUSY at once; a column cannot be added twice.                    *)
AddColumnFails(p) ==
  /\ pc[p] = "altering" /\ ~Alterable(p)
  /\ Dies(p)
  /\ UNCHANGED <<env, table, draft, faults>>

FilledEmpty(rows) ==     \* mutant: the new column is '' and not NULL
  [r \in Room |-> IF rows[r] = "bare" THEN "protected" ELSE rows[r]]
(* The rows that are there read NULL in the new column. *)
Filled(rows) == [r \in Room |-> IF rows[r] = "bare" THEN "open" ELSE rows[r]]

(* Mutant: the transaction is dropped, which rolls it back. *)
NoCommit(p) ==
  /\ pc[p] = "committing"
  /\ Release(p)
  /\ Goto(p, "migrated")
  /\ UNCHANGED <<env, table, draft, port, faults>>
Commit(p) ==
  /\ pc[p] = "committing"
  /\ IF writer = p
     THEN readers = {p} /\ schema' = draft[p] /\ row' = Filled(row)
     ELSE UNCHANGED <<schema, row>>
  /\ Release(p)
  /\ Goto(p, "migrated")
  /\ UNCHANGED <<env, fate, draft, port, faults>>

-----------------------------------------------------------------------------
(* The rest of main *)

Bind(p) ==
  /\ pc[p] = "migrated"
  /\ IF port = None THEN port' = p /\ Goto(p, "serving") /\ UNCHANGED locks
                    ELSE Dies(p)
  /\ UNCHANGED <<env, table, draft, faults>>

(* No migration is under way: a statement of its own can commit. *)
Unlocked == readers = {}

CreateRoom(p, r) ==
  /\ pc[p] = "serving" /\ Unlocked
  /\ fate[r] = "unborn"
  /\ \E kind \in {"open", "protected"} :
       /\ row'  = [row EXCEPT ![r] = kind]
       /\ fate' = [fate EXCEPT ![r] = kind]
  /\ UNCHANGED <<env, pc, schema, draft, locks, port, faults>>

(* The cleanup task runs from before bind.  An interval of zero panics,    *)
(* and takes the task with it, not the process.                            *)
Sweep(p, r) ==
  /\ pc[p] \in Up /\ Unlocked /\ Interval # 0
  /\ row[r] # "none"
  /\ row'  = [row EXCEPT ![r] = "none"]
  /\ fate' = [fate EXCEPT ![r] = "expired"]
  /\ UNCHANGED <<env, pc, schema, draft, locks, port, faults>>

(* A crash, a database that cannot be opened, a wait of SQLite over its    *)
(* five seconds.                                                           *)
Crash(p) ==
  /\ pc[p] # "failed" /\ faults < MaxFaults
  /\ faults' = faults + 1
  /\ Dies(p)
  /\ UNCHANGED <<env, table, draft>>

(* Restart=on-failure, RestartSec=5. *)
Restart(p) ==
  /\ pc[p] = "failed"
  /\ Goto(p, "starting")
  /\ UNCHANGED <<env, table, draft, locks, port, faults>>

Main(p) ==
  \/ Configured(p) \/ Begin(p) \/ CreateTable(p) \/ Count(p)
  \/ AddColumn(p) \/ AddColumnFails(p) \/ Commit(p) \/ Bind(p) \/ Restart(p)
Next ==
  \E p \in Process : \/ Main(p) \/ Crash(p)
                     \/ \E r \in Room : CreateRoom(p, r) \/ Sweep(p, r)

Spec == Init /\ [][Next]_vars

-----------------------------------------------------------------------------
(* Properties *)

(* Wherever a migration is cut off, and whoever runs another one at the    *)
(* same time: a room that has not expired is in the table, and is open or  *)
(* protected as it was created.                                            *)
RoomsSurvive ==
  \A r \in Room :
    fate[r] \in {"open", "protected"} =>
      row[r] = fate[r] \/ (row[r] = "bare" /\ fate[r] = "open")

(* A process past init_pool finds the column it asks every room for, in    *)
(* the table as committed and in all its rows.                             *)
ServesMigrated ==
  (\E p \in Process : pc[p] \in Up) =>
    schema = "current" /\ \A r \in Room : row[r] # "bare"

(* A process that is there goes on, and the lock of a commit that waits    *)
(* (PENDING) keeps new readers out.  The cleanup asks again and again.     *)
FairSpec ==
  /\ Spec
  /\ \A p \in Process :
       /\ WF_vars(Main(p)) /\ SF_vars(Commit(p))
       /\ \A r \in Room : SF_vars(Sweep(p, r))

(* However often it was killed while it migrated, and with a rival that    *)
(* does the same: once the faults are over somebody serves, for good.      *)
ComesUp == Valid => <>[](port # None)

(* Rows written by any version go in the end, unless the interval asked    *)
(* for is zero: a number that does not parse is no reason to keep them.    *)
CleansUp ==
  Valid /\ (minutes # 0 \/ "CLEANUP_INTERVAL_MINS" \in garbled) =>
    \A r \in Room : []<>(row[r] = "none")
=============================================================================
