--------------------------- MODULE StartupProofs ---------------------------
(***************************************************************************)
(* The safety of a start, for any number of processes, rooms and faults.   *)
(*                                                                         *)
(* A transaction sees the table as committed until it writes (SeenInv),    *)
(* because no commit passes a reader; it commits only a table with the     *)
(* column; and once the column is there it stays (UpInv).                  *)
(***************************************************************************)
EXTENDS Startup, TLAPS

Reading == {"counting", "altering", "committing"}

LockInv == \A p \in Process : p \in readers <=> pc[p] \in Reading
SeenInv ==
  \A p \in readers :
    /\ writer # p => draft[p] = schema
    /\ pc[p] = "committing" => draft[p] = "current"
RowInv == \A r \in Room : row[r] \in Stored(schema)
UpInv  == \A p \in Process : pc[p] \in Up => schema = "current"
IInv   == TypeOK /\ LockInv /\ SeenInv /\ RowInv /\ UpInv /\ RoomsSurvive

LEMMA Beginning == Init => IInv
<1> SUFFICES ASSUME Init PROVE IInv
  OBVIOUS
<1> USE DEF Init
<1>1. RowInv /\ \A r \in Room : row[r] \in {"none", "bare", "open", "protected"}
  BY DEF RowInv, Stored, Tables
<1>2. TypeOK
  <2>1. \A r \in Room : fate[r] \in {"unborn", "open", "protected", "expired"}
    BY <1>1
  <2> QED
    BY <1>1, <2>1, FaultsAssumption DEF TypeOK, Places, Tables, Migrating, Up
<1>3. LockInv /\ SeenInv /\ UpInv
  BY DEF LockInv, SeenInv, UpInv, Reading, Up
<1>4. RoomsSurvive
  BY <1>1 DEF RoomsSurvive
<1> QED
  BY <1>1, <1>2, <1>3, <1>4 DEF IInv

(* Dying gives every lock back and changes nothing else of the database.   *)
LEMMA Death ==
  ASSUME IInv, NEW p \in Process, Dies(p), UNCHANGED <<env, table, draft>>,
         faults' \in 0..MaxFaults
  PROVE  IInv'
<1> USE DEF IInv, Dies, Goto, Release, env, table
<1>1. TypeOK'
  BY DEF TypeOK, Places
<1>2. LockInv'
  BY DEF LockInv, TypeOK, Reading
<1>3. SeenInv'
  BY DEF SeenInv, TypeOK
<1>4. RowInv' /\ UpInv' /\ RoomsSurvive'
  BY DEF RowInv, UpInv, RoomsSurvive, TypeOK, Up
<1> QED
  BY <1>1, <1>2, <1>3, <1>4

LEMMA Migrating1 ==
  ASSUME IInv, NEW p \in Process, CreateTable(p)
  PROVE  IInv'
<1> USE DEF IInv, CreateTable, Goto, env, table
<1>1. TypeOK'
  BY DEF TypeOK, Places, Tables, Migrating
<1>2. LockInv'
  BY DEF LockInv, TypeOK, Reading
<1>3. SeenInv'
  BY ProcessAssumption DEF SeenInv, TypeOK, LockInv, Reading
<1>4. RowInv' /\ UpInv' /\ RoomsSurvive'
  BY DEF RowInv, UpInv, RoomsSurvive, TypeOK, Up
<1> QED
  BY <1>1, <1>2, <1>3, <1>4

LEMMA Migrating2 ==
  ASSUME IInv, NEW p \in Process, Count(p) \/ AddColumn(p)
  PROVE  IInv'
<1> USE DEF IInv, Count, AddColumn, Alterable, Goto, env, table, locks
<1>1. TypeOK'
  BY DEF TypeOK, Places, Tables, Migrating, LockInv, Reading
<1>2. LockInv'
  BY DEF LockInv, TypeOK, Reading
<1>3. SeenInv'
  BY ProcessAssumption DEF SeenInv, TypeOK
<1>4. RowInv' /\ UpInv' /\ RoomsSurvive'
  BY DEF RowInv, UpInv, RoomsSurvive, TypeOK, Up
<1> QED
  BY <1>1, <1>2, <1>3, <1>4

LEMMA Committing ==
  ASSUME IInv, NEW p \in Process, Commit(p)
  PROVE  IInv'
<1> USE DEF IInv, Commit, Goto, Release, env
<1>1. p \in readers /\ draft[p] = "current"
  BY DEF LockInv, SeenInv, Reading
<1>2. schema' = "current"
  BY <1>1 DEF SeenInv
<1>3. \A r \in Room :
        /\ row'[r] \in {"none", "open", "protected"}
        /\ row'[r] = row[r] \/ (row[r] = "bare" /\ row'[r] = "open")
  <2>1. CASE writer = p
    BY <2>1 DEF Filled, TypeOK
  <2>2. CASE writer # p
    BY <1>1, <2>2 DEF RowInv, Stored, SeenInv
  <2> QED
    BY <2>1, <2>2
<1>4. TypeOK'
  <2>1. row' \in [Room -> {"none", "bare", "open", "protected"}]
    BY DEF TypeOK, Filled
  <2> QED
    BY <1>2, <2>1 DEF TypeOK, Places, Tables, Up
<1>5. LockInv'
  BY DEF LockInv, TypeOK, Reading
<1>6. SeenInv'
  BY <1>1, <1>2 DEF SeenInv, TypeOK
<1>7. RowInv' /\ UpInv'
  BY <1>2, <1>3 DEF RowInv, UpInv, Stored
<1>8. RoomsSurvive'
  BY <1>3 DEF RoomsSurvive
<1> QED
  BY <1>4, <1>5, <1>6, <1>7, <1>8

(* What a process that serves does to the rows. *)
LEMMA Serving ==
  ASSUME IInv, NEW p \in Process, NEW r \in Room, CreateRoom(p, r) \/ Sweep(p, r)
  PROVE  IInv'
<1> USE DEF IInv, CreateRoom, Sweep, env, locks
<1>1. schema = "current"
  BY DEF UpInv, Up
<1>2. TypeOK'
  BY DEF TypeOK
<1>3. LockInv' /\ SeenInv' /\ UpInv'
  BY DEF LockInv, SeenInv, UpInv
<1>4. RowInv'
  BY <1>1 DEF RowInv, Stored, TypeOK
<1>5. RoomsSurvive'
  BY DEF RoomsSurvive, TypeOK
<1> QED
  BY <1>2, <1>3, <1>4, <1>5

LEMMA Step == IInv /\ [Next]_vars => IInv'
<1> SUFFICES ASSUME IInv, [Next]_vars PROVE IInv'
  OBVIOUS
<1>1. CASE UNCHANGED vars
  BY <1>1 DEF vars, env, table, locks, IInv, TypeOK, LockInv, SeenInv, RowInv, UpInv,
              RoomsSurvive
<1>2. ASSUME NEW p \in Process, Main(p) PROVE IInv'
  <2> USE DEF IInv
  <2>1. CASE Configured(p) /\ ~Valid
    BY <2>1, Death DEF Configured, TypeOK
  <2>2. CASE (Configured(p) /\ Valid) \/ Begin(p) \/ Restart(p)
    <3> USE DEF Configured, Begin, Restart, Goto, env, table, locks
    <3>1. TypeOK'
      BY <2>2 DEF TypeOK, Places, Migrating
    <3>2. LockInv' /\ SeenInv'
      BY <2>2 DEF LockInv, SeenInv, TypeOK, Reading
    <3>3. RowInv' /\ UpInv' /\ RoomsSurvive'
      BY <2>2 DEF RowInv, UpInv, RoomsSurvive, TypeOK, Up
    <3> QED
      BY <3>1, <3>2, <3>3
  <2>3. CASE CreateTable(p)
    BY <2>3, Migrating1
  <2>4. CASE Count(p) \/ AddColumn(p)
    BY <2>4, Migrating2
  <2>5. CASE AddColumnFails(p)
    BY <2>5, Death DEF AddColumnFails, TypeOK
  <2>6. CASE Commit(p)
    BY <2>6, Committing
  <2>7. CASE Bind(p) /\ port # None
    BY <2>7, Death DEF Bind, TypeOK
  <2>8. CASE Bind(p) /\ port = None
    <3> USE DEF Bind, Goto, env, table, locks
    <3>1. TypeOK'
      BY <2>8 DEF TypeOK, Places, Up
    <3>2. LockInv' /\ SeenInv'
      BY <2>8 DEF LockInv, SeenInv, TypeOK, Reading
    <3>3. RowInv' /\ UpInv' /\ RoomsSurvive'
      BY <2>8 DEF RowInv, UpInv, RoomsSurvive, TypeOK, Up
    <3> QED
      BY <3>1, <3>2, <3>3
  <2> QED
    BY <1>2, <2>1, <2>2, <2>3, <2>4, <2>5, <2>6, <2>7, <2>8 DEF Main
<1>3. ASSUME NEW p \in Process, Crash(p) PROVE IInv'
  <2>1. faults' \in 0..MaxFaults
    BY <1>3, FaultsAssumption DEF Crash, IInv, TypeOK
  <2> QED
    BY <1>3, <2>1, Death DEF Crash
<1>4. ASSUME NEW p \in Process, NEW r \in Room, CreateRoom(p, r) \/ Sweep(p, r)
      PROVE  IInv'
  BY <1>4, Serving
<1> QED
  BY <1>1, <1>2, <1>3, <1>4 DEF Next

LEMMA Invariant == Spec => []IInv
  BY Beginning, Step, PTL DEF Spec

(* Every variable keeps its type, and the writer is one of the readers.    *)
THEOREM StartupTyped == Spec => []TypeOK
  BY Invariant, PTL DEF IInv

(* No room is lost, opened or closed by migrations that are cut off,       *)
(* repeated or run by two processes at once (run_migrations).              *)
THEOREM RoomsOutliveMigrations == Spec => []RoomsSurvive
  BY Invariant, PTL DEF IInv

(* Nobody gets past init_pool before the column is committed.              *)
THEOREM NobodyServesTooEarly == Spec => []ServesMigrated
<1>1. IInv => ServesMigrated
  BY DEF IInv, UpInv, RowInv, ServesMigrated, Stored
<1> QED
  BY <1>1, Invariant, PTL

(* What a migration may have to wait for: the creation of the table for    *)
(* another writer, the commit of a writer for the other readers.           *)
MustWait(p) ==
  \/ pc[p] = "creating" /\ schema = "none" /\ writer # None
  \/ pc[p] = "committing" /\ writer = p /\ readers # {p}

(* The safety core of ComesUp: where a statement has to wait (that of a    *)
(* migration, or CreateRoom and Sweep, for a table nobody reads) there is  *)
(* a migration that holds a lock and need not.  No two processes migrate   *)
(* each other to a standstill (run_migrations).                            *)
MigrationsGoOn ==
  (\E p \in Process : MustWait(p)) \/ readers # {} =>
    \E q \in readers : pc[q] \in Migrating /\ ~MustWait(q)

THEOREM NoStandstill == Spec => []MigrationsGoOn
<1>1. ASSUME IInv PROVE MigrationsGoOn
  <2>1. \A q \in readers : q \in Process /\ pc[q] \in Reading
    BY <1>1 DEF IInv, TypeOK, LockInv
  <2>2. ASSUME NEW p \in readers, ~MustWait(p) PROVE MigrationsGoOn
    BY <2>1, <2>2 DEF MigrationsGoOn, Reading, Migrating
  <2>3. ASSUME NEW p \in readers, MustWait(p) PROVE MigrationsGoOn
    <3>1. writer = p /\ readers # {p}
      BY <2>1, <2>3 DEF MustWait, Reading
    <3>2. PICK q \in readers : q # p
      BY <3>1
    <3>3. ~MustWait(q)
      BY <2>1, <3>1, <3>2 DEF MustWait, Reading
    <3> QED
      BY <2>2, <3>3
  <2>4. ASSUME NEW p \in Process, MustWait(p) PROVE readers # {}
    BY <1>1, <2>4, ProcessAssumption DEF MustWait, IInv, TypeOK, LockInv, Reading
  <2>5. CASE readers = {}
    BY <2>4, <2>5 DEF MigrationsGoOn
  <2> QED
    BY <2>2, <2>3, <2>5
<1> QED
  BY <1>1, Invariant, PTL

-----------------------------------------------------------------------------
(* Migrations that find their work done *)

(* Who writes, or is about to, writes what the table lacks.                *)
WriterInv ==
  /\ schema = "current" => writer = None
  /\ \A p \in Process : pc[p] = "altering" => p \in readers /\ draft[p] # "current"

LEMMA BeginningWriter == Init => WriterInv
BY DEF Init, WriterInv

LEMMA StepWriter ==
  ASSUME IInv, WriterInv, [Next]_vars
  PROVE  WriterInv'
<1> USE ProcessAssumption DEF IInv, TypeOK, WriterInv, env, table, locks, Goto, Release
<1>1. CASE UNCHANGED vars
  BY <1>1 DEF vars
<1>2. ASSUME NEW p \in Process, Dies(p), UNCHANGED <<schema, draft>>
      PROVE  WriterInv'
  BY <1>2 DEF Dies
<1>3. ASSUME NEW p \in Process, Configured(p) \/ AddColumnFails(p) \/ Bind(p) \/ Crash(p)
      PROVE  WriterInv'
  <2>1. CASE Dies(p)
    BY <1>2, <1>3, <2>1 DEF Configured, AddColumnFails, Bind, Crash
  <2>2. CASE ~Dies(p)
    BY <1>3, <2>2 DEF Configured, AddColumnFails, Bind, Crash
  <2> QED
    BY <2>1, <2>2
<1>4. ASSUME NEW p \in Process, Begin(p) \/ Restart(p) PROVE WriterInv'
  BY <1>4 DEF Begin, Restart
<1>5. ASSUME NEW p \in Process, CreateTable(p) PROVE WriterInv'
  BY <1>5 DEF CreateTable
<1>6. ASSUME NEW p \in Process, Count(p) PROVE WriterInv'
  BY <1>6 DEF Count, LockInv, Reading
<1>7. ASSUME NEW p \in Process, AddColumn(p) PROVE WriterInv'
  BY <1>7 DEF AddColumn, Alterable, SeenInv
<1>8. ASSUME NEW p \in Process, Commit(p) PROVE WriterInv'
  BY <1>8 DEF Commit
<1>9. ASSUME NEW p \in Process, NEW r \in Room, CreateRoom(p, r) \/ Sweep(p, r)
      PROVE  WriterInv'
  BY <1>9 DEF CreateRoom, Sweep
<1> QED
  BY <1>1, <1>3, <1>4, <1>5, <1>6, <1>7, <1>8, <1>9 DEF Next, Main

LEMMA WriterInvariant == Spec => [](IInv /\ WriterInv)
<1>1. Init => IInv /\ WriterInv
  BY Beginning, BeginningWriter
<1>2. IInv /\ WriterInv /\ [Next]_vars => (IInv /\ WriterInv)'
  BY Step, StepWriter
<1> QED
  BY <1>1, <1>2, PTL DEF Spec

(* Once the column is committed, a migration only reads: nobody holds the  *)
(* write lock across statements, and nobody adds the column again, so that *)
(* no later start can meet SQLITE_BUSY or a duplicate column               *)
(* (run_migrations runs at every start).                                   *)
OnlyReads ==
  schema = "current" => writer = None /\ \A p \in Process : pc[p] # "altering"

THEOREM LaterMigrationsOnlyRead == Spec => []OnlyReads
<1>1. IInv /\ WriterInv => OnlyReads
  <2> SUFFICES ASSUME IInv, WriterInv, schema = "current", NEW p \in Process,
                      pc[p] = "altering"
               PROVE  FALSE
    BY DEF WriterInv, OnlyReads
  <2>1. p \in readers /\ draft[p] # "current" /\ writer = None
    BY DEF WriterInv
  <2> QED
    BY <2>1, ProcessAssumption DEF IInv, SeenInv
<1> QED
  BY <1>1, WriterInvariant, PTL

(* The table changes its form once, by the commit of the process that      *)
(* wrote it, and never back; the rows are changed by that commit, and by   *)
(* processes past their migration, but by no other step of a start.        *)
MigratesOnce ==
  /\ schema' # schema => /\ schema' = "current"
                         /\ \E p \in Process : Commit(p) /\ writer = p
  /\ row' # row => \/ schema # "current" /\ schema' = "current"
                   \/ \E p \in Process, r \in Room : CreateRoom(p, r) \/ Sweep(p, r)

THEOREM OneMigration == Spec => [][MigratesOnce]_vars
<1>1. ASSUME IInv, WriterInv, [Next]_vars PROVE MigratesOnce
  <2> USE DEF MigratesOnce
  <2>1. ASSUME NEW p \in Process, Commit(p) PROVE MigratesOnce
    <3>1. CASE writer = p
      <4>1. p \in readers /\ draft[p] = "current"
        BY <1>1, <2>1 DEF Commit, IInv, LockInv, SeenInv, Reading
      <4>2. schema' = "current" /\ schema # "current"
        BY <1>1, <2>1, <3>1, <4>1, ProcessAssumption DEF Commit, WriterInv
      <4> QED
        BY <2>1, <3>1, <4>2
    <3>2. CASE writer # p
      BY <2>1, <3>2 DEF Commit
    <3> QED
      BY <3>1, <3>2
  <2>2. ASSUME NEW p \in Process, Main(p) \/ Crash(p), ~Commit(p)
        PROVE  UNCHANGED <<schema, row>>
    BY <2>2 DEF Main, Crash, Configured, Begin, CreateTable, Count, AddColumn,
                AddColumnFails, Bind, Restart, table
  <2>3. ASSUME NEW p \in Process, NEW r \in Room, CreateRoom(p, r) \/ Sweep(p, r)
        PROVE  MigratesOnce
    BY <2>3 DEF CreateRoom, Sweep
  <2>4. CASE UNCHANGED vars
    BY <2>4 DEF vars, table
  <2> QED
    BY <1>1, <2>1, <2>2, <2>3, <2>4 DEF Next
<1> QED
  BY <1>1, WriterInvariant, PTL DEF Spec
=============================================================================
