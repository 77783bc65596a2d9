# Verification of parrhesia-backend

parrhesia-backend is a relay for end-to-end encrypted chat rooms: an axum server
that creates rooms (`POST /api/rooms`), tells whether one exists
(`GET /api/rooms/{id}`) and carries the chat over WebSockets (`/ws/{id}`).
Rooms may have a password. What they are is in SQLite; who is in them is in
memory only.

This directory holds TLA+ models of that program, the TLC runs that check them,
and theorems about them checked by TLAPS. `PROJECT.json` lists the runs, the
theorems, the hazards, and for each definition the lines of code it stands for;
this file says how it all fits together. Paths below are relative to the
repository.

## 1. The system

| part | state | operations |
|---|---|---|
| Room registry, `src/state.rs` | `RoomMap`: room id to `Room {tx, creator_id, participants}`, behind one `tokio::sync::RwLock` | `attach`, `join`, `detach`, `expire_inactive_rooms` |
| Chat session, `handle_socket` in `src/routes/ws.rs` | its place in the protocol, broadcast receiver, ping timer, rate limiter | handshake, join, announcement of peers, relay loop, exit |
| Broadcast channel (tokio) | a ring and one cursor per receiver | `send`, `recv`, overrun |
| Cleanup, `src/cleanup.rs` | none | two loops: expire rooms, sweep budgets |
| Room table, `src/db.rs` | rows `(id, created_at, last_activity, password_hash)` | insert, look up, refresh, delete the inactive, migrate |
| Request budgets, `src/admission.rs` | a bounded map of token buckets behind a mutex | `check`, `maintain` |
| Pending guards, `src/admission.rs` | a count per address, a total, behind the same mutex | `pending`, drop of `PendingAuth` |
| Admission and password gate, `ws_handler` and `authenticate` | its place, a guard | look up, upgrade, challenge, verify, fail |
| Password service, `src/passwords.rs` | a semaphore of two permits | `hash`, `verify` |
| Room routes, `src/routes/rooms.rs` | none | `create_room`, `get_room` |
| Startup, `src/main.rs`, `src/config.rs`, `run_migrations` | the schema; the settings | read settings, migrate, spawn the cleanup, bind |
| Client address, security headers, CORS, routes, frame formats | none | |

How they interact:

- A WebSocket request spends a connection budget, looks its room up, takes a
  pending guard if the room has a password, upgrades, and (with a password) goes
  through `authenticate`, which spends the room's budget and a permit of the
  password service. Then it *attaches* (the map entry is made, the first
  connection is noted as the creator), does the key handshake, *joins* (it becomes
  a participant and subscribes), and relays until it ends and *detaches*.
- Sessions talk only through the room's broadcast channel. Membership events are
  sent under the map lock, chat and tree frames without it.
- The cleanup task takes the map lock, deletes inactive rows, removes their
  entries and sends `room_expired` through the channels it drops.
- Every session is a tokio task; `select!` and timeouts may cancel what a task
  waits for, a closed HTTP connection drops its handler, but a blocking password
  job runs to its end. The process may die at any time, and systemd restarts it.

### What is hard, and which property is about it

The full list, at the line where each bites, is `hazards` in `PROJECT.json`.

| hazard | properties |
|---|---|
| the lock is held across a database call in `attach` and in the cleanup, and released anywhere else | `NeverResurrected`, `ExpiryReachesAll` |
| snapshot, subscription and `peer_joined` must be one step for everybody else; chat is sent without the lock | `ImplementsMembership`, `ViewConverges`, `SendersKnown` |
| the snapshot is written after the lock is given back, while peers in it leave | `ImplementsMembership` |
| a receiver that is overrun loses membership events | `ViewConverges`, `SlowReaderLeaves`, `ImplementsMembership` |
| many exits from a session, one `detach` | `NoGhosts`, `NeverOverfull` |
| the creator is chosen by `attach` and reset by `detach` | `CreatorStable`; `OneCreator` and `FirstJoinerIsCreator` do not hold |
| an inactive room must go, and its sessions with it, also one nobody knows the id of | `ImplementsTable`, `DeletedRoomEmpties` |
| the clock is read before the statement that uses it runs: timestamps and cutoffs arrive late and out of order | `BackBounded`, `KeptWhileActive` |
| the map lock is kept while its holder waits for a connection | `LockReleased` |
| the pong deadline is looked at only at ticks, and ticks come in bursts when an arm was long | `AnsweringClientKept`, `SilenceBounded` |
| frames over the rate are dropped silently, group operations too | `DroppedOnlyOverRate`, `RateBounded`, `ImplementsBucket` |
| the migration is cut off, repeated, and run by two processes | `RoomsSurvive`, `ServesMigrated`, `ComesUp` |
| an interval that is zero ends the cleanup, not the server | `CleansUp` |
| passwords change length under NFC; blocklist and stored parameters may be other ones by the time of a check | `RightFailsForCause`, `OnlyTheSame` |
| lookup, upgrade and verdict are apart | `GateHolds`, `ImplementsAccess` |
| the clock is read before the mutex; buckets are evicted and come back full | `BudgetHeld`, `RetryHonest`, `TypeOK` |
| guards cross an upgrade, a timeout, a `select!` and a last write | `PendingConserved`, `AuthBounded`, `GuardsReturn` |
| jobs outlive the requests that started them | `PermitsConserved`, `PermitsReturn`, `GateHolds` |
| hashing may fail or be abandoned when a room is created | `ImplementsAccess` |

## 2. The modules

### Room

One room: its row (`exists`, `stale`), its map entry (`inMap`, `creator_id`,
`participants`), the lock, and one session per connection id. Connection ids are
fresh UUIDs, so each is used once; rooms share only the lock, and what other
rooms do with it is a delay that no property depends on. `Table` maps the row to
`Lifetime`, and `Members` the rest to `Membership`.

- A step is what a task does between two awaits. `attach` is three steps
  (`AttachLock`, then `AttachFound` or `AttachRefused`, then `AttachInsert`)
  because it awaits the database with the lock in hand; so is the cleanup
  (`CleanupLock`, `CleanupDelete` or `CleanupNothing`, `CleanupRemove`). `join` and
  `detach` await nothing under the lock and are one step.
- `pc[c]` says where a session is. In the places of `Writing` it waits for its
  socket; a write ends well, ends the session, or never ends.
- `queue[c]` and `lagged[c]` are the session's broadcast receiver. tokio keeps one
  ring and a cursor per receiver; what a receiver can still read is a queue of its
  own, and since the session leaves at the first `Lagged`, what an overrun
  receiver could still have read does not matter.
- `view[c]` is what the frames sent to a client say of the room; `told[c]` is the
  creator its welcome frame named.
- Two awaits of the relay loop matter to others: `update_activity` comes before
  `tx.send`, and each write.

### Membership

What a room promises those who read in it, without lock, channel, sockets or
frames: seven actions on the members, the readers, and three sets for each reader, namely
whom it has yet to be introduced to (`coming`), whom it has been introduced to (`known`),
and of whom it has yet to hear that they left (`going`). Each member is
introduced once to each reader, is dismissed once and only after that, and a reader
who would miss something is cut off. Room implements it with these:

| Membership | Room |
|---|---|
| `members` | `participants` |
| `readers` | sessions with a receiver that has not been overrun |
| `coming[c]` | the rest of c's snapshot, and each `peer_joined` in its queue |
| `known[c]` | `view[c]`, what the frames sent to it add up to |
| `going[c]` | each `peer_left` in its queue |
| `expired` | row and entry are gone |

An attach, a handshake, a chat frame, a ping are nothing to Membership; `PeerKeySent`
and a `Recv` of `peer_joined` are both `Introduce`; an overrun is part of the `Join`
or `Leave` that causes it, or a `GiveUp`; every exit from a session is a `GiveUp`, its
`detach` a `Leave`.

### Admission

The token buckets. Time is in seconds and tokens in units of 1/`Period` of a
token, so the arithmetic of `check_at` is exact; f64 rounding is left out.
A call is two steps, because the clock is read before the mutex is taken: any
number of other calls, and any time, may pass between them. `promise` and `audit` are
history variables: what a client was last promised, and what one budget has
admitted since an arbitrary moment (`OpenWindow`).

### Gate

The requests up to `attach`: creations and sockets, the room rows they make and
look up, the guards, the permits and the jobs. A budget check may go either way.
A room is named after the request that creates it; a socket may ask for it at any
time, before it exists or after it has expired. `hash[r]` is what the INSERT is
given and `wants[r]` what the client asked for: `ImplementsAccess` needs them to agree.
`job[q]` runs apart from the request: `SecondFrame`, `Deadline` and
`CreateAbandoned` leave it running, and its permit comes back in `JobEnds`.

`Access` is what all of it amounts to, in five variables: a room becomes what its
creator asked for and stays that, and a socket enters only a room that is open, or
after having shown the password. Gate implements it with the row and a socket's
place as `kind` and `inside`.

### Activity and Lifetime

Activity has the timestamps that Room abstracts to the flag `stale`. Each call reads
the clock in one step (`Begin`, `SweepLocks`), waits for one of `Pool` connections
(`Acquire`), and runs its statement in a later step, or fails at any point. `attach` and
the cleanup take the map lock before they wait. What a call may wait (`Wait`) is the acquire
timeout of the pool plus SQLite's busy timeout; it bounds the calls of tasks only, for
the cleanup is allowed to wait as long as it likes. Whole seconds, and 64 bits of them:
`Signed` is what a release build does with `hours * 3600` and with the subtraction
(a debug build panics instead). `touched` and `begun` are history variables.

`Lifetime` is the table as a reader sees it: absent, fresh, stale, deleted. Activity
implements it with the timestamps; Room with `exists` and `stale`. So what Room takes
for granted of a row is what Activity shows of the code.

### Heartbeat

The tick arm of the relay loop and the arm of a received pong, against one client.
The other arms only take time (`OtherArm`, `ArmDone`), and nothing bounds it, as nothing in the code
bounds their writes or `update_activity`; the write of the ping may take any time, too. Only while
the loop waits in `select!` is time held up by an arm that is ready. The interval keeps to
its schedule, so ticks that were missed come at once (`Scheduled`). A client answers the last
ping within `Answer`, sends pongs nobody asked for, or falls silent for good at any time.

### Inbound and Bucket

The third arm: `RateLimiter::check` and what is done with a text frame it lets through.
Time is counted in the time a token takes to accrue, divided by `Cost`, so refilling is
exact. `accepted[s]` counts what was let through since time s, for every s. `Bucket`
is the bucket one would draw, which fills all the time; Inbound, which refills when a frame
comes, implements it with `Refilled` as its level.

### Startup

`main` from the settings to `serve`, for several processes on one file and one port,
since systemd restarts what died and nothing forbids a second one. The migration is a
deferred transaction: it reads (`readers`), then writes if nobody else does
(`writer`), works on a `draft`, and shows it at `Commit`. Rows are `"bare"` before the column
`password_hash` is there. `fate` is a history variable: what each room is supposed to
be.

### Passwords

Texts are model values with a normal form, a length in bytes and one in characters; the
module has the limits in their order, the blocklist and the pinned Argon2 parameters of
`hash` and `verify`. `Upgraded` starts a program with another blocklist. `Damaged` is a
stored hash that does not parse or has other parameters or lengths (`pinned`), or one that
parses and is the hash of no text (`of`). `Verified` is a verification whose verdict is
waited for; `CutOff` is one that a second frame, a disconnect or the handshake timeout ends
first, which the client is told as `auth_failed` whatever its password is.

### MC modules

The MC modules add the constants and symmetry sets of the runs, and nothing else. Definitions with the comment "mutant" in the component
modules are plausible bugs; nothing uses them. `PROJECT.json` pairs each with the
property that finds it.

## 3. The runs

| run | instance | shows |
|---|---|---|
| `room` | 3 sessions, 2 places, queue of 2, chat and targeted frames | type, membership, capacity, expiry, views, senders, stability of the creator, and that Room implements `Membership` |
| `room_live` | 2 sessions, 2 places, no symmetry | liveness of Room, and that its row implements `Lifetime` (with its fairness) |
| `one_creator`, `first_joiner_is_creator` | as `room`, chat only | counterexamples, section 5 |
| `admission` | 2 tasks, 2 budgets of 2 and 1 tokens, `Period` and `IDLE_TTL` 3 s, a map of one bucket, 4 s | `BudgetHeld`, `RetryHonest` |
| `gate` | 1 creation, 4 sockets, 3 addresses, 1 permit, 2 guards, 1 per address | the safety of Gate, and that it implements `Access` |
| `gate_live` | 2 creations, 2 sockets of one address, 1 permit, 2 guards | guards and permits come back |
| `activity` | 1 room, 2 tasks, 1 connection, waits of up to 2 s, hours of 2 s with thresholds of 1, 2 and 15 hours in 5-bit numbers, 6 s | `BackBounded`, `KeptWhileActive`, that the timestamps implement `Lifetime` with its fairness, and that the lock is released |
| `heartbeat` | interval 6, deadline 3, answers 1, one unsolicited pong at a time, arms of any length, 25 units: four intervals | `AnsweringClientKept`, `SilenceBounded` |
| `inbound` | a bucket of 7 parts, frames of 3, 9 units of time | rate, no undue loss, implements `Bucket` |
| `startup` | 2 processes, 2 rooms, 2 faults, every stored version, 4 sets of settings | `RoomsSurvive`, `ServesMigrated`, and that somebody serves and the rows go |
| `passwords` | 2 rooms, 1 attempt, 8 texts, 3 blocklists, the real limits | `RightFailsForCause`, `OnlyTheSame` |

The bounds are the smallest at which everything interesting happens. Three sessions
are one that acts, one it acts on, and one that sees both; with two places a room
is full while a third connection waits, and a queue of two is overrun by a join
and a message. A map of one bucket is full as soon as there is one, so each
check of the other budget sweeps or is refused; a `Period` equal to the idle time
is the tightest that the assumption on them allows. With two guards and one per
address both limits refuse.

In `activity`, two writers of one room are what it takes to store timestamps out of order, and
one connection is the tightest pool: each wait is a wait for somebody. Of the hours, 1 is a
threshold of one wait, 2 a longer one, and 15 one that wraps to a negative number, as
5124095576030431 hours would: such a room is stale at once, and still only a cleanup deletes it. In `heartbeat`
an arm can take up to four intervals, so bursts of two and more ticks occur, before and after a ping. A bucket of 7 and frames of 3 make levels that are no
whole number of frames. Two processes are enough for one to refuse the other, and two faults to kill each once. The
texts are real ones: an accented passphrase in two spellings, hangul that is three times
as long in jamo, characters that NFC takes apart. The theorems lift all safety properties from these instances to
all of them. The liveness runs (`room_live`, `gate_live`, `activity`, `startup`) use no symmetry.

Deadlock is checked in Room and Admission (in Room the cleanup never ends; a
state without a successor would be an error). In Admission the last second
(`MaxClock`) bounds time only: calls go on. In Gate each request ends, in Heartbeat
the session does, in Inbound the bounded time runs out, and in Passwords every
room may have its password and every attempt its reply, so `CHECK_DEADLOCK FALSE` there.
Activity and Startup are checked for deadlock: a restart, or a new start, is always possible.

### Fairness

- Room: a task that waits for neither socket nor lock goes on. The lock is strongly
  fair per task, because tokio's RwLock queues its waiters in order, and so is
  `recv`, because `select!` polls its arms in random order. The database answers
  each call, and the cleanup's DELETE does not fail every time. Nothing is assumed
  of sockets or clients: `Blocked` in two of the properties excuses a session that
  hangs in a write for ever, since nothing in the code bounds these writes.
- Gate: upgrades end one way or the other, `HANDSHAKE_TIMEOUT` and the bound of the
  failure write expire, jobs end (weak fairness of each). Clients need neither send
  nor read.
- Activity: the pool hands out connections in order and the lock queues its waiters
  (strong fairness of each), statements of the right kind are answered, the interval of the cleanup ticks.
  Restarts and failed cleanups come to an end; calls of tasks may fail for ever.
- Startup: a process that is there goes on. A commit that waits for readers holds
  SQLite's PENDING lock, so no new reader overtakes it, and the cleanup asks again and
  again (strong fairness). Faults are bounded by `MaxFaults`. `ComesUp` supposes
  settings that parse.

## 4. The theorems

The safety properties above are proved for every value of the
constants that meets the named assumptions (`ConnAssumption`, `BoundsAssumption`,
`FramesAssumption`; `KeyAssumption`, `TaskAssumption`, `TimeAssumption`;
`RequestAssumption`, `LimitsAssumption`; `ActorAssumption`, `NumberAssumption`;
`IntervalAssumption`; `ProcessAssumption`, `FaultsAssumption`; `TextAssumption`,
`NoneAssumption`).

- `RoomProofs`. The inductive invariant is
  `TypeOK /\ LockInv /\ MemberInv /\ IdleInv /\ QueueInv /\ SelfInv`. `LockInv` says who may
  be where while the lock is held, and that the row of a session past the database
  call is still there: that gives `NeverResurrected`. `MemberInv` ties `participants`
  to places and bounds them. `QueueInv` is the heart: for each pair of sessions c
  and q, what c knows of q, what of q is in c's queue and what c's snapshot still
  holds determine each other (introduced once, left once and for good, in that
  order), and after the removal of the entry `room_expired` is in every live queue.
  `IdleInv` says that a session outside the relay holds nothing, `SelfInv` that no client
  is told of itself. `ViewConverges`, `SendersKnown` and `ExpiryReachesAll` are what `QueueInv` says of an empty
  queue, of its head, and of a removed entry. The invariant is needed because none
  of the three is inductive: each speaks of one place in a queue whose whole
  contents matter to the next step.

  `RoomImplementsMembership` maps each step to one of Membership or to a stutter
  (`MembershipStep`, with a lemma for each kind of step). It needs `OnceInv` beside
  the invariant: a queue holds each membership event once, no `peer_joined` of a
  peer already known or in the snapshot, and no `peer_left` of one that will not be
  known by then. That is what makes an event that is read an `Introduce` or a
  `Dismiss` and nothing else, and a theorem itself (`ToldOnce`). `MembershipIsKnown` is about
  Membership alone: whatever implements it leaves a reader that nothing is left to be told to
  with exactly the other members. Together they give `ViewConverges` by way of
  the abstract specification, without a word about queues. Two more theorems follow from the steps of
  Membership alone and so hold of the room: `MembershipBooks` (the invariant behind
  `MembershipIsKnown`: what a reader knows, has coming and will hear of leaving adds up to
  the members, and nobody is told that a member left) and `CutOffForGood` (who has ceased to read never
  reads again, and an expired room gains nobody).

  `EventsInOneOrder` is what the broadcast channel promises: a step that sends anything
  appends one event to the queues of all readers alike, a newcomer starts with its own
  `peer_joined`, and an event leaves a queue at its head or with its reader. It rests on the
  classification of steps (`StepKinds`) that the refinement uses, too. `EndDrawsNearer`, the safety core of
  `DeletedRoomEmpties`, follows: nothing slips in before a queued `room_expired`, so with
  `ExpiryReaches` each session of a deleted room is a bounded number of reads from its end,
  whatever its peers go on sending. `CreatorIsTold`: the creator that a room names
  was told so, unless its session is over.
  `LockNeedsNoSocket`: whoever holds the lock between two steps waits for the database.
- `AdmissionProofs`. `BudgetInv` adds the tokens in the watched bucket, or a full bucket
  if it was forgotten, to what was spent, and bounds the sum by capacity plus refill up to
  the latest time applied. Eviction keeps it because an idle bucket is full
  (`IdleTTL >= Period`); a late clock reading is paid for by `back`. `NobodyPaysForOthers` is an
  action property of every budget, not only of the watched one: seen from any time not
  before the clock, a call leaves all budgets but its own worth what they were, whatever it sweeps
  (`SweptWasFull`) and however late its reading; to its own, a refusal costs nothing and an
  admission a token at most (`LevelAhead`, `CheckCosts`).
- `GateProofs`. `OwnerInv` says exactly who owns a guard, by place; `JobInv` that no one
  is given a second job; `PasswordInv` carries what was asked for from the creation
  through row and lookup to the verdict. The counting properties are inductive with these.
  `GateImplementsAccess` needs two facts more: no row exists for a creation that is not over, and a socket
  on its way in knows of a room that was there. `NeverOpenByMistake` is part of the
  invariant; `KindForGood` (open or protected, once and for good) follows from the refinement, for
  Access lets nothing else happen to a room. `AccessIsEnough` says what Access is good for, from its
  steps alone: nobody is inside a room that never was, or in a protected one without
  having shown its password. `NothingKeptByClients` is the safety core of
  `GuardsReturn` and `PermitsReturn`: what the code has to wait for is a timer,
  an upgrade or a job.
- `ActivityProofs`. `StampInv` ties the time a call carries to the clock, `TouchInv` the stored
  time to the latest call, `CutoffInv` says that a cutoff under way is not ahead of the clock.
  `Kept` follows with the lemmas on `Signed`: a number that fits is not changed by it.
  For `TimestampsImplementTable` each step is mapped to a step of `Lifetime`: `Tick` to
  `Age` for all rooms that cross the threshold, an `Updated` whose stamp is old
  to `Age` or a stutter, a `Swept` that deletes with an old cutoff to `Sweep` (`CutoffInv`: what is
  below it is stale now). `RoomImplementsTable` does the same for Room, and
  `DeletedForGood` is what follows: only what is stale is deleted, and it does not come back.
  `NoCircularWait` is the safety core of `LockReleased`. It rests on `HoldInv` (the
  lock belongs to exactly the task in `attach`, or the cleanup, that waits for a connection or
  runs its statement; a room is inserted by one task, and is not there before) and on `PoolInv` (no more calls
  run than there are connections).
- `HeartbeatProofs`. Nothing is assumed of how long an arm takes. No tick is taken before it is due, so
  the next one is due an interval after the last pong at the most, or two if a ping was written since
  (`SilenceInv`); a second ping without a pong is only sent within `PONG_TIMEOUT` of one, and
  `PongTimeout <= PingInterval` is all that takes. `Overtaken`: between the tick of a
  ping and the next lies an interval, so what the answer did not use of it went by before the ping was
  written or while a pong lay unread.
- `InboundProofs`. `MeasureInv` says that the tokens in the bucket are exactly what the
  most expensive window leaves (`\E s` with equality): from that both directions
  follow, no window over the rate and no drop below it.
- `StartupProofs`. `SeenInv`: what a transaction has seen is still so when it writes,
  because nobody can write in between; `RowInv`: rows have the form their schema has.
  `NoStandstill` is the safety core of `ComesUp`: with `LockInv`, of the processes that hold a
  lock one can always go on, since a writer that waits for readers has one to wait for,
  and that one does not wait. `WriterInv` adds that nobody has written, or is about to,
  once the column is committed: so later migrations only read (`LaterMigrationsOnlyRead`; no
  `SQLITE_BUSY`, no duplicate column), and the table changes its form once, with all its rows, by
  the commit of the process that wrote it (`OneMigration`).
- `PasswordsProofs`. Two spellings of one normal form are normalized to the same text unless one is
  too long itself, and `hash` never stores what `verify` would refuse to normalize (`StoredIsBounded`).
  A damaged row is the hash of the same text or of none (`StoredInv`), so it lets in nobody new.

Theorems only, checked by no run of their own: the type invariants of Activity, Heartbeat and
Passwords, `OneMissEnds`, `StoredIsBounded`, `NoOpenFallback`, `OneOrder`, `CreatorKnows`, `EachItsOwn`,
`OnlyReads`, `MigratesOnce`, and the ones named above as safety cores or consequences of a refinement.

Only model-checked: the liveness properties and the fairness of `Lifetime` in
`room_live` and `activity` (the prover has no ENABLED), and the two violations. The
safety cores say, for any number of tasks, that somebody can always go on; that each
waiting task gets its turn is left to the fair runs. Nothing is said of f64 rounding in the two token buckets.

## 5. What the models found

`OneCreator`: c attaches to an empty room and is told that it is the creator; d attaches
and fails its handshake; its `detach` finds no participants and resets `creator_id`
although c is still in its handshake; e attaches and is told that it is the creator,
too; both join. The test `simultaneous_protected_joiners_...` asserts of two
joiners that exactly one is (`tests/password_rooms.rs:670`).

`FirstJoinerIsCreator`: c attaches and is the creator, d attaches and is told so, c
fails its handshake and detaches. d joins a room whose creator is gone, is alone in it, and is not
told that it is the creator ("first joiner is the creator",
`tests/ws_lifecycle.rs:154`).

Both come from choosing the creator in `attach` and resetting it by a condition on
`participants`, which only `join` fills. What does hold is `CreatorStable`: while
there are participants, the creator does not change.

Things that may surprise:

- A client that answers every ping can be dropped for want of a pong: `timedOut => silent` is not an
  invariant. Say its last pong was read at second 1, and an arm takes from 29 to 61
  (a write to this client, or the UPDATE of a chat message). Two ticks are due then, at once. The first sends a
  ping, and the second may be taken before the answer to it: it finds `waiting_for_pong` and a
  pong of 60 seconds ago, and ends the session. The same can happen with the pong already in the socket, since
  `select!` may poll the timer first, and after a ping that took long to write. `AnsweringClientKept` says that it
  takes as much: the last ping was written, or a pong left unread, as late as an interval less the time of
  the answer, 30 seconds less a round trip. No doc or test of the repository promises more.
- `OneMissEnds`: without such a burst `PONG_TIMEOUT` decides nothing. By the tick after a ping that was written in time
  `PING_INTERVAL` has passed, which is longer; a client has thirty seconds to answer and not ten.
- The right password can be answered with `auth_failed`: if another frame follows it before the verdict
  (the client is then disconnected, as `tests/password_rooms.rs:704` has it), if the handshake times out, or if the
  stored digest is damaged. `RightFailsForCause` says that there is no fourth cause, but for its condition
  `Fits(t)`: a password of 256 hangul syllables is accepted, and the same password sent in jamo is
  2304 bytes long and is refused as wrong.
- `CleansUp` has a condition, too: with `CLEANUP_INTERVAL_MINS=0` the cleanup task panics at its start, the
  server goes on and no room ever expires.

## 6. Not modelled, and what is left

Not modelled, because there is no state or no property to tell apart what they do:
Argon2 itself, the generation of ids, the routes, CORS and the body limit (`src/lib.rs`), the
constant security headers, the validators of key material and the serde declarations
(length checks and field names), logging, the four counters of `Admission`; and `client_ip`, a pure
decision about one request, whose result Gate and Admission take as given.

Not modelled, because it would take a composition too large for TLC to say something
new: two processes that each have a registry of rooms over one table (Startup has the
table and Activity the lock, but a session of one process whose room the other one's
cleanup deletes is in neither), and Gate and Room over one room. The two meet in one
place, `attach`, which looks the row up again; `Access` says what arrives there and `Lifetime`
what the row does afterwards.

Activity takes the wall clock never to step back while the server runs (`Tick` only adds): after a step back, by NTP or by
hand, a call would store an earlier time than the one before it, a cutoff would fall behind, and `BackBounded` and
`KeptWhileActive` would hold only up to that step. Instants, which the other modules count in, are monotonic.

There is no abstract specification of the broadcast channel as one log, of which every reader
sees a contiguous part: the theorem `EventsInOneOrder` says as much of the steps. For the
membership events, `Membership` says what the clients can tell of it; for chat, `SendersKnown` does.
