-------------------------------- MODULE Gate --------------------------------
(***************************************************************************)
(* The way into a room: POST /rooms (create_room in                        *)
(* src/src/routes/rooms.rs) and GET /ws/{room_id} up to the call of attach *)
(* (ws_handler and authenticate in src/src/routes/ws.rs), with what they   *)
(* compete for: the PendingAuth guards of src/src/admission.rs and the two *)
(* slots of the PasswordService (src/src/passwords.rs).                    *)
(*                                                                         *)
(* Every request is a task that a client may abandon; a password           *)
(* computation is a blocking job that nobody can cancel.  A room is named  *)
(* after the request that creates it.  Budgets are in Admission: here a    *)
(* check of one may go either way.                                         *)
(***************************************************************************)
EXTENDS Naturals, FiniteSets

CONSTANTS
  Creation,       \* POST /rooms requests
  Socket,         \* GET /ws requests
  Address,        \* client addresses
  AddressOf,      \* AddressOf[s]: the client_ip of a socket
  Slots,          \* permits of PasswordService.slots: 2
  MaxPending,     \* 100
  MaxPendingPerIp \* 10

ASSUME RequestAssumption ==
  /\ IsFiniteSet(Creation) /\ IsFiniteSet(Socket) /\ Creation \cap Socket = {}
  /\ AddressOf \in [Socket -> Address]
ASSUME LimitsAssumption ==
  Slots \in Nat \ {0} /\ MaxPending \in Nat \ {0} /\ MaxPendingPerIp \in Nat \ {0}

VARIABLES
  row,            \* the rows of the table `rooms`
  wants,          \* whether a creation request carries a password
  hash,           \* the hash its INSERT is given, or NULL
  pc,             \* where each request is
  target,         \* the room a socket asked for
  found,          \* what room_password told the socket of it
  correct,        \* the socket sent the password of its target
  guarded,        \* the sockets that own a PendingAuth
  pending,        \* Limits.pending, 0 where it has no entry
  pending_total,  \* Limits.pending_total
  slots,          \* free permits
  job             \* the computation of each request

Request == Creation \cup Socket
guards  == <<guarded, pending, pending_total>>
kdf     == <<slots, job>>
socket  == <<target, found, correct>>
creation == <<wants, hash>>
vars    == <<row, creation, pc, socket, guards, kdf>>

(* The places inside authenticate that its timeout covers. *)
Timed   == {"requiring", "awaiting", "ponging", "verifying"}
Authenticating == Timed \cup {"failing"}
Places  == {"new", "hashing", "inserting", "created", "refused", "gone",
            "lookup", "upgrading", "attach", "closed"} \cup Authenticating

TypeOK ==
  /\ row \in [Creation -> {"none", "open", "protected", "expired"}]
  /\ wants \in [Creation -> {"open", "protected"}]
  /\ hash \in [Creation -> {"null", "phc"}]
  /\ pc \in [Request -> Places]
  /\ target \in [Socket -> Creation]
  /\ found \in [Socket -> {"none", "open", "protected"}]
  /\ correct \in [Socket -> BOOLEAN]
  /\ guarded \in SUBSET Socket
  /\ pending \in [Address -> 0..MaxPendingPerIp]
  /\ pending_total \in 0..MaxPending
  /\ slots \in 0..Slots
  /\ job \in [Request -> {"none", "running", "ok", "bad", "error"}]

Init ==
  /\ row = [r \in Creation |-> "none"]
  /\ wants \in [Creation -> {"open", "protected"}]
  /\ hash = [r \in Creation |-> "null"]
  /\ pc = [q \in Request |-> "new"]
  /\ target \in [Socket -> Creation]
  /\ found = [s \in Socket |-> "none"]
  /\ correct = [s \in Socket |-> FALSE]
  /\ guarded = {} /\ pending = [a \in Address |-> 0] /\ pending_total = 0
  /\ slots = Slots /\ job = [q \in Request |-> "none"]

Goto(q, place) == pc' = [pc EXCEPT ![q] = place]

-----------------------------------------------------------------------------
(* Admission::pending and the drop of its guard *)

HasGuardOneMore(a) ==                                                \* mutant
  pending_total < MaxPending /\ pending[a] <= MaxPendingPerIp
HasGuard(a) == pending_total < MaxPending /\ pending[a] < MaxPendingPerIp

TakeGuard(s) ==
  /\ guarded' = guarded \cup {s}
  /\ pending' = [pending EXCEPT ![AddressOf[s]] = @ + 1]
  /\ pending_total' = pending_total + 1

DropGuardPerIp(s) ==                                                 \* mutant
  IF s \in guarded
  THEN /\ guarded' = guarded \ {s}
       /\ pending' = [pending EXCEPT ![AddressOf[s]] = @ - 1]
       /\ UNCHANGED pending_total
  ELSE UNCHANGED guards
DropGuard(s) ==
  IF s \in guarded
  THEN /\ guarded' = guarded \ {s}
       /\ pending' = [pending EXCEPT ![AddressOf[s]] = @ - 1]
       /\ pending_total' = pending_total - 1
  ELSE UNCHANGED guards

-----------------------------------------------------------------------------
(* PasswordService::compute *)

StartJob(q) ==
  /\ slots > 0
  /\ slots' = slots - 1
  /\ job' = [job EXCEPT ![q] = "running"]

(* Mutant: the awaiting task owns the permit of the job. *)
JobEndsAwaited(q) ==
  /\ job[q] = "running"
  /\ job' = [job EXCEPT ![q] = "error"]
  /\ slots' = IF pc[q] \in {"hashing", "verifying"} THEN slots + 1 ELSE slots
  /\ UNCHANGED <<row, creation, pc, socket, guards>>

(* The job ends and gives its permit back, whether or not its request      *)
(* still waits; a panic of the job is an error too.                        *)
JobEnds(q) ==
  /\ job[q] = "running"
  /\ \E result \in IF q \in Creation THEN {"ok", "error"}
                   ELSE {IF correct[q] THEN "ok" ELSE "bad", "error"} :
       job' = [job EXCEPT ![q] = result]
  /\ slots' = slots + 1
  /\ UNCHANGED <<row, creation, pc, socket, guards>>

-----------------------------------------------------------------------------
(* create_room *)

(* The address, the creation budget, the body or the password is refused. *)
CreateRefused(r) ==
  /\ pc[r] = "new"
  /\ Goto(r, "refused")
  /\ UNCHANGED <<row, creation, socket, guards, kdf>>

CreateOpen(r) ==
  /\ pc[r] = "new" /\ wants[r] = "open"
  /\ Goto(r, "inserting")
  /\ UNCHANGED <<row, creation, socket, guards, kdf>>

CreateHashing(r) ==
  /\ pc[r] = "new" /\ wants[r] = "protected"
  /\ StartJob(r)
  /\ Goto(r, "hashing")
  /\ UNCHANGED <<row, creation, socket, guards>>

CreateBusy(r) ==
  /\ pc[r] = "new" /\ wants[r] = "protected" /\ slots = 0
  /\ Goto(r, "refused")
  /\ UNCHANGED <<row, creation, socket, guards, kdf>>

Hashed(r) ==
  /\ pc[r] = "hashing" /\ job[r] \in {"ok", "error"}
  /\ IF job[r] = "ok"
     THEN Goto(r, "inserting") /\ hash' = [hash EXCEPT ![r] = "phc"]
     ELSE Goto(r, "refused") /\ UNCHANGED hash
  /\ UNCHANGED <<row, wants, socket, guards, kdf>>

(* create_room_with_password: a NULL password_hash makes an open room. *)
Stored(r) == [row EXCEPT ![r] = IF hash[r] = "null" THEN "open" ELSE "protected"]

Inserted(r) ==
  /\ pc[r] = "inserting"
  /\ row' = Stored(r)
  /\ Goto(r, "created")
  /\ UNCHANGED <<creation, socket, guards, kdf>>

InsertFails(r) ==
  /\ pc[r] = "inserting"
  /\ Goto(r, "refused")
  /\ UNCHANGED <<row, creation, socket, guards, kdf>>

(* The client goes away: the handler is dropped where it waits.  An INSERT *)
(* handed to the database may be executed all the same.                    *)
CreateAbandoned(r) ==
  /\ pc[r] \in {"hashing", "inserting"}
  /\ UNCHANGED row \/ (pc[r] = "inserting" /\ row' = Stored(r))
  /\ Goto(r, "gone")
  /\ UNCHANGED <<creation, socket, guards, kdf>>

Expired(r) ==
  /\ row[r] \in {"open", "protected"}
  /\ row' = [row EXCEPT ![r] = "expired"]
  /\ UNCHANGED <<creation, pc, socket, guards, kdf>>

-----------------------------------------------------------------------------
(* ws_handler *)

(* The origin, the address or the connection budget is refused. *)
Rejected(s) ==
  /\ pc[s] = "new"
  /\ Goto(s, "closed")
  /\ UNCHANGED <<row, creation, socket, guards, kdf>>

LookupStarts(s) ==
  /\ pc[s] = "new"
  /\ Goto(s, "lookup")
  /\ UNCHANGED <<row, creation, socket, guards, kdf>>

(* The database fails, or the client goes away. *)
LookupFails(s) ==
  /\ pc[s] = "lookup"
  /\ Goto(s, "closed")
  /\ UNCHANGED <<row, creation, socket, guards, kdf>>

(* room_password answers; a protected room takes a guard, or the request   *)
(* is refused.                                                             *)
LookedUp(s) ==
  /\ pc[s] = "lookup"
  /\ found' = [found EXCEPT ![s] =
                 IF row[target[s]] = "expired" THEN "none" ELSE row[target[s]]]
  /\ IF row[target[s]] # "protected"
     THEN Goto(s, "upgrading") /\ UNCHANGED guards
     ELSE IF HasGuard(AddressOf[s])
          THEN Goto(s, "upgrading") /\ TakeGuard(s)
          ELSE Goto(s, "closed") /\ UNCHANGED guards
  /\ UNCHANGED <<row, creation, target, correct, kdf>>

(* The connection dies before it is upgraded: the closure is dropped. *)
UpgradeFails(s) ==
  /\ pc[s] = "upgrading"
  /\ Goto(s, "closed")
  /\ DropGuard(s)
  /\ UNCHANGED <<row, creation, socket, kdf>>

(* Mutant: the answer of the lookup is left to attach to ask again. *)
UpgradedUnasked(s) ==
  /\ pc[s] = "upgrading"
  /\ Goto(s, IF found[s] = "protected" THEN "requiring" ELSE "attach")
  /\ UNCHANGED <<row, creation, socket, guards, kdf>>
Upgraded(s) ==
  /\ pc[s] = "upgrading"
  /\ Goto(s, CASE found[s] = "none" -> "closed"
               [] found[s] = "open" -> "attach"
               [] found[s] = "protected" -> "requiring")
  /\ UNCHANGED <<row, creation, socket, guards, kdf>>

-----------------------------------------------------------------------------
(* authenticate *)

(* Mutant: the guard is given back before the failure is written. *)
FailUnguarded(s) == Goto(s, "failing") /\ DropGuard(s)
Fail(s) == Goto(s, "failing") /\ UNCHANGED guards

AuthRequiredSent(s) ==
  /\ pc[s] = "requiring"
  /\ Goto(s, "awaiting")
  /\ UNCHANGED <<row, creation, socket, guards, kdf>>

PingReceived(s) ==
  /\ pc[s] = "awaiting"
  /\ Goto(s, "ponging")
  /\ UNCHANGED <<row, creation, socket, guards, kdf>>

PongSent(s) ==
  /\ pc[s] = "ponging"
  /\ Goto(s, "awaiting")
  /\ UNCHANGED <<row, creation, socket, guards, kdf>>

(* A write fails; the frame is none that authenticate takes, or the stream *)
(* ends; the room budget is spent; the password is not even well-formed.   *)
AuthRefused(s) ==
  /\ pc[s] \in Timed \ {"verifying"}
  /\ Fail(s)
  /\ UNCHANGED <<row, creation, socket, kdf>>

VerifyStarts(s) ==
  /\ pc[s] = "awaiting"
  /\ StartJob(s)
  /\ \E right \in BOOLEAN : correct' = [correct EXCEPT ![s] = right]
  /\ Goto(s, "verifying")
  /\ UNCHANGED <<row, creation, target, found, guards>>

VerifyBusy(s) ==
  /\ pc[s] = "awaiting" /\ slots = 0
  /\ Fail(s)
  /\ UNCHANGED <<row, creation, socket, kdf>>

(* Mutant: whatever verification returns, the client is let in. *)
VerifiedAny(s) ==
  /\ pc[s] = "verifying" /\ job[s] \in {"ok", "bad", "error"}
  /\ Goto(s, "attach")
  /\ DropGuard(s)
  /\ UNCHANGED <<row, creation, socket, kdf>>

(* drop(pending), then attach. *)
Verified(s) ==
  /\ pc[s] = "verifying" /\ job[s] = "ok"
  /\ Goto(s, "attach")
  /\ DropGuard(s)
  /\ UNCHANGED <<row, creation, socket, kdf>>

VerifyFailed(s) ==
  /\ pc[s] = "verifying" /\ job[s] \in {"bad", "error"}
  /\ Fail(s)
  /\ UNCHANGED <<row, creation, socket, kdf>>

(* A second frame or a disconnect ends the wait; the job runs on. *)
SecondFrameStopsJob(s) ==                                            \* mutant
  /\ pc[s] = "verifying"
  /\ job' = [job EXCEPT ![s] = "none"]
  /\ Fail(s)
  /\ UNCHANGED <<row, creation, socket, slots>>
SecondFrame(s) ==
  /\ pc[s] = "verifying"
  /\ Fail(s)
  /\ UNCHANGED <<row, creation, socket, kdf>>

(* HANDSHAKE_TIMEOUT, whatever authenticate is waiting for. *)
DeadlineWhenRead(s) ==                                               \* mutant
  /\ pc[s] \in Timed \ {"requiring"}
  /\ Fail(s)
  /\ UNCHANGED <<row, creation, socket, kdf>>
Deadline(s) ==
  /\ pc[s] \in Timed
  /\ Fail(s)
  /\ UNCHANGED <<row, creation, socket, kdf>>

(* The failure is written, or its second is over; the guard is dropped     *)
(* when handle_socket returns.                                             *)
FailureDone(s) ==
  /\ pc[s] = "failing"
  /\ Goto(s, "closed")
  /\ DropGuard(s)
  /\ UNCHANGED <<row, creation, socket, kdf>>

-----------------------------------------------------------------------------
(* The process dies and is started again: only the rows survive. *)
Restart ==
  /\ pc' = [q \in Request |->
              IF pc[q] = "new" THEN "new" ELSE IF q \in Creation THEN "gone" ELSE "closed"]
  /\ guarded' = {} /\ pending' = [a \in Address |-> 0] /\ pending_total' = 0
  /\ slots' = Slots /\ job' = [q \in Request |-> "none"]
  /\ UNCHANGED <<row, creation, socket>>

Create(r) ==
  \/ CreateRefused(r) \/ CreateOpen(r) \/ CreateHashing(r) \/ CreateBusy(r)
  \/ Hashed(r) \/ Inserted(r) \/ InsertFails(r) \/ CreateAbandoned(r) \/ Expired(r)
Handler(s) ==
  Rejected(s) \/ LookupStarts(s) \/ LookupFails(s) \/ LookedUp(s)
    \/ UpgradeFails(s) \/ Upgraded(s)
Authenticate(s) ==
  \/ AuthRequiredSent(s) \/ PingReceived(s) \/ PongSent(s) \/ AuthRefused(s)
  \/ VerifyStarts(s) \/ VerifyBusy(s) \/ Verified(s) \/ VerifyFailed(s)
  \/ SecondFrame(s) \/ Deadline(s) \/ FailureDone(s)

Next ==
  \/ \E r \in Creation : Create(r)
  \/ \E s \in Socket : Handler(s) \/ Authenticate(s)
  \/ \E q \in Request : JobEnds(q)
  \/ Restart

Spec == Init /\ [][Next]_vars

-----------------------------------------------------------------------------
(* Safety *)

(* Nobody reaches a protected room without the password it was created     *)
(* with, whatever times out, is abandoned or fails on the way.             *)
GateHolds ==
  \A s \in Socket :
    pc[s] = "attach" /\ wants[target[s]] = "protected" => correct[s]

(* Every permit is free or owned by one running job, also when the request *)
(* that started the job is long gone.                                      *)
PermitsConserved == slots + Cardinality({q \in Request : job[q] = "running"}) = Slots

(* pending and pending_total count the guards that live; dropping a guard  *)
(* finds its slot ("pending guard owns a slot", admission.rs:138).         *)
PendingConserved ==
  /\ pending_total = Cardinality(guarded)
  /\ \A a \in Address : pending[a] = Cardinality({s \in guarded : AddressOf[s] = a})

(* No more than MaxPending clients, MaxPendingPerIp of one address, are    *)
(* between the upgrade and the end of authenticate, its last write         *)
(* included.                                                               *)
AuthBounded ==
  LET inside == {s \in Socket : pc[s] \in Authenticating}
  IN /\ Cardinality(inside) <= MaxPending
     /\ \A a \in Address :
          Cardinality({s \in inside : AddressOf[s] = a}) <= MaxPendingPerIp

(* All of this amounts to Access: what a row says is what its creator      *)
(* wanted, for good, and a socket that may attach has entered.             *)
Rooms == INSTANCE Access WITH
  Room   <- Creation,
  kind   <- [r \in Creation |-> IF row[r] = "expired" THEN wants[r] ELSE row[r]],
  shown  <- {s \in Socket : correct[s]},
  inside <- {s \in Socket : pc[s] = "attach"}
ImplementsAccess == Rooms!Spec

-----------------------------------------------------------------------------
(* Liveness *)

(* Timers fire, an upgrade is answered one way or the other, and a job     *)
(* comes to an end.  Nothing is assumed of clients: they may never send a  *)
(* frame, and never read one.                                              *)
FairSpec ==
  /\ Spec
  /\ \A s \in Socket : /\ WF_vars(UpgradeFails(s) \/ Upgraded(s))
                       /\ WF_vars(Deadline(s)) /\ WF_vars(FailureDone(s))
  /\ \A q \in Request : WF_vars(JobEnds(q))

(* "a peer that does not read must not retain a slot" (ws.rs:363). *)
GuardsReturn == \A s \in Socket : s \in guarded ~> s \notin guarded

(* The password service is not busy for ever: permits come back also when  *)
(* nobody waits for the results.                                           *)
PermitsReturn == slots = 0 ~> slots > 0
=============================================================================
