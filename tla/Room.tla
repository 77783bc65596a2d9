-------------------------------- MODULE Room --------------------------------
(***************************************************************************)
(* One chat room: its row in the SQLite table `rooms`, its entry in the    *)
(* in-memory RoomMap (src/src/state.rs), the sessions of the connections   *)
(* that use it (handle_socket in src/src/routes/ws.rs, from the call of    *)
(* attach on), and the cleanup task (src/src/cleanup.rs).                  *)
(*                                                                         *)
(* A room id is a fresh UUID, so rooms share nothing but the RoomMap lock; *)
(* a connection id is a fresh UUID too, so each element of Conn is used    *)
(* for one session.  Every session is a task; a step is what a task does   *)
(* between two awaits.  The write lock of the RoomMap is a variable,       *)
(* because attach and expire_inactive_rooms keep it across a database      *)
(* await; join and detach await nothing while they hold it, so they are    *)
(* one step each.                                                          *)
(***************************************************************************)
EXTENDS Naturals, Sequences, FiniteSets

CONSTANTS
  Conn,             \* connection ids
  NoConn,           \* Option::None where a connection id may stand
  Cleaner,          \* the cleanup task, as a holder of the lock
  MaxParticipants,  \* MAX_PARTICIPANTS
  Capacity,         \* messages a broadcast receiver may be behind
  TextFrames        \* the text frames clients send after the handshake

RelayTypes == {"chat", "tree_commit", "tree_welcome", "typing"}

ASSUME ConnAssumption == NoConn \notin Conn /\ Cleaner \notin Conn \cup {NoConn}
ASSUME BoundsAssumption ==
  MaxParticipants \in Nat \ {0} /\ Capacity \in Nat \ {0}
ASSUME FramesAssumption == TextFrames \subseteq RelayTypes

VARIABLES
  exists,        \* the row of the room is in the database
  stale,         \* its last_activity is older than the cleanup cutoff
  inMap,         \* the RoomMap has an entry for the room
  creator_id,    \* Room.creator_id
  participants,  \* the keys of Room.participants
  lock,          \* who holds rooms.write() across an await
  deleted,       \* the running cleanup has deleted the row
  pc,            \* where each session is
  told,          \* the creator_id of the session's welcome frame
  snapshot,      \* peers of the join snapshot still to be announced
  view,          \* peers the frames written so far have left the client with
  queue,         \* events waiting in the session's broadcast receiver
  lagged         \* the receiver was overrun

db       == <<exists, stale>>
room     == <<inMap, creator_id, participants>>
receiver == <<queue, lagged>>
vars     == <<db, room, lock, deleted, pc, told, snapshot, view, receiver>>

-----------------------------------------------------------------------------
(* RoomEvent: who it is from (sender) and whom it is for (target). *)

Event(type, from, to) == [type |-> type, from |-> from, to |-> to]

PeerJoined(c) == Event("peer_joined", c, NoConn)
PeerLeft(c)   == Event("peer_left", c, NoConn)
RoomExpired   == Event("room_expired", NoConn, NoConn)

Events == [type : RelayTypes, from : Conn, to : Conn \cup {NoConn}]
          \cup {PeerJoined(c) : c \in Conn} \cup {PeerLeft(c) : c \in Conn}
          \cup {RoomExpired}

(* Places a session can be: "new" is authenticated (or open) and about to  *)
(* attach; the places of Writing wait for the socket to take a frame.      *)
Writing  == {"welcome", "refusing", "announcing", "writing", "expiring"}
Relaying == {"relay", "writing", "updating", "sending"}
Places   == {"new", "attaching", "found", "handshake", "joining", "leaving",
             "closed"} \cup Writing \cup Relaying

PreJoin  == {"new", "attaching", "found", "welcome", "handshake", "joining", "refusing"}

(* A receiver lives from join to the end of the 'session block. *)
Subscribed == {c \in Conn : pc[c] \in Relaying \cup {"announcing", "expiring"}}

TypeOK ==
  /\ exists \in BOOLEAN /\ stale \in BOOLEAN
  /\ inMap \in BOOLEAN
  /\ creator_id \in Conn \cup {NoConn}
  /\ participants \in SUBSET Conn
  /\ lock \in Conn \cup {NoConn, Cleaner}
  /\ deleted \in BOOLEAN
  /\ pc \in [Conn -> Places]
  /\ told \in [Conn -> Conn \cup {NoConn}]
  /\ snapshot \in [Conn -> SUBSET Conn]
  /\ view \in [Conn -> SUBSET Conn]
  /\ queue \in [Conn -> Seq(Events)]
  /\ \A c \in Conn : Len(queue[c]) <= Capacity
  /\ lagged \in [Conn -> BOOLEAN]

Init ==
  /\ exists = TRUE /\ stale = FALSE
  /\ inMap = FALSE /\ creator_id = NoConn /\ participants = {}
  /\ lock = NoConn /\ deleted = FALSE
  /\ pc = [c \in Conn |-> "new"]
  /\ told = [c \in Conn |-> NoConn]
  /\ snapshot = [c \in Conn |-> {}]
  /\ view = [c \in Conn |-> {}]
  /\ queue = [c \in Conn |-> <<>>]
  /\ lagged = [c \in Conn |-> FALSE]

-----------------------------------------------------------------------------
(* broadcast::Sender::send: every receiver in R gets the event, unless it  *)
(* is Capacity events behind: then its oldest one is overwritten and its   *)
(* next recv() fails with Lagged.                                          *)
FullTooLate(c) == Len(queue[c]) > Capacity           \* mutant
Full(c) == Len(queue[c]) >= Capacity

Publish(e, R) ==
  /\ queue' = [c \in Conn |->
                 IF c \notin R THEN queue[c]
                 ELSE IF lagged[c] \/ Full(c) THEN <<>>
                 ELSE Append(queue[c], e)]
  /\ lagged' = [c \in Conn |-> lagged[c] \/ (c \in R /\ Full(c))]

Goto(c, place) == pc' = [pc EXCEPT ![c] = place]

(* Mutant: `return` where the code says break 'session. *)
LeaveWithoutDetach(c) ==
  /\ Goto(c, "closed")
  /\ queue' = [queue EXCEPT ![c] = <<>>]
  /\ lagged' = [lagged EXCEPT ![c] = FALSE]
  /\ snapshot' = [snapshot EXCEPT ![c] = {}]
  /\ view' = [view EXCEPT ![c] = {}]

(* break 'session, or falling out of the relay loop: rx is dropped. *)
Leave(c) ==
  /\ Goto(c, "leaving")
  /\ queue' = [queue EXCEPT ![c] = <<>>]
  /\ lagged' = [lagged EXCEPT ![c] = FALSE]
  /\ snapshot' = [snapshot EXCEPT ![c] = {}]
  /\ view' = [view EXCEPT ![c] = {}]

-----------------------------------------------------------------------------
(* AppState::attach *)

AttachLock(c) ==
  /\ pc[c] = "new" /\ lock = NoConn
  /\ lock' = c
  /\ Goto(c, "attaching")
  /\ UNCHANGED <<db, room, deleted, told, snapshot, view, receiver>>

(* room_exists finds no row, or fails: no entry is made and the session    *)
(* ends after an auth_unavailable frame whose write is bounded.            *)
AttachRefused(c) ==
  /\ pc[c] = "attaching"
  /\ lock' = NoConn
  /\ Goto(c, "closed")
  /\ UNCHANGED <<db, room, deleted, told, snapshot, view, receiver>>

(* Mutant: the entry is made without asking the database. *)
AttachUnchecked(c) ==
  /\ pc[c] = "attaching"
  /\ Goto(c, "found")
  /\ UNCHANGED <<db, room, lock, deleted, told, snapshot, view, receiver>>

AttachFound(c) ==
  /\ pc[c] = "attaching" /\ exists
  /\ Goto(c, "found")
  /\ UNCHANGED <<db, room, lock, deleted, told, snapshot, view, receiver>>

(* rooms.entry(..).or_insert_with(Room::new); the first connection to a    *)
(* room without a creator becomes its creator.                             *)
AttachInsert(c) ==
  /\ pc[c] = "found"
  /\ inMap' = TRUE
  /\ creator_id' = IF creator_id = NoConn THEN c ELSE creator_id
  /\ told' = [told EXCEPT ![c] = creator_id']
  /\ lock' = NoConn
  /\ Goto(c, "welcome")
  /\ UNCHANGED <<db, participants, deleted, snapshot, view, receiver>>

-----------------------------------------------------------------------------
(* The handshake of handle_socket *)

WelcomeSent(c) ==
  /\ pc[c] = "welcome"
  /\ Goto(c, "handshake")
  /\ UNCHANGED <<db, room, lock, deleted, told, snapshot, view, receiver>>

KeysAccepted(c) ==
  /\ pc[c] = "handshake"
  /\ Goto(c, "joining")
  /\ UNCHANGED <<db, room, lock, deleted, told, snapshot, view, receiver>>

(* An invalid or unexpected frame, a close, or HANDSHAKE_TIMEOUT. *)
HandshakeFails(c) ==
  /\ pc[c] = "handshake"
  /\ Leave(c)
  /\ UNCHANGED <<db, room, lock, deleted, told>>

-----------------------------------------------------------------------------
(* AppState::join *)

HasPlaceOffByOne == Cardinality(participants) <= MaxParticipants    \* mutant
HasPlace == Cardinality(participants) < MaxParticipants

(* The newcomer subscribes before its own peer_joined is sent, so all      *)
(* receivers see the membership events in one order.                       *)
Joined(c) ==
  /\ pc[c] = "joining" /\ lock = NoConn
  /\ inMap /\ HasPlace
  /\ snapshot' = [snapshot EXCEPT ![c] = participants]
  /\ participants' = participants \cup {c}
  /\ Publish(PeerJoined(c), Subscribed \cup {c})
  /\ Goto(c, "announcing")
  /\ UNCHANGED <<db, inMap, creator_id, lock, deleted, told, view>>

JoinFull(c) ==
  /\ pc[c] = "joining" /\ lock = NoConn
  /\ inMap /\ ~HasPlace
  /\ Goto(c, "refusing")
  /\ UNCHANGED <<db, room, lock, deleted, told, snapshot, view, receiver>>

RoomGone(c) ==
  /\ pc[c] = "joining" /\ lock = NoConn
  /\ ~inMap
  /\ Leave(c)
  /\ UNCHANGED <<db, room, lock, deleted, told>>

(* Mutant: peers that have left since are passed over. *)
PeerKeySentIfPresent(c) ==
  /\ pc[c] = "announcing"
  /\ \E p \in snapshot[c] :
       /\ snapshot' = [snapshot EXCEPT ![c] = @ \ {p}]
       /\ view' = [view EXCEPT ![c] = @ \cup ({p} \cap participants)]
  /\ UNCHANGED <<db, room, lock, deleted, pc, told, receiver>>

(* One peer_key frame of the snapshot reaches the socket. *)
PeerKeySent(c) ==
  /\ pc[c] = "announcing"
  /\ \E p \in snapshot[c] :
       /\ snapshot' = [snapshot EXCEPT ![c] = @ \ {p}]
       /\ view' = [view EXCEPT ![c] = @ \cup {p}]
  /\ UNCHANGED <<db, room, lock, deleted, pc, told, receiver>>

(* Mutant: the relay starts although snapshot peers are unannounced. *)
StartRelayEarly(c) ==
  /\ pc[c] = "announcing"
  /\ Goto(c, "relay")
  /\ snapshot' = [snapshot EXCEPT ![c] = {}]
  /\ UNCHANGED <<db, room, lock, deleted, told, view, receiver>>

StartRelay(c) ==
  /\ pc[c] = "announcing" /\ snapshot[c] = {}
  /\ Goto(c, "relay")
  /\ UNCHANGED <<db, room, lock, deleted, told, snapshot, view, receiver>>

-----------------------------------------------------------------------------
(* The relay loop: one action per arm of its select! *)

(* `event.sender() == Some(conn_id)`, or a target that is someone else *)
SkipsUntargeted(c, e) == e.from = c \/ e.to # c      \* mutant
Skips(c, e) == e.from = c \/ (e.to # NoConn /\ e.to # c)

ViewAfter(v, e) ==
  CASE e.type = "peer_joined" -> v \cup {e.from}
    [] e.type = "peer_left"   -> v \ {e.from}
    [] OTHER                  -> v

Recv(c) ==
  /\ pc[c] = "relay" /\ ~lagged[c] /\ queue[c] # <<>>
  /\ LET e == Head(queue[c])
     IN IF Skips(c, e)
        THEN UNCHANGED <<pc, view>>
        ELSE /\ Goto(c, IF e.type = "room_expired" THEN "expiring" ELSE "writing")
             /\ view' = [view EXCEPT ![c] = ViewAfter(@, e)]
  /\ queue' = [queue EXCEPT ![c] = Tail(@)]
  /\ UNCHANGED <<db, room, lock, deleted, told, snapshot, lagged>>

(* Mutant: Err(Lagged(_)) => continue, with the events overwritten lost. *)
RecvLaggedGoesOn(c) ==
  /\ pc[c] = "relay" /\ lagged[c]
  /\ lagged' = [lagged EXCEPT ![c] = FALSE]
  /\ UNCHANGED <<db, room, lock, deleted, pc, told, snapshot, view, queue>>

RecvLagged(c) ==
  /\ pc[c] = "relay" /\ lagged[c]
  /\ Leave(c)
  /\ UNCHANGED <<db, room, lock, deleted, told>>

(* A heartbeat ping, or the pong that answers a client's ping. *)
WriteControl(c) ==
  /\ pc[c] = "relay"
  /\ Goto(c, "writing")
  /\ UNCHANGED <<db, room, lock, deleted, told, snapshot, view, receiver>>

WriteDone(c) ==
  /\ pc[c] = "writing"
  /\ Goto(c, "relay")
  /\ UNCHANGED <<db, room, lock, deleted, told, snapshot, view, receiver>>

(* A write fails; the frames written in "refusing" and "expiring" are the  *)
(* session's last ones, so it ends there even when they are written.       *)
WriteEnds(c) ==
  /\ pc[c] \in Writing
  /\ Leave(c)
  /\ UNCHANGED <<db, room, lock, deleted, told>>

(* The client closes, the transport fails, or no pong came in time. *)
Disconnect(c) ==
  /\ pc[c] = "relay"
  /\ Leave(c)
  /\ UNCHANGED <<db, room, lock, deleted, told>>

ChatReceived(c) ==
  /\ pc[c] = "relay" /\ "chat" \in TextFrames
  /\ Goto(c, "updating")
  /\ UNCHANGED <<db, room, lock, deleted, told, snapshot, view, receiver>>

(* db::update_activity touches no row once the room is deleted. *)
UpdateActivity(c) ==
  /\ pc[c] = "updating"
  /\ stale' = (stale /\ ~exists)
  /\ Goto(c, "sending")
  /\ UNCHANGED <<exists, room, lock, deleted, told, snapshot, view, receiver>>

(* An error of update_activity is logged and the message is still sent. *)
UpdateFails(c) ==
  /\ pc[c] = "updating"
  /\ Goto(c, "sending")
  /\ UNCHANGED <<db, room, lock, deleted, told, snapshot, view, receiver>>

ChatSent(c) ==
  /\ pc[c] = "sending"
  /\ Publish(Event("chat", c, NoConn), Subscribed)
  /\ Goto(c, "relay")
  /\ UNCHANGED <<db, room, lock, deleted, told, snapshot, view>>

(* tree_commit, typing, and tree_welcome with a target the client chose. *)
Relayed(c) ==
  /\ pc[c] = "relay"
  /\ \E t \in TextFrames \ {"chat"} :
     \E to \in IF t = "tree_welcome" THEN Conn ELSE {NoConn} :
       Publish(Event(t, c, to), Subscribed)
  /\ UNCHANGED <<db, room, lock, deleted, pc, told, snapshot, view>>

-----------------------------------------------------------------------------
(* AppState::detach *)

CreatorWithoutLeaver(rest) == NoConn                  \* mutant
CreatorWithout(rest) == IF rest = {} THEN NoConn ELSE creator_id

Detach(c) ==
  /\ pc[c] = "leaving" /\ lock = NoConn
  /\ inMap
  /\ participants' = participants \ {c}
  /\ creator_id' = CreatorWithout(participants')
  /\ IF c \in participants
     THEN Publish(PeerLeft(c), Subscribed)
     ELSE UNCHANGED receiver
  /\ Goto(c, "closed")
  /\ told' = [told EXCEPT ![c] = NoConn]
  /\ UNCHANGED <<db, inMap, lock, deleted, snapshot, view>>

(* After the expiry of the room there is no entry to detach from. *)
DetachGone(c) ==
  /\ pc[c] = "leaving" /\ lock = NoConn
  /\ ~inMap
  /\ Goto(c, "closed")
  /\ told' = [told EXCEPT ![c] = NoConn]
  /\ UNCHANGED <<db, room, lock, deleted, snapshot, view, receiver>>

-----------------------------------------------------------------------------
(* AppState::expire_inactive_rooms, run by the cleanup task *)

CleanupLock ==
  /\ lock = NoConn
  /\ lock' = Cleaner
  /\ UNCHANGED <<db, room, deleted, pc, told, snapshot, view, receiver>>

(* Mutant: rooms in use are never deleted. *)
CleanupDeleteUnused ==
  /\ lock = Cleaner /\ ~deleted
  /\ exists /\ stale /\ participants = {}
  /\ exists' = FALSE
  /\ deleted' = TRUE
  /\ UNCHANGED <<stale, room, lock, pc, told, snapshot, view, receiver>>

CleanupDelete ==
  /\ lock = Cleaner /\ ~deleted
  /\ exists /\ stale
  /\ exists' = FALSE
  /\ deleted' = TRUE
  /\ UNCHANGED <<stale, room, lock, pc, told, snapshot, view, receiver>>

(* The row is fresh or gone already, or the statement fails. *)
CleanupNothing ==
  /\ lock = Cleaner /\ ~deleted
  /\ lock' = NoConn
  /\ UNCHANGED <<db, room, deleted, pc, told, snapshot, view, receiver>>

(* Mutant: the entry is dropped without telling its receivers. *)
CleanupRemoveSilently ==
  /\ lock = Cleaner /\ deleted
  /\ inMap' = FALSE /\ creator_id' = NoConn /\ participants' = {}
  /\ lock' = NoConn /\ deleted' = FALSE
  /\ UNCHANGED <<db, pc, told, snapshot, view, receiver>>

CleanupRemove ==
  /\ lock = Cleaner /\ deleted
  /\ IF inMap THEN Publish(RoomExpired, Subscribed) ELSE UNCHANGED receiver
  /\ inMap' = FALSE /\ creator_id' = NoConn /\ participants' = {}
  /\ lock' = NoConn /\ deleted' = FALSE
  /\ UNCHANGED <<db, pc, told, snapshot, view>>

-----------------------------------------------------------------------------
(* The environment *)

(* Time passes until last_activity is older than the cutoff. *)
Age ==
  /\ stale' = TRUE
  /\ UNCHANGED <<exists, room, lock, deleted, pc, told, snapshot, view, receiver>>

(* The process dies and systemd starts it again: only the row survives. *)
Restart ==
  /\ inMap' = FALSE /\ creator_id' = NoConn /\ participants' = {}
  /\ lock' = NoConn /\ deleted' = FALSE
  /\ pc' = [c \in Conn |-> IF pc[c] = "new" THEN "new" ELSE "closed"]
  /\ told' = [c \in Conn |-> NoConn]
  /\ snapshot' = [c \in Conn |-> {}]
  /\ view' = [c \in Conn |-> {}]
  /\ queue' = [c \in Conn |-> <<>>]
  /\ lagged' = [c \in Conn |-> FALSE]
  /\ UNCHANGED db

Attach(c)  == AttachLock(c) \/ AttachRefused(c) \/ AttachFound(c) \/ AttachInsert(c)
Join(c)    == Joined(c) \/ JoinFull(c) \/ RoomGone(c)
Detached(c) == Detach(c) \/ DetachGone(c)
Session(c) ==
  \/ WelcomeSent(c) \/ KeysAccepted(c) \/ HandshakeFails(c)
  \/ PeerKeySent(c) \/ StartRelay(c)
  \/ Recv(c) \/ RecvLagged(c)
  \/ WriteControl(c) \/ WriteDone(c) \/ WriteEnds(c) \/ Disconnect(c)
  \/ ChatReceived(c) \/ UpdateActivity(c) \/ UpdateFails(c) \/ ChatSent(c)
  \/ Relayed(c)
Cleanup == CleanupLock \/ CleanupDelete \/ CleanupNothing \/ CleanupRemove

Next ==
  \/ \E c \in Conn : Attach(c) \/ Join(c) \/ Session(c) \/ Detached(c)
  \/ Cleanup \/ Age \/ Restart

Spec == Init /\ [][Next]_vars

-----------------------------------------------------------------------------
(* Safety *)

(* Every session that joined and has not ended is a participant, and every *)
(* participant is such a session or one that is about to detach: no exit   *)
(* path of handle_socket leaves a ghost that fills the room for ever.      *)
NoGhosts ==
  /\ inMap => Subscribed \subseteq participants
  /\ \A c \in participants : c \in Subscribed \/ pc[c] = "leaving"

(* join admits no one to a full room, however joins and detaches overlap.  *)
NeverOverfull == Cardinality(participants) <= MaxParticipants

(* "an expired room cannot be recreated" (state.rs, attach): once the row  *)
(* is gone the map has no entry, save while the cleanup that deleted the   *)
(* row still holds the lock.                                               *)
NeverResurrected == ~exists /\ inMap => lock = Cleaner /\ deleted

Has(s, e) == \E i \in 1..Len(s) : s[i] = e

(* Once the entry is removed, each session still running has room_expired  *)
(* ahead of it or has been cut off: no join slips in behind the removal to *)
(* wait in a room that will never speak again.                             *)
ExpiryReachesAll ==
  \A c \in Subscribed :
    ~inMap => lagged[c] \/ pc[c] = "expiring" \/ Has(queue[c], RoomExpired)

(* The peer_key, peer_joined and peer_left frames add up: a client of a    *)
(* live room that has read all its events knows exactly the other          *)
(* participants, wherever its join fell among theirs.                      *)
ViewConverges ==
  \A c \in Conn :
    inMap /\ pc[c] = "relay" /\ ~lagged[c] /\ queue[c] = <<>>
      => view[c] = participants \ {c}

(* No client is handed a message of a peer it has not been told of, or has *)
(* been told has left: it could not decrypt it.                            *)
SendersKnown ==
  \A c \in Conn :
    pc[c] = "relay" /\ ~lagged[c] /\ queue[c] # <<>> =>
      LET e == Head(queue[c])
      IN e.type \in RelayTypes /\ ~Skips(c, e) => e.from \in view[c]

(* The creator of a room does not change while the room has participants.  *)
CreatorStays ==
  participants # {} /\ participants' # {} /\ creator_id # NoConn
    => creator_id' = creator_id
CreatorStable == [][CreatorStays]_vars

-----------------------------------------------------------------------------
(* What the clients of a room are promised *)

Newcomers == {c \in Conn : pc[c] \in PreJoin}
Receiving == {c \in Subscribed : ~lagged[c]}
Coming == [c \in Receiving |->
             {q \in Conn \ {c} : q \in snapshot[c] \/ Has(queue[c], PeerJoined(q))}]
Met    == [c \in Receiving |-> view[c]]
Going  == [c \in Receiving |-> {q \in Conn \ {c} : Has(queue[c], PeerLeft(q))}]
Expired == ~exists /\ ~inMap

(* Whatever the order in which snapshot, peer_joined and peer_left frames  *)
(* are queued and written: each client is introduced to each other         *)
(* participant once, hears once and later that it left, or is cut off.     *)
Members == INSTANCE Membership WITH
  newcomers <- Newcomers, members <- participants, readers <- Receiving,
  coming <- Coming, known <- Met, going <- Going, expired <- Expired
ImplementsMembership == Members!Spec

-----------------------------------------------------------------------------
(* What tests say of the creator, and the code does not guarantee *)

(* Of two connections in a room, one is told that it is the creator and    *)
(* the other that it is not (tests/password_rooms.rs:670).                 *)
OneCreator ==
  \A c, d \in participants : told[c] = c /\ told[d] = d => c = d

(* "first joiner is the creator" (tests/ws_lifecycle.rs:154), even when it *)
(* has the room to itself: no other connection is attached.                *)
FirstJoinerIsCreator ==
  [][\A c \in Conn :
       /\ participants = {} /\ participants' = {c}
       /\ \A d \in Conn \ {c} : pc[d] \in {"new", "closed"}
       => told[c] = c]_vars

-----------------------------------------------------------------------------
(* Liveness *)

(* A task runs on unless it waits for the socket or for the lock.  The     *)
(* lock is a fair FIFO (tokio::sync::RwLock), so a task cannot be passed   *)
(* over for ever; select! polls its arms in random order, so neither can a *)
(* receiver with something to deliver.  The database answers every call.   *)
(* Nothing is assumed of sockets: a write may block for ever.              *)
TaskStep(c) ==
  \/ AttachRefused(c) \/ AttachFound(c) \/ AttachInsert(c)
  \/ KeysAccepted(c) \/ HandshakeFails(c) \/ Join(c) \/ Detached(c)
  \/ UpdateActivity(c) \/ UpdateFails(c) \/ ChatSent(c)
SessionFairness(c) ==
  SF_vars(TaskStep(c)) /\ SF_vars(Recv(c) \/ RecvLagged(c))

(* The interval of the cleanup task goes on ticking, and the DELETE does   *)
(* not fail every time.                                                    *)
CleanupFairness ==
  SF_vars(CleanupLock \/ CleanupNothing \/ CleanupRemove) /\ SF_vars(CleanupDelete)

FairSpec == Spec /\ CleanupFairness /\ \A c \in Conn : SessionFairness(c)

Blocked(c) == <>[](pc[c] \in Writing)

(* When the room is deleted every session of it ends and detaches, unless  *)
(* it hangs for ever in a write that nothing bounds.                       *)
DeletedRoomEmpties ==
  \A c \in Conn :
    (~exists /\ pc[c] # "new") ~> (pc[c] = "closed" \/ Blocked(c))

(* A receiver that was overrun gives its place back, unless it hangs so.   *)
SlowReaderLeaves ==
  \A c \in Conn : lagged[c] ~> (c \notin participants \/ Blocked(c))

(* What becomes of `exists` and `stale` is what Lifetime says of a row: a  *)
(* room that stays inactive is deleted, occupied or not, by a cleanup that *)
(* contends for the lock with every join and leave.                        *)
Table == INSTANCE Lifetime WITH
           Id  <- {"room"},
           row <- [r \in {"room"} |-> IF ~exists THEN "deleted"
                                      ELSE IF stale THEN "stale" ELSE "fresh"]
ImplementsTable == Table!FairSpec
=============================================================================
