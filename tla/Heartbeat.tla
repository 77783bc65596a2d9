----------------------------- MODULE Heartbeat -----------------------------
(***************************************************************************)
(* The heartbeat of the relay loop of handle_socket                        *)
(* (src/src/routes/ws.rs): the tick arm of its select!, the Pong arm, and  *)
(* a client that answers pings or no longer does.                          *)
(*                                                                         *)
(* The code bounds no arm: a write to a slow client (the ping itself too)  *)
(* and the UPDATE of a chat message take as long as they take.  Meanwhile  *)
(* ticks fall due, one on another, and pongs wait in the socket.  Of what  *)
(* the other arms do only that is modelled here.                           *)
(***************************************************************************)
EXTENDS Integers, FiniteSets

CONSTANTS
  PingInterval,  \* PING_INTERVAL: 30 s
  PongTimeout,   \* PONG_TIMEOUT: 10 s
  Answer,        \* longest time a client takes to answer the last ping
  MaxUnread,     \* bound of the unsolicited pongs in the socket
  MaxClock       \* bound of the clock

ASSUME IntervalAssumption ==
  /\ PingInterval \in Nat /\ PongTimeout \in Nat /\ PongTimeout <= PingInterval
  /\ Answer \in Nat /\ MaxUnread \in Nat /\ MaxClock \in Nat

VARIABLES
  clock,             \* Instant::now(), from the start of the loop
  phase,             \* "select", "pinging" while the ping is written, "busy"
                     \* while another arm runs, "closed"
  due,               \* the next tick of ping_interval
  last_pong,
  waiting_for_pong,
  pinged,            \* when the last ping was written
  owes,              \* the client has not answered that ping
  unread,            \* when the pongs that wait in the socket arrived
  silent,            \* the client has stopped answering
  timedOut           \* the loop has ended for want of a pong

client == <<owes, unread, silent>>
vars   == <<clock, phase, due, last_pong, waiting_for_pong, pinged, client, timedOut>>

TypeOK ==
  /\ clock \in Nat /\ due \in Nat /\ last_pong \in Nat /\ pinged \in Nat
  /\ phase \in {"select", "pinging", "busy", "closed"}
  /\ waiting_for_pong \in BOOLEAN /\ owes \in BOOLEAN
  /\ silent \in BOOLEAN /\ timedOut \in BOOLEAN
  /\ unread \in SUBSET Nat

(* The first tick of an interval is due at once. *)
Init ==
  /\ clock = 0 /\ phase = "select" /\ due = 0
  /\ last_pong = 0 /\ waiting_for_pong = FALSE
  /\ pinged = 0 /\ owes = FALSE /\ unread = {} /\ silent = FALSE
  /\ timedOut = FALSE

-----------------------------------------------------------------------------
(* The loop *)

(* Mutant: MissedTickBehavior::Delay, the schedule starts anew. *)
ScheduledAnew == due' = clock + PingInterval
(* MissedTickBehavior::Burst: the ticks keep to their schedule, and those  *)
(* that were missed come one on another.                                   *)
Scheduled == due' = due + PingInterval

Expired == waiting_for_pong /\ clock - last_pong > PongTimeout

Tick ==
  /\ phase = "select" /\ clock >= due
  /\ Scheduled
  /\ phase' = IF Expired THEN "closed" ELSE "pinging"
  /\ timedOut' = Expired
  /\ UNCHANGED <<clock, last_pong, waiting_for_pong, pinged, client>>

PingWritten ==
  /\ phase = "pinging"
  /\ phase' = "select"
  /\ waiting_for_pong' = TRUE
  /\ pinged' = clock /\ owes' = TRUE
  /\ UNCHANGED <<clock, due, last_pong, unread, silent, timedOut>>

Oldest == CHOOSE a \in unread : \A b \in unread : a <= b

(* Mutant: the time of the pong is noted, the flag is not cleared. *)
PongNoted ==
  /\ phase = "select"
  /\ unread # {} /\ unread' = unread \ {Oldest}
  /\ last_pong' = clock
  /\ UNCHANGED <<clock, phase, due, waiting_for_pong, pinged, owes, silent, timedOut>>

PongRead ==
  /\ phase = "select"
  /\ unread # {} /\ unread' = unread \ {Oldest}
  /\ last_pong' = clock
  /\ waiting_for_pong' = FALSE
  /\ UNCHANGED <<clock, phase, due, pinged, owes, silent, timedOut>>

(* A room event is written to the client, a message is handled, a ping of  *)
(* the client is answered.  What holds up the task itself is counted here. *)
OtherArm ==
  /\ phase = "select" /\ phase' = "busy"
  /\ UNCHANGED <<clock, due, last_pong, waiting_for_pong, pinged, client, timedOut>>

ArmDone ==
  /\ phase = "busy" /\ phase' = "select"
  /\ UNCHANGED <<clock, due, last_pong, waiting_for_pong, pinged, client, timedOut>>

(* A write fails, the client closes, the room expires. *)
LoopEnds ==
  /\ phase # "closed"
  /\ phase' = "closed"
  /\ UNCHANGED <<clock, due, last_pong, waiting_for_pong, pinged, client, timedOut>>

-----------------------------------------------------------------------------
(* The client, and time *)

(* A pong arrives, as an answer or unsolicited.  A client may answer only  *)
(* the last of several pings (RFC 6455, 5.5.3).                            *)
PongArrives ==
  /\ phase # "closed" /\ ~silent
  /\ owes \/ Cardinality(unread) < MaxUnread
  /\ unread' = unread \cup {clock}
  /\ owes' = FALSE
  /\ UNCHANGED <<clock, phase, due, last_pong, waiting_for_pong, pinged, silent, timedOut>>

FallsSilent ==
  /\ ~silent /\ silent' = TRUE
  /\ UNCHANGED <<clock, phase, due, last_pong, waiting_for_pong, pinged, owes, unread, timedOut>>

(* The loop waits in select! only while no arm is ready. *)
Ready == clock >= due \/ unread # {}

Advance ==
  /\ clock < MaxClock
  /\ phase # "closed"
  /\ phase = "select" => ~Ready
  /\ ~silent /\ owes => clock < pinged + Answer
  /\ clock' = clock + 1
  /\ UNCHANGED <<phase, due, last_pong, waiting_for_pong, pinged, client, timedOut>>

Next ==
  \/ Tick \/ PingWritten \/ PongRead \/ OtherArm \/ ArmDone \/ LoopEnds
  \/ PongArrives \/ FallsSilent \/ Advance

Spec == Init /\ [][Next]_vars

-----------------------------------------------------------------------------
(* Safety *)

(* How late the last ping was written, after the tick before the one that  *)
(* closed the session (due has moved past both).                           *)
PingDelay == pinged - (due - 2 * PingInterval)

(* How long the pongs wait that the loop has not come to.                  *)
PongDelays == {clock - a : a \in unread}

(* A client that answers within Answer is dropped for want of a pong only  *)
(* if the server took the rest of the interval itself, with an arm that    *)
(* kept the last ping or a pong of the client waiting.  A loop that is not *)
(* held up drops none: no tick overtakes an answer.                        *)
AnsweringClientKept ==
  timedOut /\ ~silent =>
    \E wait \in PongDelays \cup {0} : PingDelay + Answer + wait >= PingInterval

(* A session is kept two intervals after its last pong at the most, unless *)
(* a tick is due that the loop has not come to: after an arm that took     *)
(* longer than an interval the ticks of the burst make up for it.          *)
SilenceBounded ==
  phase # "closed" /\ clock < due => clock < last_pong + 2 * PingInterval

(* PONG_TIMEOUT spares nobody whose ping was written in time: a tick that  *)
(* finds the last ping unanswered and goes on has come within PONG_TIMEOUT *)
(* of that ping, so that the one belongs to a burst with the other.        *)
OneMissEnds ==
  phase = "select" /\ waiting_for_pong /\ clock >= due /\ ~Expired
    => due <= pinged + PongTimeout
=============================================================================
