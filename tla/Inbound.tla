------------------------------ MODULE Inbound ------------------------------
(***************************************************************************)
(* The text frames of one session after its handshake, in the third arm of *)
(* the relay loop (src/src/routes/ws.rs): the RateLimiter, the parsing and *)
(* what is relayed.  A frame over the rate is dropped without a word to    *)
(* its sender, whatever it says; so what matters is which frames can be.   *)
(*                                                                         *)
(* The unit of time is the Cost-th part of the time in which one token     *)
(* accrues, and tokens are counted in Cost-th parts: refilling adds one to *)
(* one unit of time, and what the code computes in f64 is exact here.      *)
(* Ping, Pong, Binary and Close frames are not counted.                    *)
(***************************************************************************)
EXTENDS Integers

CONSTANTS
  Capacity,   \* MSG_RATE_CAPACITY: 60 tokens
  Cost,       \* one token; MSG_RATE_REFILL_PER_SEC = 30 of them accrue in 1 s
  MaxClock    \* bound of the clock

ASSUME NumberAssumption ==
  Capacity \in Nat /\ Cost \in Nat \ {0} /\ MaxClock \in Nat

VARIABLES
  clock,
  tokens, last_refill,   \* RateLimiter
  outcome,               \* what became of the last text frame, at this time
  accepted               \* history: frames the limiter let through since a time

limiter == <<tokens, last_refill>>
vars    == <<clock, limiter, outcome, accepted>>

Time == 0..MaxClock

(* A text frame: the tag, and whether the fields its arm asks for are      *)
(* there.  "garbage" is no JSON object of a known shape.                   *)
Relayable == {"message", "tree_commit", "tree_welcome", "typing"}
Frame == [type : Relayable \cup {"key_announce", "unknown", "garbage"}, complete : BOOLEAN]

TypeOK ==
  /\ clock \in Time /\ last_refill \in Time /\ tokens \in 0..Capacity
  /\ outcome \in {"none", "dropped", "ignored", "relayed"}
  /\ accepted \in [Time -> Nat]

Init ==
  /\ clock = 0
  /\ tokens = Capacity /\ last_refill = 0
  /\ outcome = "none"
  /\ accepted = [s \in Time |-> 0]

-----------------------------------------------------------------------------
(* RateLimiter::check *)

RefilledUncapped == tokens + (clock - last_refill)                   \* mutant
Refilled ==
  LET sum == tokens + (clock - last_refill)
  IN IF sum < Capacity THEN sum ELSE Capacity

(* Mutant: the time of the refill is noted only when a token is spent. *)
RefuseUntimed ==
  /\ Refilled < Cost
  /\ tokens' = Refilled
  /\ outcome' = "dropped"
  /\ UNCHANGED <<last_refill, accepted>>

(* Mutant: a refused frame forfeits what had accrued. *)
RefuseForfeits ==
  /\ Refilled < Cost
  /\ tokens' = 0 /\ last_refill' = clock
  /\ outcome' = "dropped"
  /\ UNCHANGED accepted

Refuse ==
  /\ Refilled < Cost
  /\ tokens' = Refilled /\ last_refill' = clock
  /\ outcome' = "dropped"
  /\ UNCHANGED accepted

(* `typing` has no field that could be missing. *)
Relays(f) == f.type \in Relayable /\ (f.complete \/ f.type = "typing")

(* A frame that says nothing has spent its token all the same. *)
Accept(f) ==
  /\ Refilled >= Cost
  /\ tokens' = Refilled - Cost /\ last_refill' = clock
  /\ outcome' = IF Relays(f) THEN "relayed" ELSE "ignored"
  /\ accepted' = [s \in Time |-> IF s <= clock THEN accepted[s] + 1 ELSE accepted[s]]

TextFrame(f) == (Accept(f) \/ Refuse) /\ UNCHANGED clock

Advance ==
  /\ clock < MaxClock
  /\ clock' = clock + 1
  /\ outcome' = "none"
  /\ UNCHANGED <<limiter, accepted>>

Next == Advance \/ \E f \in Frame : TextFrame(f)

Spec == Init /\ [][Next]_vars

-----------------------------------------------------------------------------
(* Safety *)

(* "30 messages/sec sustained, bursts up to 60" (ws.rs:60): in no window,  *)
(* wherever it starts, are more frames let through than one full bucket    *)
(* and what accrues in it.                                                 *)
RateBounded ==
  \A s \in 0..clock : Cost * accepted[s] <= Capacity + (clock - s)

(* A frame is dropped only if with it some window would hold more than a   *)
(* full bucket and what accrues in it: who keeps to the rate loses neither *)
(* a chat message nor a tree_commit, however lazily the bucket is refilled.*)
DroppedOnlyOverRate ==
  outcome = "dropped" =>
    \E s \in 0..clock : Cost * (accepted[s] + 1) > Capacity + (clock - s)

-----------------------------------------------------------------------------
(* Refilling at each check is as good as filling all the time *)

Abstract == INSTANCE Bucket WITH
              level   <- Refilled,
              verdict <- CASE outcome = "none" -> "none"
                           [] outcome = "dropped" -> "refused"
                           [] OTHER -> "taken"
ImplementsBucket == Abstract!Spec
=============================================================================
