-------------------------- MODULE HeartbeatProofs --------------------------
(***************************************************************************)
(* Proofs about Heartbeat, for all intervals and answers, and for arms     *)
(* that take any time.                                                     *)
(*                                                                         *)
(* The argument: no tick is taken before it is due.  So the next one is    *)
(* due an interval after the last pong at the most, or two if a ping has   *)
(* been written since; and what an interval was spent on, if not on the    *)
(* answer, is the writing of the ping or the reading of the pong.          *)
(***************************************************************************)
EXTENDS Heartbeat, TLAPS

(* The ticks and the last pong. *)
SilenceInv ==
  /\ last_pong <= clock
  /\ phase # "closed" =>
       /\ due <= clock + PingInterval
       /\ due <= last_pong + 2 * PingInterval
  /\ phase \in {"select", "busy"} /\ ~waiting_for_pong => due <= last_pong + PingInterval

(* What waiting_for_pong says of the last ping. *)
PingInv ==
  waiting_for_pong /\ phase # "closed" => last_pong <= pinged /\ pinged <= clock

(* The answer of a client that answers. *)
AnswerInv ==
  /\ phase # "closed" /\ ~silent /\ owes => clock <= pinged + Answer
  /\ \A a \in unread : a <= clock
  /\ phase # "closed" /\ ~silent /\ waiting_for_pong =>
       owes \/ \E a \in unread : a <= pinged + Answer
  /\ timedOut => phase = "closed"

IInv == TypeOK /\ SilenceInv /\ PingInv /\ AnswerInv /\ AnsweringClientKept

LEMMA InitInv == Init => IInv
<1>. SUFFICES ASSUME Init PROVE IInv OBVIOUS
<1>1. TypeOK /\ PingInv /\ AnswerInv /\ AnsweringClientKept
  BY IntervalAssumption DEF Init, TypeOK, PingInv, AnswerInv, AnsweringClientKept
<1>2. SilenceInv
  BY IntervalAssumption DEF Init, SilenceInv
<1>. QED BY <1>1, <1>2 DEF IInv

(* A tick that finds a ping of a client that answers unanswered: an        *)
(* interval has gone by since the tick of that ping.                       *)
LEMMA Overtaken ==
  ASSUME IInv, phase = "select", waiting_for_pong, clock >= due, ~silent
  PROVE  \E wait \in PongDelays \cup {0} : pinged + Answer + wait >= due
<1>1. clock \in Int /\ due \in Int /\ pinged \in Int /\ unread \in SUBSET Nat
  BY DEF IInv, TypeOK
<1>2. CASE owes
  <2>1. clock <= pinged + Answer BY <1>2 DEF IInv, AnswerInv
  <2>2. pinged + Answer + 0 >= due BY <1>1, <2>1, IntervalAssumption
  <2>. QED BY <2>2
<1>3. CASE \E a \in unread : a <= pinged + Answer
  <2>1. PICK a \in unread : a <= pinged + Answer BY <1>3
  <2>2. a \in Int /\ clock - a \in PongDelays BY <1>1, <2>1 DEF PongDelays
  <2>3. pinged + Answer + (clock - a) >= due BY <1>1, <2>1, <2>2, IntervalAssumption
  <2>. QED BY <2>2, <2>3
<1>. QED BY <1>2, <1>3 DEF IInv, AnswerInv

LEMMA StepInv == IInv /\ [Next]_vars => IInv'
<1>. SUFFICES ASSUME IInv, [Next]_vars PROVE IInv' OBVIOUS
<1>. USE IntervalAssumption DEF client
<1>1. CASE Tick
  <2>1. Expired \in BOOLEAN BY DEF IInv, TypeOK, Expired
  <2>2. TypeOK' BY <1>1, <2>1 DEF IInv, TypeOK, Tick, Scheduled
  <2>3. SilenceInv'
    BY <1>1 DEF IInv, TypeOK, SilenceInv, Tick, Scheduled, Expired
  <2>4. PingInv' BY <1>1 DEF IInv, PingInv, Tick
  <2>5. AnswerInv' BY <1>1 DEF IInv, AnswerInv, Tick
  <2>6. AnsweringClientKept'
    <3>. SUFFICES ASSUME Expired, ~silent
                  PROVE  \E wait \in PongDelays \cup {0} :
                           PingDelay' + Answer + wait >= PingInterval
      BY <1>1 DEF Tick, AnsweringClientKept, PongDelays
    <3>1. PICK wait \in PongDelays \cup {0} : pinged + Answer + wait >= due
      BY <1>1, Overtaken DEF Tick, Expired
    <3>2. wait \in Int BY DEF IInv, TypeOK, PongDelays
    <3>3. PingDelay' = pinged - due + PingInterval
      BY <1>1 DEF Tick, Scheduled, PingDelay, IInv, TypeOK
    <3>4. PingDelay' + Answer + wait >= PingInterval
      BY <3>1, <3>2, <3>3 DEF IInv, TypeOK
    <3>. QED BY <3>4
  <2>. QED BY <2>2, <2>3, <2>4, <2>5, <2>6 DEF IInv
<1>2. CASE PingWritten
  <2>1. TypeOK' BY <1>2 DEF IInv, TypeOK, PingWritten
  <2>2. SilenceInv' /\ PingInv'
    BY <1>2 DEF IInv, TypeOK, SilenceInv, PingInv, PingWritten
  <2>3. AnswerInv' BY <1>2 DEF IInv, TypeOK, AnswerInv, PingWritten
  <2>4. AnsweringClientKept'
    BY <1>2 DEF IInv, AnswerInv, AnsweringClientKept, PingWritten
  <2>. QED BY <2>1, <2>2, <2>3, <2>4 DEF IInv
<1>3. CASE PongRead
  <2>1. TypeOK' BY <1>3 DEF IInv, TypeOK, PongRead
  <2>2. SilenceInv' /\ PingInv'
    BY <1>3 DEF IInv, TypeOK, SilenceInv, PingInv, PongRead
  <2>3. AnswerInv' BY <1>3 DEF IInv, AnswerInv, PongRead
  <2>4. AnsweringClientKept' BY <1>3 DEF IInv, AnswerInv, AnsweringClientKept, PongRead
  <2>. QED BY <2>1, <2>2, <2>3, <2>4 DEF IInv
<1>4. CASE OtherArm
  <2>1. TypeOK' BY <1>4 DEF IInv, TypeOK, OtherArm
  <2>2. SilenceInv' /\ PingInv' BY <1>4 DEF IInv, TypeOK, SilenceInv, PingInv, OtherArm
  <2>3. AnswerInv' BY <1>4 DEF IInv, AnswerInv, OtherArm
  <2>4. AnsweringClientKept' BY <1>4 DEF IInv, AnswerInv, AnsweringClientKept, OtherArm
  <2>. QED BY <2>1, <2>2, <2>3, <2>4 DEF IInv
<1>5. CASE ArmDone
  <2>1. TypeOK' BY <1>5 DEF IInv, TypeOK, ArmDone
  <2>2. SilenceInv' /\ PingInv' BY <1>5 DEF IInv, TypeOK, SilenceInv, PingInv, ArmDone
  <2>3. AnswerInv' BY <1>5 DEF IInv, AnswerInv, ArmDone
  <2>4. AnsweringClientKept' BY <1>5 DEF IInv, AnswerInv, AnsweringClientKept, ArmDone
  <2>. QED BY <2>1, <2>2, <2>3, <2>4 DEF IInv
<1>6. CASE LoopEnds
  <2>1. TypeOK' /\ SilenceInv' /\ PingInv'
    BY <1>6 DEF IInv, TypeOK, SilenceInv, PingInv, LoopEnds
  <2>2. AnswerInv' /\ AnsweringClientKept'
    BY <1>6 DEF IInv, AnswerInv, AnsweringClientKept, LoopEnds
  <2>. QED BY <2>1, <2>2 DEF IInv
<1>7. CASE PongArrives
  <2>1. TypeOK' /\ SilenceInv' /\ PingInv'
    BY <1>7 DEF IInv, TypeOK, SilenceInv, PingInv, PongArrives
  <2>2. ASSUME waiting_for_pong PROVE \E a \in unread' : a <= pinged + Answer
    <3>1. CASE owes
      <4>1. clock <= pinged + Answer BY <1>7, <3>1 DEF IInv, AnswerInv, PongArrives
      <4>2. clock \in unread' BY <1>7 DEF PongArrives
      <4>. QED BY <4>1, <4>2
    <3>2. CASE ~owes
      BY <1>7, <2>2, <3>2 DEF IInv, AnswerInv, PongArrives
    <3>. QED BY <3>1, <3>2
  <2>3. AnswerInv' BY <1>7, <2>2 DEF IInv, TypeOK, AnswerInv, PongArrives
  <2>4. AnsweringClientKept' BY <1>7 DEF IInv, AnswerInv, AnsweringClientKept, PongArrives
  <2>. QED BY <2>1, <2>3, <2>4 DEF IInv
<1>8. CASE FallsSilent
  <2>1. TypeOK' /\ SilenceInv' /\ PingInv'
    BY <1>8 DEF IInv, TypeOK, SilenceInv, PingInv, FallsSilent
  <2>2. AnswerInv' /\ AnsweringClientKept'
    BY <1>8 DEF IInv, AnswerInv, AnsweringClientKept, FallsSilent
  <2>. QED BY <2>1, <2>2 DEF IInv
<1>9. CASE Advance
  <2>1. TypeOK' BY <1>9 DEF IInv, TypeOK, Advance
  <2>2. SilenceInv' /\ PingInv' BY <1>9 DEF IInv, TypeOK, SilenceInv, PingInv, Advance
  <2>3. AnswerInv' BY <1>9 DEF IInv, TypeOK, AnswerInv, Advance
  <2>4. AnsweringClientKept' BY <1>9 DEF IInv, AnswerInv, AnsweringClientKept, Advance
  <2>. QED BY <2>1, <2>2, <2>3, <2>4 DEF IInv
<1>10. CASE UNCHANGED vars
  <2>1. TypeOK' /\ SilenceInv' /\ PingInv'
    BY <1>10 DEF IInv, TypeOK, SilenceInv, PingInv, vars
  <2>2. AnswerInv' /\ AnsweringClientKept'
    BY <1>10 DEF IInv, AnswerInv, AnsweringClientKept, PingDelay, PongDelays, vars
  <2>. QED BY <2>1, <2>2 DEF IInv
<1>. QED BY <1>1, <1>2, <1>3, <1>4, <1>5, <1>6, <1>7, <1>8, <1>9, <1>10 DEF Next

LEMMA Invariant == Spec => []IInv
<1>1. Init => IInv BY InitInv
<1>2. IInv /\ [Next]_vars => IInv' BY StepInv
<1>. QED BY <1>1, <1>2, PTL DEF Spec

(* Times are natural numbers, the schedule of the interval included.       *)
THEOREM TypeCorrect == Spec => []TypeOK
<1>1. IInv => TypeOK BY DEF IInv
<1>. QED BY Invariant, <1>1, PTL

(* A client that answers is dropped only after the server has used up the  *)
(* interval, the time of the answer aside, on late pings and unread pongs. *)
THEOREM KeepsAnswering == Spec => []AnsweringClientKept
<1>1. IInv => AnsweringClientKept BY DEF IInv
<1>. QED BY Invariant, <1>1, PTL

(* A session outlives its last pong by two intervals, and beyond that only *)
(* by what the loop has not come to.                                       *)
THEOREM SilenceIsBounded == Spec => []SilenceBounded
<1>1. IInv => SilenceBounded
  BY IntervalAssumption DEF IInv, TypeOK, SilenceInv, SilenceBounded
<1>. QED BY Invariant, <1>1, PTL

(* One unanswered ping that was written in time ends the session.          *)
THEOREM OneMissIsEnough == Spec => []OneMissEnds
<1>1. IInv => OneMissEnds
  BY IntervalAssumption DEF IInv, TypeOK, PingInv, OneMissEnds, Expired
<1>. QED BY Invariant, <1>1, PTL
=============================================================================
