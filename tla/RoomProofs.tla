----------------------------- MODULE RoomProofs -----------------------------
(***************************************************************************)
(* Theorems about Room, for every set of connections, every                *)
(* MaxParticipants and every broadcast capacity.                           *)
(***************************************************************************)
EXTENDS Room, FiniteSetTheorems, TLAPS

-----------------------------------------------------------------------------
(* What Publish does to one receiver. *)

LEMMA PublishType ==
  ASSUME TypeOK, NEW e \in Events, NEW R, Publish(e, R)
  PROVE  /\ queue' \in [Conn -> Seq(Events)]
         /\ lagged' \in [Conn -> BOOLEAN]
         /\ \A c \in Conn : Len(queue'[c]) <= Capacity
<1> USE BoundsAssumption
<1>1. \A c \in Conn : Append(queue[c], e) \in Seq(Events)
  BY DEF TypeOK
<1>2. queue' \in [Conn -> Seq(Events)]
  BY <1>1 DEF TypeOK, Publish
<1>3. lagged' \in [Conn -> BOOLEAN]
  BY DEF TypeOK, Publish
<1>4. ASSUME NEW c \in Conn PROVE Len(queue'[c]) <= Capacity
  <2>1. CASE queue'[c] = <<>>
    BY <2>1
  <2>2. CASE queue'[c] = queue[c]
    BY <2>2 DEF TypeOK
  <2>3. CASE queue'[c] = Append(queue[c], e) /\ ~Full(c)
    <3>1. Len(queue'[c]) = Len(queue[c]) + 1
      BY <2>3 DEF TypeOK
    <3>2. Len(queue[c]) \in Nat /\ ~(Len(queue[c]) >= Capacity)
      BY <2>3 DEF TypeOK, Full
    <3> QED
      BY <3>1, <3>2
  <2> QED
    BY <2>1, <2>2, <2>3 DEF Publish
<1> QED
  BY <1>2, <1>3, <1>4

LEMMA EventTypes ==
  /\ \A c \in Conn : PeerJoined(c) \in Events /\ PeerLeft(c) \in Events
  /\ RoomExpired \in Events
  /\ \A t \in RelayTypes, c \in Conn, to \in Conn \cup {NoConn} : Event(t, c, to) \in Events
BY DEF Event, Events

LEMMA LeaveType ==
  ASSUME TypeOK, NEW c \in Conn, Leave(c)
  PROVE  /\ pc' \in [Conn -> Places]
         /\ snapshot' \in [Conn -> SUBSET Conn]
         /\ view' \in [Conn -> SUBSET Conn]
         /\ queue' \in [Conn -> Seq(Events)]
         /\ \A d \in Conn : Len(queue'[d]) <= Capacity
         /\ lagged' \in [Conn -> BOOLEAN]
<1> USE BoundsAssumption
<1>1. queue' \in [Conn -> Seq(Events)] /\ \A d \in Conn : Len(queue'[d]) <= Capacity
  BY DEF TypeOK, Leave
<1> QED
  BY <1>1 DEF TypeOK, Leave, Goto, Places

LEMMA InitType == Init => TypeOK
<1> SUFFICES ASSUME Init PROVE TypeOK
  OBVIOUS
<1>1. <<>> \in Seq(Events) /\ Len(<<>>) <= Capacity
  BY BoundsAssumption
<1>2. queue \in [Conn -> Seq(Events)] /\ \A c \in Conn : Len(queue[c]) <= Capacity
  BY <1>1 DEF Init
<1> QED
  BY <1>2 DEF Init, TypeOK, Places

LEMMA StepType ==
  ASSUME TypeOK, [Next]_vars
  PROVE  TypeOK'
<1> USE DEF db, room, receiver
<1>1. CASE UNCHANGED vars
  BY <1>1 DEF vars, TypeOK
<1>2. ASSUME NEW c \in Conn, Attach(c) \/ Join(c) \/ Session(c) \/ Detached(c)
      PROVE  TypeOK'
  <2> USE DEF Goto, Places, Writing, Relaying
  <2>1. CASE AttachLock(c) \/ AttachRefused(c) \/ AttachFound(c)
    BY <2>1 DEF TypeOK, AttachLock, AttachRefused, AttachFound
  <2>14. CASE AttachInsert(c)
    <3>1. creator_id' \in Conn \cup {NoConn}
      BY <2>14 DEF TypeOK, AttachInsert
    <3> QED
      BY <2>14, <3>1 DEF TypeOK, AttachInsert
  <2>2. CASE WelcomeSent(c) \/ KeysAccepted(c) \/ StartRelay(c) \/ JoinFull(c)
    BY <2>2 DEF TypeOK, WelcomeSent, KeysAccepted, StartRelay, JoinFull
  <2>3. CASE HandshakeFails(c) \/ RoomGone(c) \/ RecvLagged(c) \/ WriteEnds(c) \/ Disconnect(c)
    BY <2>3, LeaveType DEF TypeOK, HandshakeFails, RoomGone, RecvLagged, WriteEnds, Disconnect
  <2>4. CASE Joined(c)
    BY <2>4, EventTypes, PublishType DEF TypeOK, Joined
  <2>5. CASE PeerKeySent(c)
    BY <2>5 DEF TypeOK, PeerKeySent
  <2>6. CASE Recv(c)
    <3>1. /\ Head(queue[c]) \in Events /\ Tail(queue[c]) \in Seq(Events)
          /\ Len(Tail(queue[c])) <= Capacity
      BY <2>6, BoundsAssumption DEF TypeOK, Recv
    <3>2. /\ queue' \in [Conn -> Seq(Events)]
          /\ \A d \in Conn : Len(queue'[d]) <= Capacity
      BY <2>6, <3>1 DEF TypeOK, Recv
    <3>3. ViewAfter(view[c], Head(queue[c])) \in SUBSET Conn
      <4> DEFINE e == Head(queue[c])
      <4>1. e.type = "peer_joined" => e.from \in Conn
        BY <3>1 DEF Events, RoomExpired, PeerJoined, PeerLeft, Event
      <4>2. view[c] \in SUBSET Conn
        BY DEF TypeOK
      <4> QED
        BY <4>1, <4>2 DEF ViewAfter
    <3>4. view' \in [Conn -> SUBSET Conn] /\ pc' \in [Conn -> Places]
      BY <2>6, <3>3 DEF TypeOK, Recv
    <3> QED
      BY <2>6, <3>2, <3>4 DEF TypeOK, Recv
  <2>7. CASE WriteControl(c) \/ WriteDone(c) \/ ChatReceived(c)
    BY <2>7 DEF TypeOK, WriteControl, WriteDone, ChatReceived
  <2>8. CASE UpdateActivity(c) \/ UpdateFails(c)
    BY <2>8 DEF TypeOK, UpdateActivity, UpdateFails
  <2>9. CASE ChatSent(c)
    BY <2>9, EventTypes, PublishType DEF TypeOK, ChatSent, RelayTypes
  <2>10. CASE Relayed(c)
    BY <2>10, EventTypes, PublishType, FramesAssumption DEF TypeOK, Relayed
  <2>11. CASE Detach(c) /\ c \in participants
    BY <2>11, EventTypes, PublishType DEF TypeOK, Detach, CreatorWithout
  <2>12. CASE Detach(c) /\ c \notin participants
    BY <2>12 DEF TypeOK, Detach, CreatorWithout
  <2>13. CASE DetachGone(c)
    BY <2>13 DEF TypeOK, DetachGone
  <2> QED
    BY <1>2, <2>1, <2>2, <2>3, <2>4, <2>5, <2>6, <2>7, <2>8, <2>9, <2>10, <2>11,
       <2>12, <2>13, <2>14
       DEF Attach, Join, Session, Detached
<1>3. CASE CleanupLock \/ CleanupDelete \/ CleanupNothing
  BY <1>3 DEF TypeOK, CleanupLock, CleanupDelete, CleanupNothing
<1>4. CASE CleanupRemove
  BY <1>4, EventTypes, PublishType DEF TypeOK, CleanupRemove
<1>5. CASE Age
  BY <1>5 DEF TypeOK, Age
<1>6. CASE Restart
  <2>1. <<>> \in Seq(Events) /\ Len(<<>>) <= Capacity
    BY BoundsAssumption
  <2>2. queue' \in [Conn -> Seq(Events)] /\ \A c \in Conn : Len(queue'[c]) <= Capacity
    BY <1>6, <2>1 DEF Restart
  <2> QED
    BY <1>6, <2>2 DEF TypeOK, Restart, Places
<1> QED
  BY <1>1, <1>2, <1>3, <1>4, <1>5, <1>6 DEF Next, Cleanup

-----------------------------------------------------------------------------
(* Sequences of events, as a receiver of the broadcast channel reads them. *)

(* q is not announced again after it was reported gone. *)
LeftForGood(s, q) ==
  \A i, j \in 1..Len(s) : i < j /\ s[i] = PeerLeft(q) => s[j] # PeerJoined(q)

FromPeer(e, q) == e.type \in RelayTypes /\ e.from = q

(* A client that knows the peers K and reads s knows q whenever it reads a *)
(* message of q.                                                           *)
Introduced(s, K, q) ==
  \A i \in 1..Len(s) : FromPeer(s[i], q) =>
    /\ q \in K \/ \E j \in 1..i-1 : s[j] = PeerJoined(q)
    /\ \A j \in 1..i-1 : s[j] # PeerLeft(q)

LEMMA AppendFacts ==
  ASSUME NEW s \in Seq(Events), NEW e \in Events
  PROVE  /\ Append(s, e) \in Seq(Events)
         /\ Len(Append(s, e)) = Len(s) + 1
         /\ Append(s, e)[Len(s) + 1] = e
         /\ \A i \in 1..Len(s) : Append(s, e)[i] = s[i]
OBVIOUS

LEMMA TailFacts ==
  ASSUME NEW s \in Seq(Events), s # <<>>
  PROVE  /\ Tail(s) \in Seq(Events)
         /\ Len(s) \in Nat \ {0}
         /\ Head(s) = s[1]
         /\ Len(Tail(s)) = Len(s) - 1
         /\ \A i \in 1..Len(Tail(s)) : Tail(s)[i] = s[i + 1]
OBVIOUS

LEMMA HasEmpty == \A e : ~Has(<<>>, e)
BY DEF Has

LEMMA HasAppend ==
  ASSUME NEW s \in Seq(Events), NEW e \in Events, NEW x
  PROVE  Has(Append(s, e), x) <=> Has(s, x) \/ x = e
<1> DEFINE t == Append(s, e)
<1>1. Len(s) \in Nat
  OBVIOUS
<1>2. Has(t, x) => Has(s, x) \/ x = e
  BY <1>1, AppendFacts DEF Has
<1>3. Has(s, x) => Has(t, x)
  BY <1>1, AppendFacts DEF Has
<1>4. x = e => Has(t, x)
  BY <1>1, AppendFacts DEF Has
<1> QED
  BY <1>2, <1>3, <1>4

LEMMA HasTail ==
  ASSUME NEW s \in Seq(Events), s # <<>>, NEW x
  PROVE  Has(s, x) <=> Has(Tail(s), x) \/ x = Head(s)
<1> DEFINE t == Tail(s)
<1>1. ASSUME Has(s, x) PROVE Has(t, x) \/ x = Head(s)
  <2>1. PICK i \in 1..Len(s) : s[i] = x
    BY <1>1 DEF Has
  <2>2. CASE i = 1
    BY <2>1, <2>2, TailFacts
  <2>3. CASE i # 1
    <3>1. i - 1 \in 1..Len(t) /\ t[i - 1] = x
      BY <2>1, <2>3, TailFacts
    <3> QED
      BY <3>1 DEF Has
  <2> QED
    BY <2>2, <2>3
<1>2. ASSUME Has(t, x) PROVE Has(s, x)
  <2>1. PICK i \in 1..Len(t) : t[i] = x
    BY <1>2 DEF Has
  <2>2. i + 1 \in 1..Len(s) /\ s[i + 1] = x
    BY <2>1, TailFacts
  <2> QED
    BY <2>2 DEF Has
<1>3. ASSUME x = Head(s) PROVE Has(s, x)
  <2>1. 1 \in 1..Len(s) /\ s[1] = x
    BY <1>3, TailFacts
  <2> QED
    BY <2>1 DEF Has
<1> QED
  BY <1>1, <1>2, <1>3

LEMMA LeftForGoodAppend ==
  ASSUME NEW s \in Seq(Events), NEW e \in Events, NEW q,
         LeftForGood(s, q), e = PeerJoined(q) => ~Has(s, PeerLeft(q))
  PROVE  LeftForGood(Append(s, e), q)
<1> DEFINE t == Append(s, e)
<1> SUFFICES ASSUME NEW i \in 1..Len(t), NEW j \in 1..Len(t), i < j,
                    t[i] = PeerLeft(q)
             PROVE  t[j] # PeerJoined(q)
  BY DEF LeftForGood
<1>1. i \in 1..Len(s) /\ s[i] = PeerLeft(q)
  BY AppendFacts
<1>2. CASE j \in 1..Len(s)
  BY <1>1, <1>2, AppendFacts DEF LeftForGood
<1>3. CASE j = Len(s) + 1
  BY <1>1, <1>3, AppendFacts DEF Has
<1> QED
  BY <1>2, <1>3, AppendFacts

LEMMA LeftForGoodTail ==
  ASSUME NEW s \in Seq(Events), s # <<>>, NEW q, LeftForGood(s, q)
  PROVE  /\ LeftForGood(Tail(s), q)
         /\ Head(s) = PeerLeft(q) => ~Has(Tail(s), PeerJoined(q))
<1> DEFINE t == Tail(s)
<1>1. LeftForGood(t, q)
  <2> SUFFICES ASSUME NEW i \in 1..Len(t), NEW j \in 1..Len(t), i < j,
                      t[i] = PeerLeft(q)
               PROVE  t[j] # PeerJoined(q)
    BY DEF LeftForGood
  <2>1. /\ i + 1 \in 1..Len(s) /\ j + 1 \in 1..Len(s) /\ i + 1 < j + 1
        /\ s[i + 1] = PeerLeft(q) /\ t[j] = s[j + 1]
    BY TailFacts
  <2> QED
    BY <2>1 DEF LeftForGood
<1>2. ASSUME Head(s) = PeerLeft(q), NEW j \in 1..Len(t)
      PROVE  t[j] # PeerJoined(q)
  <2>1. 1 \in 1..Len(s) /\ j + 1 \in 1..Len(s) /\ s[1] = PeerLeft(q) /\ t[j] = s[j + 1]
    BY <1>2, TailFacts
  <2>2. 1 < j + 1
    OBVIOUS
  <2> QED
    BY <2>1, <2>2 DEF LeftForGood
<1> QED
  BY <1>1, <1>2 DEF Has

LEMMA IntroducedAppend ==
  ASSUME NEW s \in Seq(Events), NEW e \in Events, NEW K, NEW q,
         Introduced(s, K, q),
         FromPeer(e, q) =>
           (q \in K \/ Has(s, PeerJoined(q))) /\ ~Has(s, PeerLeft(q))
  PROVE  Introduced(Append(s, e), K, q)
<1> DEFINE t == Append(s, e)
<1> SUFFICES ASSUME NEW i \in 1..Len(t), FromPeer(t[i], q)
             PROVE  /\ q \in K \/ \E j \in 1..i-1 : t[j] = PeerJoined(q)
                    /\ \A j \in 1..i-1 : t[j] # PeerLeft(q)
  BY DEF Introduced
<1>1. \A j \in 1..i-1 : j \in 1..Len(s) /\ t[j] = s[j]
  BY AppendFacts
<1>2. CASE i \in 1..Len(s)
  <2>1. FromPeer(s[i], q)
    BY <1>2, AppendFacts
  <2> QED
    BY <1>1, <1>2, <2>1 DEF Introduced
<1>3. CASE i = Len(s) + 1
  <2>1. FromPeer(e, q)
    BY <1>3, AppendFacts
  <2>2. 1..i-1 = 1..Len(s)
    BY <1>3
  <2> QED
    BY <1>1, <2>1, <2>2 DEF Has
<1> QED
  BY <1>2, <1>3, AppendFacts

(* Reading one event: K becomes L, as ViewAfter has it. *)
LEMMA IntroducedTail ==
  ASSUME NEW s \in Seq(Events), s # <<>>, NEW K, NEW L, NEW q,
         Introduced(s, K, q),
         Head(s) = PeerJoined(q) => q \in L,
         Head(s) # PeerLeft(q) /\ q \in K => q \in L
  PROVE  /\ Introduced(Tail(s), L, q)
         /\ FromPeer(Head(s), q) => q \in K
<1> DEFINE t == Tail(s)
<1>1. ASSUME NEW i \in 1..Len(t), FromPeer(t[i], q)
      PROVE  /\ q \in L \/ \E j \in 1..i-1 : t[j] = PeerJoined(q)
             /\ \A j \in 1..i-1 : t[j] # PeerLeft(q)
  <2>1. i + 1 \in 1..Len(s) /\ FromPeer(s[i + 1], q) /\ 1 \in 1..i
    BY <1>1, TailFacts
  <2>2. /\ q \in K \/ \E j \in 1..i : s[j] = PeerJoined(q)
        /\ \A j \in 1..i : s[j] # PeerLeft(q)
    BY <2>1 DEF Introduced
  <2>3. \A j \in 1..i-1 : j + 1 \in 1..i /\ t[j] = s[j + 1]
    BY TailFacts
  <2>4. \A j \in 1..i-1 : t[j] # PeerLeft(q)
    BY <2>2, <2>3
  <2>5. s[1] # PeerLeft(q)
    BY <2>1, <2>2
  <2>6. CASE q \in K
    BY <2>4, <2>5, <2>6, TailFacts
  <2>7. ASSUME NEW j \in 1..i, s[j] = PeerJoined(q)
        PROVE  q \in L \/ \E k \in 1..i-1 : t[k] = PeerJoined(q)
    <3>1. CASE j = 1
      BY <2>7, <3>1, TailFacts
    <3>2. CASE j # 1
      <4>1. j - 1 \in 1..i-1 /\ t[j - 1] = s[j]
        BY <2>3, <3>2
      <4> QED
        BY <2>7, <4>1
    <3> QED
      BY <3>1, <3>2
  <2> QED
    BY <2>2, <2>4, <2>6, <2>7
<1>2. ASSUME FromPeer(Head(s), q) PROVE q \in K
  <2>1. 1 \in 1..Len(s) /\ FromPeer(s[1], q) /\ 1..1-1 = {}
    BY <1>2, TailFacts
  <2> QED
    BY <2>1 DEF Introduced
<1> QED
  BY <1>1, <1>2 DEF Introduced

-----------------------------------------------------------------------------
(* The lock: who holds it, and what holding it entails. *)

LockInv ==
  /\ \A c \in Conn : pc[c] \in {"attaching", "found"} <=> lock = c
  /\ \A c \in Conn : pc[c] = "found" => exists
  /\ deleted => lock = Cleaner /\ ~exists
  /\ NeverResurrected

LEMMA InitLock == Init => LockInv
BY ConnAssumption DEF Init, LockInv, NeverResurrected

LEMMA StepLock ==
  ASSUME TypeOK, LockInv, [Next]_vars
  PROVE  LockInv'
<1> USE ConnAssumption DEF db, room, LockInv, NeverResurrected
<1>1. CASE UNCHANGED vars
  BY <1>1 DEF vars
<1>2. ASSUME NEW c \in Conn, Attach(c) \/ Join(c) \/ Session(c) \/ Detached(c)
      PROVE  LockInv'
  <2> USE DEF Goto, TypeOK
  <2>1. CASE AttachLock(c)
    BY <2>1 DEF AttachLock
  <2>2. CASE AttachRefused(c)
    BY <2>2 DEF AttachRefused
  <2>3. CASE AttachFound(c)
    BY <2>3 DEF AttachFound
  <2>4. CASE AttachInsert(c)
    BY <2>4 DEF AttachInsert
  <2>5. ASSUME UNCHANGED <<exists, inMap, lock, deleted>>,
               \A d \in Conn : \/ pc'[d] = pc[d]
                               \/ {pc[d], pc'[d]} \cap {"attaching", "found"} = {}
        PROVE  LockInv'
    BY <2>5
  <2>6. CASE Join(c)
    BY <2>5, <2>6 DEF Join, Joined, JoinFull, RoomGone, Leave
  <2>7. CASE Detached(c)
    BY <2>5, <2>7 DEF Detached, Detach, DetachGone
  <2>8. CASE WelcomeSent(c) \/ KeysAccepted(c) \/ HandshakeFails(c) \/ PeerKeySent(c)
             \/ StartRelay(c) \/ RecvLagged(c) \/ Disconnect(c) \/ ChatReceived(c)
    BY <2>5, <2>8 DEF WelcomeSent, KeysAccepted, HandshakeFails, PeerKeySent, StartRelay,
       RecvLagged, Disconnect, ChatReceived, Leave
  <2>9. CASE WriteControl(c) \/ WriteDone(c) \/ WriteEnds(c) \/ UpdateActivity(c)
             \/ UpdateFails(c) \/ ChatSent(c) \/ Relayed(c)
    BY <2>5, <2>9 DEF WriteControl, WriteDone, WriteEnds, UpdateActivity, UpdateFails,
       ChatSent, Relayed, Leave
  <2>10. CASE Recv(c)
    BY <2>5, <2>10 DEF Recv
  <2> QED
    BY <1>2, <2>1, <2>2, <2>3, <2>4, <2>6, <2>7, <2>8, <2>9, <2>10 DEF Attach, Session
<1>3. CASE CleanupLock
  BY <1>3 DEF CleanupLock, TypeOK
<1>4. CASE CleanupDelete \/ CleanupNothing \/ CleanupRemove
  BY <1>4 DEF CleanupDelete, CleanupNothing, CleanupRemove, TypeOK
<1>5. CASE Age
  BY <1>5 DEF Age
<1>6. CASE Restart
  BY <1>6 DEF Restart, TypeOK
<1> QED
  BY <1>1, <1>2, <1>3, <1>4, <1>5, <1>6 DEF Next, Cleanup

-----------------------------------------------------------------------------
(* The members: participants against the sessions that run. *)

MemberInv ==
  /\ ~inMap => participants = {}
  /\ exists /\ Subscribed # {} => inMap
  /\ NoGhosts
  /\ IsFiniteSet(participants) /\ NeverOverfull

LEMMA SubscribedAfter ==
  ASSUME TypeOK, NEW c \in Conn, NEW place, Goto(c, place)
  PROVE  Subscribed' = IF place \in Relaying \cup {"announcing", "expiring"}
                       THEN Subscribed \cup {c} ELSE Subscribed \ {c}
BY DEF TypeOK, Goto, Subscribed

LEMMA OneMore ==
  ASSUME NEW S, IsFiniteSet(S), NEW c
  PROVE  /\ IsFiniteSet(S \cup {c}) /\ IsFiniteSet(S \ {c})
         /\ Cardinality(S) \in Nat
         /\ Cardinality(S \ {c}) \in Nat
         /\ Cardinality(S \cup {c}) \in Nat
         /\ Cardinality(S \ {c}) <= Cardinality(S)
         /\ Cardinality(S \cup {c}) <= Cardinality(S) + 1
<1>1. Cardinality(S) \in Nat
  BY FS_CardinalityType
<1>2. /\ IsFiniteSet(S \cup {c})
      /\ Cardinality(S \cup {c}) = IF c \in S THEN Cardinality(S) ELSE Cardinality(S) + 1
  BY FS_AddElement
<1>3. /\ IsFiniteSet(S \ {c})
      /\ Cardinality(S \ {c}) = IF c \in S THEN Cardinality(S) - 1 ELSE Cardinality(S)
  BY FS_RemoveElement
<1>4. Cardinality(S \ {c}) \in Nat
  BY <1>3, FS_CardinalityType
<1> QED
  BY <1>1, <1>2, <1>3, <1>4

LEMMA InitMember == Init => MemberInv
<1> SUFFICES ASSUME Init PROVE MemberInv
  OBVIOUS
<1>1. IsFiniteSet(participants) /\ Cardinality(participants) = 0
  BY FS_EmptySet DEF Init
<1>2. Subscribed = {}
  BY DEF Init, Subscribed, Relaying
<1> QED
  BY <1>1, <1>2, BoundsAssumption DEF Init, MemberInv, NoGhosts, NeverOverfull

(* A step that leaves the map alone and moves a session within its kind.   *)
LEMMA SameMembers ==
  ASSUME MemberInv, UNCHANGED <<inMap, participants>>,
         exists' => exists,
         Subscribed' \subseteq Subscribed,
         \A d \in participants : d \in Subscribed /\ d \notin Subscribed' => pc'[d] = "leaving",
         \A d \in participants : pc[d] = "leaving" => pc'[d] = "leaving"
  PROVE  MemberInv'
BY DEF MemberInv, NoGhosts, NeverOverfull

LEMMA StepMember ==
  ASSUME TypeOK, LockInv, MemberInv, [Next]_vars
  PROVE  MemberInv'
<1> USE DEF db, room
<1>1. CASE UNCHANGED vars
  BY <1>1 DEF vars, MemberInv, NoGhosts, NeverOverfull, Subscribed
<1>2. ASSUME NEW c \in Conn, Attach(c) \/ Join(c) \/ Session(c) \/ Detached(c)
      PROVE  MemberInv'
  <2> USE DEF Relaying
  <2>1. ASSUME NEW place, Goto(c, place), UNCHANGED <<exists, inMap, participants>>,
               pc[c] # "leaving",
               \/ c \notin Subscribed /\ place \notin Relaying \cup {"announcing", "expiring"}
               \/ c \in Subscribed /\ place \in Relaying \cup {"announcing", "expiring", "leaving"}
        PROVE  MemberInv'
    <3>1. Subscribed' \subseteq Subscribed
      BY <2>1, SubscribedAfter
    <3>2. \A d \in Conn : pc'[d] = IF d = c THEN place ELSE pc[d]
      BY <2>1 DEF Goto, TypeOK
    <3>3. \A d \in participants : d \in Conn
      BY DEF TypeOK
    <3>4. \A d \in participants : d \in Subscribed /\ d \notin Subscribed' => pc'[d] = "leaving"
      BY <2>1, <3>2, <3>3 DEF Subscribed
    <3>5. \A d \in participants : pc[d] = "leaving" => pc'[d] = "leaving"
      BY <2>1, <3>2, <3>3
    <3> QED
      BY <2>1, <3>1, <3>4, <3>5, SameMembers
  <2>2. CASE AttachLock(c) \/ AttachRefused(c) \/ AttachFound(c) \/ WelcomeSent(c)
             \/ KeysAccepted(c) \/ JoinFull(c)
    BY <2>1, <2>2 DEF AttachLock, AttachRefused, AttachFound, WelcomeSent, KeysAccepted,
       JoinFull, Subscribed
  <2>3. CASE AttachInsert(c)
    <3>1. Goto(c, "welcome") /\ pc[c] = "found" /\ exists /\ exists' = exists
      BY <2>3 DEF AttachInsert, LockInv
    <3>2. Subscribed' = Subscribed /\ participants' = participants /\ inMap'
      BY <2>3, <3>1, SubscribedAfter DEF AttachInsert, Subscribed
    <3>3. \A d \in participants : d \in Conn /\ d # c
      BY <3>1 DEF TypeOK, MemberInv, NoGhosts, Subscribed
    <3>4. \A d \in participants : pc'[d] = pc[d]
      BY <3>1, <3>3 DEF Goto, TypeOK
    <3> QED
      BY <3>1, <3>2, <3>4 DEF MemberInv, NoGhosts, NeverOverfull
  <2>4. CASE HandshakeFails(c) \/ RoomGone(c) \/ RecvLagged(c) \/ Disconnect(c) \/ WriteEnds(c)
    BY <2>1, <2>4 DEF HandshakeFails, RoomGone, RecvLagged, Disconnect, WriteEnds, Leave,
       Subscribed, Writing
  <2>5. CASE PeerKeySent(c) \/ Relayed(c)
    BY <2>5, SameMembers DEF PeerKeySent, Relayed, Subscribed
  <2>6. CASE StartRelay(c) \/ WriteControl(c) \/ WriteDone(c) \/ ChatReceived(c)
    BY <2>1, <2>6 DEF StartRelay, WriteControl, WriteDone, ChatReceived, Subscribed
  <2>7. CASE UpdateActivity(c) \/ UpdateFails(c) \/ ChatSent(c)
    BY <2>1, <2>7 DEF UpdateActivity, UpdateFails, ChatSent, Subscribed
  <2>8. CASE Recv(c)
    <3>1. CASE pc' = pc
      BY <2>8, <3>1, SameMembers DEF Recv, Subscribed
    <3>2. CASE pc' # pc
      <4>1. PICK place \in {"expiring", "writing"} : Goto(c, place)
        BY <2>8, <3>2 DEF Recv
      <4> QED
        BY <2>1, <2>8, <4>1 DEF Recv, Subscribed
    <3> QED
      BY <3>1, <3>2
  <2>9. CASE Joined(c)
    <3>1. /\ Goto(c, "announcing") /\ exists' = exists /\ inMap /\ inMap'
          /\ participants' = participants \cup {c} /\ HasPlace
      BY <2>9 DEF Joined
    <3>2. Subscribed' = Subscribed \cup {c}
      BY <3>1, SubscribedAfter
    <3>3. \A d \in Conn : d # c => pc'[d] = pc[d]
      BY <3>1 DEF Goto, TypeOK
    <3>4. IsFiniteSet(participants') /\ Cardinality(participants') <= MaxParticipants
      <4>1. /\ IsFiniteSet(participants \cup {c}) /\ Cardinality(participants) \in Nat
            /\ Cardinality(participants \cup {c}) \in Nat
            /\ Cardinality(participants \cup {c}) <= Cardinality(participants) + 1
        BY OneMore DEF MemberInv
      <4> QED
        BY <3>1, <4>1, BoundsAssumption DEF HasPlace
    <3> QED
      BY <3>1, <3>2, <3>3, <3>4 DEF MemberInv, NoGhosts, NeverOverfull, TypeOK
  <2>10. CASE Detach(c)
    <3>1. /\ Goto(c, "closed") /\ exists' = exists /\ inMap /\ inMap'
          /\ participants' = participants \ {c} /\ pc[c] = "leaving"
      BY <2>10 DEF Detach
    <3>2. Subscribed' = Subscribed /\ c \notin Subscribed
      BY <3>1, SubscribedAfter DEF Subscribed
    <3>3. \A d \in Conn : d # c => pc'[d] = pc[d]
      BY <3>1 DEF Goto, TypeOK
    <3>4. IsFiniteSet(participants') /\ Cardinality(participants') <= MaxParticipants
      <4>1. /\ IsFiniteSet(participants \ {c}) /\ Cardinality(participants) \in Nat
            /\ Cardinality(participants \ {c}) \in Nat
            /\ Cardinality(participants \ {c}) <= Cardinality(participants)
        BY OneMore DEF MemberInv
      <4> QED
        BY <3>1, <4>1, BoundsAssumption DEF MemberInv, NeverOverfull
    <3> QED
      BY <3>1, <3>2, <3>3, <3>4 DEF MemberInv, NoGhosts, NeverOverfull, TypeOK
  <2>11. CASE DetachGone(c)
    <3>1. /\ Goto(c, "closed") /\ UNCHANGED <<exists, inMap, participants>>
          /\ pc[c] = "leaving" /\ ~inMap
      BY <2>11 DEF DetachGone
    <3>2. Subscribed' = Subscribed /\ participants = {}
      BY <3>1, SubscribedAfter DEF Subscribed, MemberInv
    <3> QED
      BY <3>1, <3>2 DEF MemberInv, NoGhosts, NeverOverfull
  <2> QED
    BY <1>2, <2>2, <2>3, <2>4, <2>5, <2>6, <2>7, <2>8, <2>9, <2>10, <2>11
       DEF Attach, Join, Session, Detached
<1>3. CASE CleanupLock \/ CleanupDelete \/ CleanupNothing \/ Age
  BY <1>3, SameMembers DEF CleanupLock, CleanupDelete, CleanupNothing, Age, Subscribed
<1>4. CASE CleanupRemove
  <2>1. IsFiniteSet(participants') /\ Cardinality(participants') = 0
    BY <1>4, FS_EmptySet DEF CleanupRemove
  <2> QED
    BY <1>4, <2>1, BoundsAssumption DEF CleanupRemove, MemberInv, NoGhosts, NeverOverfull, LockInv
<1>5. CASE Restart
  <2>1. IsFiniteSet(participants') /\ Cardinality(participants') = 0
    BY <1>5, FS_EmptySet DEF Restart
  <2>2. Subscribed' = {}
    BY <1>5 DEF Restart, Subscribed, Relaying
  <2> QED
    BY <1>5, <2>1, <2>2, BoundsAssumption DEF Restart, MemberInv, NoGhosts, NeverOverfull
<1> QED
  BY <1>1, <1>2, <1>3, <1>4, <1>5 DEF Next, Cleanup

-----------------------------------------------------------------------------
(* The receivers: what a client knows, with what its queue still holds.    *)

Known(c) == view[c] \cup snapshot[c]

IdleInv ==
  \A c \in Conn :
    /\ c \notin Subscribed =>
         queue[c] = <<>> /\ ~lagged[c] /\ view[c] = {} /\ snapshot[c] = {}
    /\ pc[c] \in Relaying \cup {"expiring"} => snapshot[c] = {}

(* c, once it has read its queue, knows q exactly when q is a participant. *)
PairInv(c, q) ==
  /\ LeftForGood(queue[c], q)
  /\ Introduced(queue[c], Known(c), q)
  /\ q \in Subscribed \cup participants =>
       /\ q \in Known(c) \/ Has(queue[c], PeerJoined(q))
       /\ ~Has(queue[c], PeerLeft(q))
  /\ inMap /\ q \notin participants =>
       \/ Has(queue[c], PeerLeft(q))
       \/ q \notin Known(c) /\ ~Has(queue[c], PeerJoined(q))
  /\ pc[q] \in PreJoin =>
       /\ q \notin Known(c)
       /\ ~Has(queue[c], PeerJoined(q)) /\ ~Has(queue[c], PeerLeft(q))

ExpiryInv(c) == ~inMap => pc[c] = "expiring" \/ Has(queue[c], RoomExpired)

QueueInv == \A c \in Receiving : ExpiryInv(c) /\ \A q \in Conn \ {c} : PairInv(c, q)

LEMMA PublishedTo ==
  ASSUME TypeOK, NEW e, NEW R, Publish(e, R), NEW c \in Conn, ~lagged'[c]
  PROVE  /\ ~lagged[c]
         /\ queue'[c] = IF c \in R THEN Append(queue[c], e) ELSE queue[c]
BY DEF Publish, TypeOK

LEMMA LeaveReceiver ==
  ASSUME TypeOK, NEW c \in Conn, Leave(c)
  PROVE  /\ queue'[c] = <<>> /\ ~lagged'[c] /\ view'[c] = {} /\ snapshot'[c] = {}
         /\ pc'[c] = "leaving"
         /\ \A d \in Conn \ {c} :
              /\ queue'[d] = queue[d] /\ lagged'[d] = lagged[d]
              /\ view'[d] = view[d] /\ snapshot'[d] = snapshot[d]
              /\ pc'[d] = pc[d]
BY DEF Leave, Goto, TypeOK

LEMMA EventKinds ==
  ASSUME NEW q
  PROVE  /\ \A r : PeerJoined(r) = PeerJoined(q) <=> r = q
         /\ \A r : PeerLeft(r) = PeerLeft(q) <=> r = q
         /\ \A r : PeerJoined(r) # PeerLeft(q) /\ PeerLeft(r) # PeerJoined(q)
         /\ RoomExpired # PeerJoined(q) /\ RoomExpired # PeerLeft(q)
         /\ \A r, s : ~FromPeer(PeerJoined(r), s) /\ ~FromPeer(PeerLeft(r), s)
         /\ \A s : ~FromPeer(RoomExpired, s)
         /\ \A t \in RelayTypes : \A r, to :
              /\ Event(t, r, to) # PeerJoined(q) /\ Event(t, r, to) # PeerLeft(q)
              /\ FromPeer(Event(t, r, to), q) => r = q
BY DEF PeerJoined, PeerLeft, RoomExpired, Event, FromPeer, RelayTypes

LEMMA ViewAfterEvent ==
  ASSUME NEW e \in Events, NEW v, NEW q
  PROVE  q \in ViewAfter(v, e) <=> e = PeerJoined(q) \/ (q \in v /\ e # PeerLeft(q))
<1>1. CASE e \in [type : RelayTypes, from : Conn, to : Conn \cup {NoConn}]
  BY <1>1 DEF ViewAfter, PeerJoined, PeerLeft, Event, RelayTypes
<1>2. ASSUME NEW r \in Conn, e = PeerJoined(r)
      PROVE  q \in ViewAfter(v, e) <=> e = PeerJoined(q) \/ (q \in v /\ e # PeerLeft(q))
  BY <1>2 DEF ViewAfter, PeerJoined, PeerLeft, Event
<1>3. ASSUME NEW r \in Conn, e = PeerLeft(r)
      PROVE  q \in ViewAfter(v, e) <=> e = PeerJoined(q) \/ (q \in v /\ e # PeerLeft(q))
  BY <1>3 DEF ViewAfter, PeerJoined, PeerLeft, Event
<1>4. CASE e = RoomExpired
  BY <1>4 DEF ViewAfter, PeerJoined, PeerLeft, RoomExpired, Event
<1> QED
  BY <1>1, <1>2, <1>3, <1>4 DEF Events

LEMMA SkippedEvent ==
  ASSUME NEW e \in Events, NEW c \in Conn, Skips(c, e), NEW q \in Conn \ {c}
  PROVE  e # PeerJoined(q) /\ e # PeerLeft(q) /\ e # RoomExpired
BY ConnAssumption DEF Skips, PeerJoined, PeerLeft, RoomExpired, Event

(* A step that does not touch the receiver of c nor move q. *)
LEMMA PairFrame ==
  ASSUME NEW c, NEW q, PairInv(c, q),
         queue'[c] = queue[c], Known(c)' = Known(c),
         q \in (Subscribed \cup participants)' => q \in Subscribed \cup participants,
         inMap' /\ q \notin participants' => inMap /\ q \notin participants,
         pc'[q] \in PreJoin => pc[q] \in PreJoin
  PROVE  PairInv(c, q)'
BY DEF PairInv

LEMMA PairAppend ==
  ASSUME NEW c, NEW q, PairInv(c, q), NEW e \in Events,
         queue[c] \in Seq(Events),
         queue'[c] = Append(queue[c], e), Known(c)' = Known(c),
         FromPeer(e, q) => q \in Subscribed,
         e = PeerJoined(q) => pc[q] \in PreJoin /\ q \in participants',
         e = PeerLeft(q) => q \notin (Subscribed \cup participants)',
         q \in (Subscribed \cup participants)' =>
           q \in Subscribed \cup participants \/ e = PeerJoined(q),
         inMap' /\ q \notin participants' =>
           (inMap /\ q \notin participants) \/ e = PeerLeft(q),
         pc'[q] \in PreJoin =>
           pc[q] \in PreJoin /\ e # PeerJoined(q) /\ e # PeerLeft(q)
  PROVE  PairInv(c, q)'
<1> DEFINE t == Append(queue[c], e)
<1>1. LeftForGood(t, q)
  BY LeftForGoodAppend DEF PairInv
<1>2. Introduced(t, Known(c), q)
  BY IntroducedAppend DEF PairInv
<1>3. \A x : Has(t, x) <=> Has(queue[c], x) \/ x = e
  BY HasAppend
<1> HIDE DEF t
<1>4. queue'[c] = t
  BY DEF t
<1> QED
  BY <1>1, <1>2, <1>3, <1>4, EventKinds DEF PairInv

LEMMA PairRecv ==
  ASSUME NEW c, NEW q, PairInv(c, q),
         queue[c] \in Seq(Events), queue[c] # <<>>,
         queue'[c] = Tail(queue[c]),
         q \in Known(c)' <=> \/ Head(queue[c]) = PeerJoined(q)
                             \/ q \in Known(c) /\ Head(queue[c]) # PeerLeft(q),
         q \in (Subscribed \cup participants)' => q \in Subscribed \cup participants,
         inMap' = inMap, participants' = participants,
         pc'[q] = pc[q]
  PROVE  PairInv(c, q)'
<1> DEFINE h == Head(queue[c])
           t == Tail(queue[c])
<1>1. LeftForGood(t, q) /\ (h = PeerLeft(q) => ~Has(t, PeerJoined(q)))
  BY LeftForGoodTail DEF PairInv
<1>2. \A x : Has(queue[c], x) <=> Has(t, x) \/ x = h
  BY HasTail
<1>3. Introduced(queue[c], Known(c), q)
  BY DEF PairInv
<1> DEFINE L == Known(c)'
<1> HIDE DEF L
<1>5. h = PeerJoined(q) => q \in L
  BY DEF L
<1>6. h # PeerLeft(q) /\ q \in Known(c) => q \in L
  BY DEF L
<1>7. Introduced(t, L, q)
  BY <1>3, <1>5, <1>6, IntroducedTail
<1>8. q \in L <=> h = PeerJoined(q) \/ (q \in Known(c) /\ h # PeerLeft(q))
  BY DEF L
<1>4. queue'[c] = t
  OBVIOUS
<1> HIDE DEF t, h
<1> QED
  BY <1>1, <1>2, <1>4, <1>7, <1>8, EventKinds DEF PairInv, L

LEMMA StepIdle ==
  ASSUME TypeOK, IdleInv, [Next]_vars
  PROVE  IdleInv'
<1> USE DEF db, room, receiver
<1>1. CASE UNCHANGED vars
  BY <1>1 DEF vars, IdleInv, Subscribed
<1>2. ASSUME NEW c \in Conn, Attach(c) \/ Join(c) \/ Session(c) \/ Detached(c)
      PROVE  IdleInv'
  <2> USE DEF Relaying
  <2>1. ASSUME NEW place, Goto(c, place), UNCHANGED <<view, snapshot, receiver>>,
               place \in Relaying \cup {"announcing", "expiring"} => c \in Subscribed,
               c \in Subscribed => place \in Relaying \cup {"announcing", "expiring"},
               place \in Relaying \cup {"expiring"} => snapshot[c] = {}
        PROVE  IdleInv'
    BY <2>1 DEF IdleInv, Goto, TypeOK, Subscribed
  <2>2. ASSUME Leave(c) PROVE IdleInv'
    BY <2>2, LeaveReceiver DEF IdleInv, Subscribed
  <2>3. CASE Attach(c) \/ WelcomeSent(c) \/ KeysAccepted(c) \/ JoinFull(c) \/ DetachGone(c)
    BY <2>1, <2>3 DEF Attach, AttachLock, AttachRefused, AttachFound, AttachInsert, WelcomeSent,
       KeysAccepted, JoinFull, DetachGone, Subscribed
  <2>4. CASE HandshakeFails(c) \/ RoomGone(c) \/ RecvLagged(c) \/ Disconnect(c) \/ WriteEnds(c)
    BY <2>2, <2>4 DEF HandshakeFails, RoomGone, RecvLagged, Disconnect, WriteEnds
  <2>5. CASE StartRelay(c) \/ WriteControl(c) \/ WriteDone(c) \/ ChatReceived(c)
             \/ UpdateActivity(c) \/ UpdateFails(c)
    BY <2>1, <2>5 DEF StartRelay, WriteControl, WriteDone, ChatReceived, UpdateActivity,
       UpdateFails, Subscribed, IdleInv
  <2>6. CASE PeerKeySent(c)
    BY <2>6 DEF PeerKeySent, IdleInv, TypeOK, Subscribed
  <2>7. ASSUME NEW e, Publish(e, Subscribed), UNCHANGED <<view, snapshot>>,
               Subscribed' = Subscribed,
               \A d \in Conn : pc'[d] \in Relaying \cup {"expiring"} => pc[d] \in Relaying \cup {"expiring"}
        PROVE  IdleInv'
    BY <2>7 DEF Publish, IdleInv, TypeOK
  <2>8. CASE ChatSent(c)
    <3>1. Subscribed' = Subscribed
      BY <2>8 DEF ChatSent, Goto, Subscribed, TypeOK
    <3> QED
      BY <2>7, <2>8, <3>1 DEF ChatSent, Goto, TypeOK
  <2>9. CASE Relayed(c)
    BY <2>7, <2>9 DEF Relayed, Subscribed
  <2>10. CASE Detach(c)
    <3>1. Subscribed' = Subscribed /\ c \notin Subscribed
      BY <2>10 DEF Detach, Goto, Subscribed, TypeOK
    <3>2. CASE c \in participants
      BY <2>7, <2>10, <3>1, <3>2 DEF Detach, Goto, TypeOK
    <3>3. CASE c \notin participants
      BY <2>1, <2>10, <3>1, <3>3 DEF Detach
    <3> QED
      BY <3>2, <3>3
  <2>11. CASE Recv(c)
    BY <2>11 DEF Recv, Goto, IdleInv, TypeOK, Subscribed
  <2>12. CASE Joined(c)
    <3>1. Subscribed' = Subscribed \cup {c} /\ c \notin Subscribed /\ pc'[c] = "announcing"
      BY <2>12 DEF Joined, Goto, Subscribed, TypeOK
    <3>2. \A d \in Conn \ {c} : pc'[d] = pc[d] /\ snapshot'[d] = snapshot[d] /\ view'[d] = view[d]
      BY <2>12 DEF Joined, Goto, TypeOK
    <3>3. \A d \in Conn : d \notin Subscribed' => queue'[d] = queue[d] /\ lagged'[d] = lagged[d]
      BY <2>12, <3>1 DEF Joined, Publish, TypeOK
    <3> QED
      BY <3>1, <3>2, <3>3 DEF IdleInv
  <2> QED
    BY <1>2, <2>3, <2>4, <2>5, <2>6, <2>8, <2>9, <2>10, <2>11, <2>12 DEF Join, Session, Detached
<1>3. CASE CleanupLock \/ CleanupDelete \/ CleanupNothing \/ Age
  BY <1>3 DEF CleanupLock, CleanupDelete, CleanupNothing, Age, IdleInv, Subscribed
<1>4. CASE CleanupRemove
  <2>1. Subscribed' = Subscribed
    BY <1>4 DEF CleanupRemove, Subscribed
  <2>2. \A d \in Conn \ Subscribed : queue'[d] = queue[d] /\ lagged'[d] = lagged[d]
    BY <1>4 DEF CleanupRemove, Publish, TypeOK
  <2> QED
    BY <1>4, <2>1, <2>2 DEF CleanupRemove, IdleInv
<1>5. CASE Restart
  BY <1>5 DEF Restart, IdleInv, Subscribed, Relaying
<1> QED
  BY <1>1, <1>2, <1>3, <1>4, <1>5 DEF Next, Cleanup

LEMMA StepQueue ==
  ASSUME TypeOK, LockInv, MemberInv, IdleInv, QueueInv, [Next]_vars
  PROVE  QueueInv'
<1> USE DEF db, room, receiver
(* Steps that change neither the map nor any receiver that goes on. *)
<1>1. ASSUME UNCHANGED participants,
             inMap' = inMap,
             Receiving' \subseteq Receiving, Subscribed' \subseteq Subscribed,
             \A d \in Receiving' : queue'[d] = queue[d] /\ Known(d)' = Known(d)
                                   /\ (pc[d] = "expiring" => pc'[d] = "expiring"),
             \A d \in Conn : pc'[d] \in PreJoin => pc[d] \in PreJoin
      PROVE  QueueInv'
  <2> SUFFICES ASSUME NEW d \in Receiving' PROVE ExpiryInv(d)' /\ \A q \in Conn \ {d} : PairInv(d, q)'
    BY DEF QueueInv
  <2>1. ExpiryInv(d)'
    BY <1>1 DEF QueueInv, ExpiryInv
  <2>2. ASSUME NEW q \in Conn \ {d} PROVE PairInv(d, q)'
    BY <1>1, <2>2, PairFrame DEF QueueInv
  <2> QED
    BY <2>1, <2>2
<1>2. CASE UNCHANGED vars
  BY <1>1, <1>2 DEF vars, Receiving, Subscribed, Known
<1>3. CASE CleanupLock \/ CleanupDelete \/ CleanupNothing \/ Age
  BY <1>1, <1>3 DEF CleanupLock, CleanupDelete, CleanupNothing, Age, Receiving, Subscribed, Known
<1>4. CASE Restart
  BY <1>4 DEF Restart, QueueInv, Receiving, Subscribed, Relaying
(* Steps of one session that only move it on. *)
<1>5. ASSUME NEW c \in Conn, NEW place, Goto(c, place), UNCHANGED <<participants, view, snapshot, receiver>>,
             inMap' = inMap \/ Subscribed = {},
             c \in Subscribed <=> place \in Relaying \cup {"announcing", "expiring"},
             pc[c] # "expiring",
             place \in PreJoin => pc[c] \in PreJoin
      PROVE  QueueInv'
  <2>1. Subscribed' = Subscribed
    BY <1>5, SubscribedAfter DEF Subscribed
  <2>2. Receiving' = Receiving
    BY <1>5, <2>1 DEF Receiving
  <2>3. CASE Subscribed = {}
    BY <2>1, <2>3 DEF QueueInv, Receiving
  <2>4. CASE inMap' = inMap
    BY <1>1, <1>5, <2>1, <2>2, <2>4 DEF Known, Goto, TypeOK
  <2> QED
    BY <1>5, <2>3, <2>4
<1>6. ASSUME NEW c \in Conn, Leave(c), UNCHANGED <<participants, inMap>>
      PROVE  QueueInv'
  <2>1. Subscribed' = Subscribed \ {c}
    BY <1>6, LeaveReceiver DEF Subscribed, Relaying
  <2>2. Receiving' = Receiving \ {c}
    BY <1>6, <2>1, LeaveReceiver DEF Receiving, Subscribed
  <2>3. \A d \in Receiving' : /\ queue'[d] = queue[d] /\ Known(d)' = Known(d) /\ pc'[d] = pc[d]
    BY <1>6, <2>2, LeaveReceiver DEF Receiving, Subscribed, Known
  <2>4. \A d \in Conn : pc'[d] \in PreJoin => pc[d] \in PreJoin
    BY <1>6, LeaveReceiver DEF PreJoin
  <2> QED
    BY <1>1, <1>6, <2>1, <2>2, <2>3, <2>4
(* Events that are published to all receivers. *)
<1>7. ASSUME NEW c \in Conn, NEW t \in RelayTypes, NEW to \in Conn \cup {NoConn},
             Publish(Event(t, c, to), Subscribed), c \in Subscribed,
             UNCHANGED <<participants, inMap, view, snapshot>>, Subscribed' = Subscribed,
             \A d \in Conn : pc'[d] \in PreJoin => pc[d] \in PreJoin,
             \A d \in Conn : pc[d] = "expiring" => pc'[d] = "expiring"
      PROVE  QueueInv'
  <2> SUFFICES ASSUME NEW d \in Receiving' PROVE ExpiryInv(d)' /\ \A q \in Conn \ {d} : PairInv(d, q)'
    BY DEF QueueInv
  <2> DEFINE e == Event(t, c, to)
  <2>1. e \in Events
    BY EventTypes
  <2>2. d \in Conn /\ d \in Receiving /\ queue'[d] = Append(queue[d], e) /\ queue[d] \in Seq(Events)
    BY <1>7, PublishedTo DEF Receiving, Subscribed, TypeOK
  <2>3. Known(d)' = Known(d)
    BY <1>7 DEF Known
  <2>4. \A q : FromPeer(e, q) => q = c
    BY EventKinds
  <2>5. \A q : e # PeerJoined(q) /\ e # PeerLeft(q)
    BY EventKinds
  <2> HIDE DEF e
  <2>6. ExpiryInv(d)'
    BY <1>7, <2>1, <2>2, HasAppend DEF QueueInv, ExpiryInv
  <2>7. ASSUME NEW q \in Conn \ {d} PROVE PairInv(d, q)'
    BY <1>7, <2>1, <2>2, <2>3, <2>4, <2>5, <2>7, PairAppend DEF QueueInv
  <2> QED
    BY <2>6, <2>7
<1>8. CASE CleanupRemove /\ ~inMap
  <2>1. inMap' = inMap /\ participants' = participants
    BY <1>8 DEF CleanupRemove, MemberInv, TypeOK
  <2>2. Receiving' = Receiving /\ Subscribed' = Subscribed
    BY <1>8 DEF CleanupRemove, Receiving, Subscribed
  <2> QED
    BY <1>1, <1>8, <2>1, <2>2 DEF CleanupRemove, Known
<1>9. CASE CleanupRemove /\ inMap
  <2> SUFFICES ASSUME NEW d \in Receiving' PROVE ExpiryInv(d)' /\ \A q \in Conn \ {d} : PairInv(d, q)'
    BY DEF QueueInv
  <2> DEFINE e == RoomExpired
  <2>1. e \in Events
    BY EventTypes
  <2>2. Subscribed' = Subscribed
    BY <1>9 DEF CleanupRemove, Subscribed
  <2>3. d \in Conn /\ d \in Receiving /\ queue'[d] = Append(queue[d], e) /\ queue[d] \in Seq(Events)
    BY <1>9, <2>2, PublishedTo DEF Receiving, Subscribed, TypeOK, CleanupRemove
  <2>4. Known(d)' = Known(d) /\ pc' = pc /\ ~inMap' /\ participants' = {}
    BY <1>9 DEF Known, CleanupRemove
  <2>5. \A q : ~FromPeer(e, q) /\ e # PeerJoined(q) /\ e # PeerLeft(q)
    BY EventKinds
  <2>6. ExpiryInv(d)'
    BY <2>1, <2>3, HasAppend DEF ExpiryInv
  <2> HIDE DEF e
  <2>7. ASSUME NEW q \in Conn \ {d} PROVE PairInv(d, q)'
    BY <2>1, <2>2, <2>3, <2>4, <2>5, <2>7, PairAppend DEF QueueInv
  <2> QED
    BY <2>6, <2>7
<1>10. ASSUME NEW c \in Conn, Detach(c), c \in participants
       PROVE  QueueInv'
  <2> SUFFICES ASSUME NEW d \in Receiving' PROVE ExpiryInv(d)' /\ \A q \in Conn \ {d} : PairInv(d, q)'
    BY DEF QueueInv
  <2> DEFINE e == PeerLeft(c)
  <2>1. e \in Events
    BY EventTypes
  <2>2. Subscribed' = Subscribed /\ c \notin Subscribed
    BY <1>10 DEF Detach, Goto, Subscribed, TypeOK, Relaying
  <2>3. d \in Conn /\ d \in Receiving /\ queue'[d] = Append(queue[d], e) /\ queue[d] \in Seq(Events)
    BY <1>10, <2>2, PublishedTo DEF Receiving, Subscribed, TypeOK, Detach
  <2>4. /\ Known(d)' = Known(d) /\ inMap' /\ inMap /\ participants' = participants \ {c}
        /\ \A q \in Conn : pc'[q] = IF q = c THEN "closed" ELSE pc[q]
    BY <1>10 DEF Known, Detach, Goto, TypeOK
  <2>5. \A q : ~FromPeer(e, q) /\ e # PeerJoined(q) /\ (e = PeerLeft(q) <=> q = c)
    BY EventKinds
  <2>6. ExpiryInv(d)'
    BY <2>4 DEF ExpiryInv
  <2> HIDE DEF e
  <2>7. ASSUME NEW q \in Conn \ {d} PROVE PairInv(d, q)'
    BY <2>1, <2>2, <2>3, <2>4, <2>5, <2>7, PairAppend DEF QueueInv, PreJoin
  <2> QED
    BY <2>6, <2>7
<1>11. ASSUME NEW c \in Conn, Joined(c)
       PROVE  QueueInv'
  <2> SUFFICES ASSUME NEW d \in Receiving' PROVE ExpiryInv(d)' /\ \A q \in Conn \ {d} : PairInv(d, q)'
    BY DEF QueueInv
  <2> DEFINE e == PeerJoined(c)
  <2>1. e \in Events
    BY EventTypes
  <2>2. Subscribed' = Subscribed \cup {c} /\ c \notin Subscribed /\ pc[c] = "joining"
    BY <1>11 DEF Joined, Goto, Subscribed, TypeOK, Relaying
  <2>3. d \in Conn /\ ~lagged[d] /\ queue'[d] = Append(queue[d], e) /\ queue[d] \in Seq(Events)
    <3>1. d \in Conn /\ d \in Subscribed \cup {c} /\ ~lagged'[d]
      BY <2>2 DEF Receiving, Subscribed
    <3>2. Publish(e, Subscribed \cup {c})
      BY <1>11 DEF Joined
    <3> HIDE DEF e
    <3>3. ~lagged[d] /\ queue'[d] = Append(queue[d], e)
      BY <3>1, <3>2, PublishedTo
    <3> QED
      BY <3>1, <3>3 DEF TypeOK
  <2>4. /\ inMap' /\ inMap /\ participants' = participants \cup {c}
        /\ \A q \in Conn : pc'[q] = IF q = c THEN "announcing" ELSE pc[q]
        /\ Subscribed \subseteq participants
    BY <1>11 DEF Joined, Goto, TypeOK, MemberInv, NoGhosts
  <2>5. \A q : ~FromPeer(e, q) /\ e # PeerLeft(q) /\ (e = PeerJoined(q) <=> q = c)
    BY EventKinds
  <2>6. ExpiryInv(d)'
    BY <2>4 DEF ExpiryInv
  <2> HIDE DEF e
  <2>7. ASSUME NEW q \in Conn \ {d}, d # c PROVE PairInv(d, q)'
    <3>1. d \in Receiving /\ Known(d)' = Known(d)
      BY <1>11, <2>2, <2>3, <2>7 DEF Receiving, Known, Joined, TypeOK
    <3> QED
      BY <2>1, <2>2, <2>3, <2>4, <2>5, <2>7, <3>1, PairAppend DEF QueueInv, PreJoin
  <2>8. ASSUME NEW q \in Conn \ {d}, d = c PROVE PairInv(d, q)'
    <3>1. queue[d] = <<>> /\ view[d] = {}
      BY <2>2, <2>8 DEF IdleInv
    <3>2. Known(d)' = participants
      BY <1>11, <2>8, <3>1 DEF Known, Joined, TypeOK
    <3>3. \A x : ~Has(<<>>, x)
      BY HasEmpty
    <3>4. ASSUME NEW x PROVE Has(queue'[d], x) <=> x = e
      <4>1. Has(Append(queue[d], e), x) <=> Has(queue[d], x) \/ x = e
        BY <2>1, <2>3, HasAppend
      <4> QED
        BY <2>3, <3>1, <3>3, <4>1
    <3>5. LeftForGood(<<>>, q) /\ Introduced(<<>>, participants, q)
      BY DEF LeftForGood, Introduced
    <3>6. LeftForGood(queue'[d], q)
      BY <2>1, <2>3, <3>1, <3>3, <3>5, LeftForGoodAppend
    <3>7. Introduced(queue'[d], participants, q)
      BY <2>1, <2>3, <2>5, <3>1, <3>5, IntroducedAppend
    <3>8. pc'[q] \in PreJoin => q \notin participants
      BY <2>2, <2>4, <2>8 DEF MemberInv, NoGhosts, PreJoin, Subscribed, Relaying
    <3>9. q # c
      BY <2>8
    <3> QED
      BY <2>2, <2>4, <2>5, <3>2, <3>4, <3>6, <3>7, <3>8, <3>9 DEF PairInv
  <2> QED
    BY <2>6, <2>7, <2>8
<1>12. ASSUME NEW c \in Conn, Recv(c)
       PROVE  QueueInv'
  <2> SUFFICES ASSUME NEW d \in Receiving' PROVE ExpiryInv(d)' /\ \A q \in Conn \ {d} : PairInv(d, q)'
    BY DEF QueueInv
  <2> DEFINE e == Head(queue[c])
  <2>1. /\ queue[c] \in Seq(Events) /\ queue[c] # <<>> /\ queue'[c] = Tail(queue[c])
        /\ e \in Events /\ pc[c] = "relay" /\ UNCHANGED <<inMap, participants, snapshot, lagged>>
        /\ ~lagged[c]
    BY <1>12 DEF Recv, TypeOK
  <2>2. \A r \in Conn \ {c} : queue'[r] = queue[r] /\ view'[r] = view[r] /\ pc'[r] = pc[r]
    BY <1>12 DEF Recv, Goto, TypeOK
  <2>3. pc'[c] \in {"relay", "expiring", "writing"}
    BY <1>12 DEF Recv, Goto, TypeOK
  <2>4. Subscribed' = Subscribed /\ c \in Subscribed
    BY <2>1, <2>2, <2>3 DEF Subscribed, Relaying
  <2>5. d \in Receiving /\ d \in Conn /\ c \in Receiving
    BY <2>1, <2>4 DEF Receiving, Subscribed
  <2>6. \A q \in Conn : pc'[q] \in PreJoin => pc[q] \in PreJoin
    BY <2>2, <2>3 DEF PreJoin
  <2>7. CASE d # c
    <3>1. Known(d)' = Known(d) /\ queue'[d] = queue[d] /\ pc'[d] = pc[d]
      BY <2>1, <2>2, <2>5, <2>7 DEF Known
    <3>2. ExpiryInv(d)'
      BY <2>1, <2>5, <3>1 DEF QueueInv, ExpiryInv
    <3>3. ASSUME NEW q \in Conn \ {d} PROVE PairInv(d, q)'
      BY <2>1, <2>4, <2>5, <2>6, <3>1, <3>3, PairFrame DEF QueueInv
    <3> QED
      BY <3>2, <3>3
  <2>8. CASE d = c
    <3>1. snapshot[c] = {} /\ Known(c) = view[c] /\ Known(c)' = view'[c]
      BY <2>1 DEF IdleInv, Known, Relaying
    <3>2. \/ Skips(c, e) /\ view' = view /\ pc' = pc
          \/ /\ ~Skips(c, e) /\ view'[c] = ViewAfter(view[c], e)
             /\ pc'[c] = IF e.type = "room_expired" THEN "expiring" ELSE "writing"
      BY <1>12 DEF Recv, Goto, TypeOK
    <3>3. ExpiryInv(c)'
      <4>1. CASE e = RoomExpired
        <5>1. ~Skips(c, e) /\ e.type = "room_expired"
          BY <4>1, ConnAssumption DEF Skips, RoomExpired, Event
        <5> QED
          BY <3>2, <5>1 DEF ExpiryInv
      <4>2. CASE e # RoomExpired
        BY <2>1, <2>5, <4>2, HasTail DEF QueueInv, ExpiryInv
      <4> QED
        BY <4>1, <4>2
    <3>4. ASSUME NEW q \in Conn \ {c} PROVE PairInv(c, q)'
      <4>1. q \in view'[c] <=> e = PeerJoined(q) \/ (q \in view[c] /\ e # PeerLeft(q))
        BY <2>1, <3>2, <3>4, ViewAfterEvent, SkippedEvent
      <4>2. pc'[q] = pc[q]
        BY <2>2, <3>4
      <4>3. PairInv(c, q)
        BY <2>5, <3>4 DEF QueueInv
      <4> HIDE DEF e
      <4>4. q \in Known(c)' <=> e = PeerJoined(q) \/ (q \in Known(c) /\ e # PeerLeft(q))
        BY <3>1, <4>1
      <4> QED
        BY <2>1, <2>4, <4>2, <4>3, <4>4, PairRecv DEF e
    <3> QED
      BY <2>8, <3>3, <3>4
  <2> QED
    BY <2>7, <2>8
<1>13. ASSUME NEW c \in Conn, PeerKeySent(c)
       PROVE  QueueInv'
  <2>1. PICK p \in snapshot[c] : /\ snapshot' = [snapshot EXCEPT ![c] = @ \ {p}]
                                 /\ view' = [view EXCEPT ![c] = @ \cup {p}]
    BY <1>13 DEF PeerKeySent
  <2>2. \A d \in Conn : Known(d)' = Known(d)
    BY <2>1 DEF Known, TypeOK
  <2> QED
    BY <1>1, <1>13, <2>2 DEF PeerKeySent, Receiving, Subscribed
<1>14. ASSUME NEW c \in Conn, Attach(c) \/ Join(c) \/ Session(c) \/ Detached(c)
       PROVE  QueueInv'
  <2> USE DEF Relaying, PreJoin
  <2>1. CASE AttachInsert(c)
    <3>1. inMap' = inMap \/ Subscribed = {}
      BY <2>1 DEF AttachInsert, LockInv, MemberInv, TypeOK
    <3> QED
      BY <1>5, <2>1, <3>1 DEF AttachInsert, Subscribed
  <2>2. CASE AttachLock(c) \/ AttachRefused(c) \/ AttachFound(c) \/ WelcomeSent(c)
             \/ KeysAccepted(c) \/ JoinFull(c) \/ DetachGone(c)
    BY <1>5, <2>2 DEF AttachLock, AttachRefused, AttachFound, WelcomeSent, KeysAccepted,
       JoinFull, DetachGone, Subscribed
  <2>3. CASE StartRelay(c) \/ WriteControl(c) \/ WriteDone(c) \/ ChatReceived(c)
             \/ UpdateActivity(c) \/ UpdateFails(c)
    BY <1>5, <2>3 DEF StartRelay, WriteControl, WriteDone, ChatReceived, UpdateActivity,
       UpdateFails, Subscribed
  <2>4. CASE HandshakeFails(c) \/ RoomGone(c) \/ RecvLagged(c) \/ Disconnect(c) \/ WriteEnds(c)
    BY <1>6, <2>4 DEF HandshakeFails, RoomGone, RecvLagged, Disconnect, WriteEnds
  <2>5. CASE ChatSent(c)
    <3>1. Subscribed' = Subscribed /\ c \in Subscribed
      BY <2>5 DEF ChatSent, Goto, Subscribed, TypeOK
    <3> QED
      BY <1>7, <2>5, <3>1 DEF ChatSent, Goto, TypeOK, RelayTypes
  <2>6. CASE Relayed(c)
    <3>1. Subscribed' = Subscribed /\ c \in Subscribed
      BY <2>6 DEF Relayed, Subscribed
    <3>2. PICK t \in RelayTypes, to \in Conn \cup {NoConn} : Publish(Event(t, c, to), Subscribed)
      BY <2>6, FramesAssumption DEF Relayed
    <3> QED
      BY <1>7, <2>6, <3>1, <3>2 DEF Relayed
  <2>7. CASE Detach(c) /\ c \notin participants
    <3>1. participants' = participants /\ c \notin Subscribed
      BY <2>7 DEF Detach, TypeOK, Subscribed
    <3> QED
      BY <1>5, <2>7, <3>1 DEF Detach
  <2> QED
    BY <1>10, <1>11, <1>12, <1>13, <1>14, <2>1, <2>2, <2>3, <2>4, <2>5, <2>6, <2>7
       DEF Attach, Join, Session, Detached
<1> QED
  BY <1>2, <1>3, <1>4, <1>8, <1>9, <1>14 DEF Next, Cleanup

(* No client is told of itself. *)
SelfInv == \A c \in Conn : c \notin Known(c)

LEMMA StepSelf ==
  ASSUME TypeOK, MemberInv, SelfInv, [Next]_vars
  PROVE  SelfInv'
<1> USE DEF db, room, receiver
<1>1. ASSUME UNCHANGED <<view, snapshot>> PROVE SelfInv'
  BY <1>1 DEF SelfInv, Known
<1>2. CASE UNCHANGED vars
  BY <1>1, <1>2 DEF vars
<1>3. ASSUME NEW c \in Conn, Attach(c) \/ Join(c) \/ Session(c) \/ Detached(c)
      PROVE  SelfInv'
  <2>1. CASE Attach(c) \/ JoinFull(c) \/ Detached(c)
    BY <1>1, <2>1 DEF Attach, AttachLock, AttachRefused, AttachFound, AttachInsert, JoinFull,
       Detached, Detach, DetachGone
  <2>2. CASE HandshakeFails(c) \/ RoomGone(c) \/ RecvLagged(c) \/ Disconnect(c) \/ WriteEnds(c)
    BY <2>2, LeaveReceiver DEF HandshakeFails, RoomGone, RecvLagged, Disconnect, WriteEnds,
       SelfInv, Known
  <2>3. CASE \/ WelcomeSent(c) \/ KeysAccepted(c) \/ StartRelay(c) \/ WriteControl(c)
             \/ WriteDone(c) \/ ChatReceived(c) \/ UpdateActivity(c) \/ UpdateFails(c)
             \/ ChatSent(c) \/ Relayed(c)
    BY <1>1, <2>3 DEF WelcomeSent, KeysAccepted, StartRelay, WriteControl, WriteDone,
       ChatReceived, UpdateActivity, UpdateFails, ChatSent, Relayed
  <2>4. CASE PeerKeySent(c)
    BY <2>4 DEF PeerKeySent, SelfInv, Known, TypeOK
  <2>5. CASE Joined(c)
    <3>1. c \notin participants
      BY <2>5 DEF Joined, MemberInv, NoGhosts, Subscribed, Relaying
    <3> QED
      BY <2>5, <3>1 DEF Joined, SelfInv, Known, TypeOK
  <2>6. CASE Recv(c)
    <3>1. Head(queue[c]) \in Events
      BY <2>6 DEF Recv, TypeOK
    <3>2. Head(queue[c]) = PeerJoined(c) => Skips(c, Head(queue[c]))
      BY DEF Skips, PeerJoined, Event
    <3>3. c \notin view'[c]
      BY <2>6, <3>1, <3>2, ViewAfterEvent DEF Recv, SelfInv, Known, TypeOK
    <3> QED
      BY <2>6, <3>3 DEF Recv, SelfInv, Known, TypeOK
  <2> QED
    BY <1>3, <2>1, <2>2, <2>3, <2>4, <2>5, <2>6 DEF Join, Session
<1>4. CASE Cleanup \/ Age
  BY <1>1, <1>4 DEF Cleanup, CleanupLock, CleanupDelete, CleanupNothing, CleanupRemove, Age
<1>5. CASE Restart
  BY <1>5 DEF Restart, SelfInv, Known
<1> QED
  BY <1>2, <1>3, <1>4, <1>5 DEF Next

-----------------------------------------------------------------------------
(* The inductive invariant, and what follows from it *)

IInv == TypeOK /\ LockInv /\ MemberInv /\ IdleInv /\ QueueInv /\ SelfInv

LEMMA InitInv == Init => IInv
<1> SUFFICES ASSUME Init PROVE IInv
  OBVIOUS
<1>1. Subscribed = {}
  BY DEF Init, Subscribed, Relaying
<1>2. IdleInv
  BY DEF Init, IdleInv, Relaying
<1>3. QueueInv
  BY <1>1 DEF QueueInv, Receiving
<1>4. SelfInv
  BY DEF Init, SelfInv, Known
<1> QED
  BY <1>2, <1>3, <1>4, InitType, InitLock, InitMember DEF IInv

LEMMA StepInv == IInv /\ [Next]_vars => IInv'
<1> SUFFICES ASSUME IInv, [Next]_vars PROVE IInv'
  OBVIOUS
<1> USE DEF IInv
<1>1. TypeOK' BY StepType
<1>2. LockInv' BY StepLock
<1>3. MemberInv' BY StepMember
<1>4. IdleInv' BY StepIdle
<1>5. QueueInv' BY StepQueue
<1>6. SelfInv' BY StepSelf
<1> QED
  BY <1>1, <1>2, <1>3, <1>4, <1>5, <1>6

LEMMA Invariance == Spec => []IInv
BY InitInv, StepInv, PTL DEF Spec

(* Every variable keeps its type; in particular no receiver ever holds     *)
(* more than Capacity events.                                              *)
THEOREM TypeCorrect == Spec => []TypeOK
<1>1. IInv => TypeOK
  BY DEF IInv
<1> QED
  BY <1>1, Invariance, PTL

(* Whatever runs while attach or the cleanup awaits the database, a room   *)
(* whose row is gone never gets an entry in the RoomMap again.             *)
THEOREM NoResurrection == Spec => []NeverResurrected
<1>1. IInv => NeverResurrected
  BY DEF IInv, LockInv
<1> QED
  BY <1>1, Invariance, PTL

(* No exit path of a session leaves a ghost among the participants, and    *)
(* no running session is missing from them.                                *)
THEOREM MembersAreSessions == Spec => []NoGhosts
<1>1. IInv => NoGhosts
  BY DEF IInv, MemberInv
<1> QED
  BY <1>1, Invariance, PTL

(* A room never has more than MaxParticipants participants.                *)
THEOREM RoomNeverOverfull == Spec => []NeverOverfull
<1>1. IInv => NeverOverfull
  BY DEF IInv, MemberInv
<1> QED
  BY <1>1, Invariance, PTL

(* Every session that outlives the entry of its room has room_expired      *)
(* ahead of it, or was cut off.                                            *)
THEOREM ExpiryReaches == Spec => []ExpiryReachesAll
<1>1. IInv => ExpiryReachesAll
  BY DEF IInv, QueueInv, ExpiryInv, ExpiryReachesAll, Receiving, Has
<1> QED
  BY <1>1, Invariance, PTL

(* A client that has read all its events knows exactly the other           *)
(* participants of its room.                                               *)
THEOREM ViewsConverge == Spec => []ViewConverges
<1>1. IInv => ViewConverges
  <2> SUFFICES ASSUME IInv, NEW c \in Conn, inMap, pc[c] = "relay", ~lagged[c],
                      queue[c] = <<>>
               PROVE  view[c] = participants \ {c}
    BY DEF ViewConverges
  <2>1. c \in Receiving /\ Known(c) = view[c]
    BY DEF IInv, IdleInv, Receiving, Subscribed, Relaying, Known
  <2>2. ASSUME NEW q \in Conn \ {c} PROVE q \in view[c] <=> q \in participants
    <3>1. PairInv(c, q)
      BY <2>1, <2>2 DEF IInv, QueueInv
    <3>2. \A e : ~Has(queue[c], e)
      BY HasEmpty
    <3> QED
      BY <2>1, <3>1, <3>2 DEF PairInv
  <2>3. c \notin view[c]
    BY <2>1 DEF IInv, SelfInv
  <2>4. view[c] \subseteq Conn /\ participants \subseteq Conn
    BY DEF IInv, TypeOK
  <2> QED
    BY <2>2, <2>3, <2>4
<1> QED
  BY <1>1, Invariance, PTL

(* A client knows the sender of every message it is handed.                *)
THEOREM SendersAreKnown == Spec => []SendersKnown
<1>1. IInv => SendersKnown
  <2> SUFFICES ASSUME IInv, NEW c \in Conn, pc[c] = "relay", ~lagged[c], queue[c] # <<>>,
                      Head(queue[c]).type \in RelayTypes, ~Skips(c, Head(queue[c]))
               PROVE  Head(queue[c]).from \in view[c]
    BY DEF SendersKnown
  <2> DEFINE e == Head(queue[c])
             q == e.from
  <2>1. c \in Receiving /\ Known(c) = view[c] /\ queue[c] \in Seq(Events) /\ e \in Events
    BY DEF IInv, TypeOK, IdleInv, Receiving, Subscribed, Relaying, Known
  <2>2. q \in Conn
    BY <2>1 DEF Events, RelayTypes, RoomExpired, PeerJoined, PeerLeft, Event
  <2>3. q # c
    BY DEF Skips
  <2>4. Introduced(queue[c], Known(c), q)
    BY <2>1, <2>2, <2>3 DEF IInv, QueueInv, PairInv
  <2>5. FromPeer(e, q)
    BY DEF FromPeer
  <2> HIDE DEF e, q
  <2>6. FromPeer(Head(queue[c]), q) => q \in Known(c)
    BY <2>1, <2>4, IntroducedTail
  <2> QED
    BY <2>1, <2>5, <2>6 DEF e, q
<1> QED
  BY <1>1, Invariance, PTL

(* While a room has participants, its creator does not change.             *)
THEOREM CreatorIsStable == Spec => CreatorStable
<1>1. [Next]_vars => [CreatorStays]_vars
  <2> SUFFICES ASSUME Next PROVE CreatorStays \/ UNCHANGED vars
    OBVIOUS
  <2> USE DEF CreatorStays, room, db
  <2>1. ASSUME NEW c \in Conn, Attach(c) PROVE CreatorStays
    BY <2>1 DEF Attach, AttachLock, AttachRefused, AttachFound, AttachInsert
  <2>2. ASSUME NEW c \in Conn, Join(c) \/ Detached(c) PROVE CreatorStays
    BY <2>2 DEF Join, Joined, JoinFull, RoomGone, Detached, Detach, DetachGone, CreatorWithout
  <2>3. ASSUME NEW c \in Conn, Session(c) PROVE CreatorStays
    BY <2>3 DEF Session, WelcomeSent, KeysAccepted, HandshakeFails, PeerKeySent, StartRelay,
       Recv, RecvLagged, WriteControl, WriteDone, WriteEnds, Disconnect, ChatReceived,
       UpdateActivity, UpdateFails, ChatSent, Relayed
  <2>4. ASSUME Cleanup \/ Age \/ Restart PROVE CreatorStays
    BY <2>4 DEF Cleanup, CleanupLock, CleanupDelete, CleanupNothing, CleanupRemove, Age, Restart
  <2> QED
    BY <2>1, <2>2, <2>3, <2>4 DEF Next
<1> QED
  BY <1>1, PTL DEF Spec, CreatorStable

-----------------------------------------------------------------------------
(* The row of the room is a row of Lifetime *)

RowState == IF ~exists THEN "deleted" ELSE IF stale THEN "stale" ELSE "fresh"
TableRow == [r \in {"room"} |-> RowState]

LEMMA RowStep == [Next]_vars => [Table!Next]_TableRow
<1>. SUFFICES ASSUME [Next]_vars PROVE [Table!Next]_TableRow OBVIOUS
<1>1. ASSUME RowState = "stale", RowState' = "fresh" PROVE Table!Next
  <2>1. Table!Touch("room")
    BY <1>1 DEF Table!Touch, Table!In, Table!Become, TableRow, RowState
  <2>. QED BY <2>1 DEF Table!Next
<1>2. ASSUME RowState = "stale", RowState' = "deleted" PROVE Table!Next
  <2>1. {"room"} \in SUBSET Table!In("stale") /\ Table!Become({"room"}, "deleted")
    BY <1>2 DEF Table!In, Table!Become, TableRow, RowState
  <2>. QED BY <2>1 DEF Table!Sweep, Table!Next
<1>3. ASSUME RowState = "fresh", RowState' = "stale" PROVE Table!Next
  <2>1. {"room"} \in SUBSET Table!In("fresh") /\ Table!Become({"room"}, "stale")
    BY <1>3 DEF Table!In, Table!Become, TableRow, RowState
  <2>. QED BY <2>1 DEF Table!Age, Table!Next
<1>4. ASSUME RowState' = RowState PROVE TableRow' = TableRow
  BY <1>4 DEF TableRow
<1>5. CASE \E c \in Conn : UpdateActivity(c)
  <2>1. exists' = exists /\ stale' = (stale /\ ~exists) BY <1>5 DEF UpdateActivity
  <2>2. RowState' = RowState \/ (RowState = "stale" /\ RowState' = "fresh")
    BY <2>1, Zenon DEF RowState
  <2>. QED BY <1>1, <1>4, <2>2
<1>6. CASE CleanupDelete
  <2>1. RowState = "stale" /\ RowState' = "deleted" BY <1>6 DEF CleanupDelete, RowState
  <2>. QED BY <1>2, <2>1
<1>7. CASE Age
  <2>1. exists' = exists /\ stale' = TRUE BY <1>7 DEF Age
  <2>2. RowState' = RowState \/ (RowState = "fresh" /\ RowState' = "stale")
    BY <2>1, Zenon DEF RowState
  <2>. QED BY <1>3, <1>4, <2>2
<1>8. CASE ~(\E c \in Conn : UpdateActivity(c)) /\ ~CleanupDelete /\ ~Age
  <2>1. UNCHANGED <<exists, stale>>
    BY <1>8 DEF Next, Attach, AttachLock, AttachRefused, AttachFound, AttachInsert, Join,
      Joined, JoinFull, RoomGone, Session, WelcomeSent, KeysAccepted, HandshakeFails,
      PeerKeySent, StartRelay, Recv, RecvLagged, WriteControl, WriteDone, WriteEnds,
      Disconnect, ChatReceived, UpdateFails, ChatSent, Relayed, Detached, Detach,
      DetachGone, Cleanup, CleanupLock, CleanupNothing, CleanupRemove, Restart, vars, db
  <2>. QED BY <1>4, <2>1 DEF RowState
<1>. QED BY <1>5, <1>6, <1>7, <1>8

(* The row a room is built on ages, is touched and is deleted as Lifetime  *)
(* allows, as the timestamps of Activity do.                               *)
THEOREM RoomImplementsTable == Spec => Table!Spec
<1>1. Init => Table!Init BY DEF Init, Table!Init
<1>2. [Next]_vars => [Table!Next]_TableRow BY RowStep
<1>. QED BY <1>1, <1>2, PTL DEF Spec, Table!Spec, TableRow, RowState

-----------------------------------------------------------------------------
(* Room implements Membership.  First, what a step may do to the readers.  *)

(* Readers may be cut off, and all get a message of somebody, or nothing.  *)
Quiet ==
  /\ UNCHANGED participants /\ Expired' = Expired
  /\ Receiving' \subseteq Receiving /\ Newcomers' \subseteq Newcomers
  /\ \A d \in Receiving' : view'[d] = view[d] /\ snapshot'[d] = snapshot[d]
  /\ \/ \A d \in Receiving' : queue'[d] = queue[d]
     \/ \E t \in RelayTypes, c \in Conn, to \in Conn \cup {NoConn} :
          \A d \in Receiving' : queue'[d] = Append(queue[d], Event(t, c, to))

LEMMA StepKinds ==
  ASSUME IInv, [Next]_vars
  PROVE  \/ Quiet
         \/ \E c \in Conn : \/ Joined(c) \/ PeerKeySent(c) \/ Recv(c)
                            \/ Detach(c) /\ c \in participants
         \/ CleanupRemove /\ inMap
         \/ CleanupDelete /\ ~inMap
         \/ Restart
<1> USE DEF db, room, receiver
(* Steps that leave every receiver alone, or drop one. *)
<1>1. ASSUME UNCHANGED participants, Expired' = Expired,
             Subscribed' \subseteq Subscribed,
             \A d \in Conn : pc'[d] \in PreJoin => pc[d] \in PreJoin,
             \A d \in Subscribed' : /\ view'[d] = view[d] /\ snapshot'[d] = snapshot[d]
                                    /\ queue'[d] = queue[d] /\ lagged'[d] = lagged[d]
      PROVE  Quiet
  BY <1>1 DEF Quiet, Receiving, Newcomers
<1>2. ASSUME NEW c \in Conn, NEW place, Goto(c, place),
             UNCHANGED <<participants, view, snapshot, receiver>>, Expired' = Expired,
             place \in Relaying \cup {"announcing", "expiring"} => c \in Subscribed,
             place \in PreJoin => pc[c] \in PreJoin
      PROVE  Quiet
  <2>1. Subscribed' \subseteq Subscribed
    BY <1>2, SubscribedAfter DEF IInv
  <2>2. \A d \in Conn : pc'[d] \in PreJoin => pc[d] \in PreJoin
    BY <1>2 DEF Goto, IInv, TypeOK
  <2> QED
    BY <1>1, <1>2, <2>1, <2>2
<1>3. ASSUME NEW c \in Conn, Leave(c), UNCHANGED participants, Expired' = Expired
      PROVE  Quiet
  <2>1. Subscribed' = Subscribed \ {c}
    BY <1>3, LeaveReceiver DEF IInv, Subscribed, Relaying
  <2>2. \A d \in Subscribed' : /\ view'[d] = view[d] /\ snapshot'[d] = snapshot[d]
                               /\ queue'[d] = queue[d] /\ lagged'[d] = lagged[d]
    BY <1>3, <2>1, LeaveReceiver DEF IInv, Subscribed
  <2>3. \A d \in Conn : pc'[d] \in PreJoin => pc[d] \in PreJoin
    BY <1>3, LeaveReceiver DEF IInv, PreJoin
  <2> QED
    BY <1>1, <1>3, <2>1, <2>2, <2>3
(* Steps that publish a message. *)
<1>4. ASSUME NEW t \in RelayTypes, NEW c \in Conn, NEW to \in Conn \cup {NoConn},
             Publish(Event(t, c, to), Subscribed),
             UNCHANGED <<participants, view, snapshot>>, Expired' = Expired,
             Subscribed' = Subscribed,
             \A d \in Conn : pc'[d] \in PreJoin => pc[d] \in PreJoin
      PROVE  Quiet
  <2>1. \A d \in Receiving' : d \in Receiving /\ queue'[d] = Append(queue[d], Event(t, c, to))
    BY <1>4, PublishedTo DEF IInv, Receiving, Subscribed
  <2> QED
    BY <1>4, <2>1 DEF Quiet, Newcomers
<1>5. CASE UNCHANGED vars
  BY <1>1, <1>5 DEF vars, Subscribed, Expired
<1>6. ASSUME NEW c \in Conn, Attach(c) \/ Join(c) \/ Session(c) \/ Detached(c),
             ~(Joined(c) \/ PeerKeySent(c) \/ Recv(c)), ~(Detach(c) /\ c \in participants)
      PROVE  Quiet
  <2> USE DEF Relaying, PreJoin
  <2>1. CASE AttachInsert(c)
    <3>1. Expired' = Expired
      BY <2>1 DEF AttachInsert, IInv, LockInv, Expired
    <3> QED
      BY <1>2, <2>1, <3>1 DEF AttachInsert
  <2>2. CASE AttachLock(c) \/ AttachRefused(c) \/ AttachFound(c) \/ WelcomeSent(c)
             \/ KeysAccepted(c) \/ JoinFull(c) \/ DetachGone(c)
    BY <1>2, <2>2 DEF AttachLock, AttachRefused, AttachFound, WelcomeSent, KeysAccepted,
       JoinFull, DetachGone, Expired
  <2>3. CASE StartRelay(c) \/ WriteControl(c) \/ WriteDone(c) \/ ChatReceived(c)
             \/ UpdateActivity(c) \/ UpdateFails(c)
    BY <1>2, <2>3 DEF StartRelay, WriteControl, WriteDone, ChatReceived, UpdateActivity,
       UpdateFails, Subscribed, Expired
  <2>4. CASE HandshakeFails(c) \/ RoomGone(c) \/ RecvLagged(c) \/ Disconnect(c) \/ WriteEnds(c)
    BY <1>3, <2>4 DEF HandshakeFails, RoomGone, RecvLagged, Disconnect, WriteEnds, Expired
  <2>5. CASE ChatSent(c)
    <3>1. Subscribed' = Subscribed
      BY <2>5 DEF ChatSent, Goto, Subscribed, IInv, TypeOK
    <3>2. \A d \in Conn : pc'[d] \in PreJoin => pc[d] \in PreJoin
      BY <2>5 DEF ChatSent, Goto, IInv, TypeOK
    <3>3. Publish(Event("chat", c, NoConn), Subscribed) /\ "chat" \in RelayTypes
      BY <2>5 DEF ChatSent, RelayTypes
    <3>4. UNCHANGED <<participants, view, snapshot>> /\ Expired' = Expired
      BY <2>5 DEF ChatSent, Expired
    <3> QED
      BY <1>4, <3>1, <3>2, <3>3, <3>4
  <2>6. CASE Relayed(c)
    <3>1. PICK t \in RelayTypes, to \in Conn \cup {NoConn} : Publish(Event(t, c, to), Subscribed)
      BY <2>6, FramesAssumption DEF Relayed
    <3>2. Subscribed' = Subscribed /\ pc' = pc
      BY <2>6 DEF Relayed, Subscribed
    <3>3. UNCHANGED <<participants, view, snapshot>> /\ Expired' = Expired
      BY <2>6 DEF Relayed, Expired
    <3> QED
      BY <1>4, <3>1, <3>2, <3>3
  <2>7. CASE Detach(c) /\ c \notin participants
    <3>1. participants' = participants /\ Expired' = Expired
      BY <2>7 DEF Detach, IInv, TypeOK, Expired
    <3> QED
      BY <1>2, <2>7, <3>1 DEF Detach
  <2> QED
    BY <1>6, <2>1, <2>2, <2>3, <2>4, <2>5, <2>6, <2>7 DEF Attach, Join, Session, Detached
<1>7. CASE CleanupLock \/ CleanupNothing \/ Age \/ (CleanupDelete /\ inMap)
  BY <1>1, <1>7 DEF CleanupLock, CleanupNothing, Age, CleanupDelete, Subscribed, Expired
<1>8. CASE CleanupRemove /\ ~inMap
  <2>1. participants' = participants /\ Expired' = Expired
    BY <1>8 DEF CleanupRemove, IInv, MemberInv, TypeOK, Expired
  <2> QED
    BY <1>1, <1>8, <2>1 DEF CleanupRemove, Subscribed
<1> QED
  BY <1>5, <1>6, <1>7, <1>8 DEF Next, Cleanup

-----------------------------------------------------------------------------
(* No membership event is queued twice, none for a peer that is known      *)
(* already, and no departure of a peer that is neither known nor on its    *)
(* way.                                                                    *)

Once(s, e) == \A i, j \in 1..Len(s) : s[i] = e /\ s[j] = e => i = j

OncePair(c, q) ==
  /\ Once(queue[c], PeerJoined(q)) /\ Once(queue[c], PeerLeft(q))
  /\ q \in Known(c) => ~Has(queue[c], PeerJoined(q))
  /\ Has(queue[c], PeerLeft(q)) => q \in Known(c) \/ Has(queue[c], PeerJoined(q))

OnceInv ==
  \A c \in Receiving :
    view[c] \cap snapshot[c] = {} /\ \A q \in Conn \ {c} : OncePair(c, q)

LEMMA OnceAppend ==
  ASSUME NEW s \in Seq(Events), NEW e \in Events, NEW x,
         Once(s, x), e = x => ~Has(s, x)
  PROVE  Once(Append(s, e), x)
<1> DEFINE t == Append(s, e)
<1> SUFFICES ASSUME NEW i \in 1..Len(t), NEW j \in 1..Len(t), t[i] = x, t[j] = x, i < j
             PROVE  FALSE
  BY DEF Once
<1>1. i \in 1..Len(s) /\ s[i] = x
  BY AppendFacts
<1>2. CASE j \in 1..Len(s)
  BY <1>1, <1>2, AppendFacts DEF Once
<1>3. CASE j = Len(s) + 1
  BY <1>1, <1>3, AppendFacts DEF Has
<1> QED
  BY <1>2, <1>3, AppendFacts

LEMMA OnceTail ==
  ASSUME NEW s \in Seq(Events), s # <<>>, NEW x, Once(s, x)
  PROVE  Once(Tail(s), x) /\ (Head(s) = x => ~Has(Tail(s), x))
<1> DEFINE t == Tail(s)
<1>1. \A i \in 1..Len(t) : i + 1 \in 1..Len(s) /\ t[i] = s[i + 1]
  BY TailFacts
<1>2. Once(t, x)
  BY <1>1 DEF Once
<1>3. ASSUME Head(s) = x, NEW i \in 1..Len(t), t[i] = x PROVE FALSE
  <2>1. 1 \in 1..Len(s) /\ s[1] = x /\ s[i + 1] = x /\ i + 1 # 1
    BY <1>1, <1>3, TailFacts
  <2> QED
    BY <1>1, <2>1 DEF Once
<1> QED
  BY <1>2, <1>3 DEF Has

(* An event reaches the receiver of c. *)
LEMMA OncePairAppend ==
  ASSUME NEW c, NEW q, OncePair(c, q), NEW e \in Events, queue[c] \in Seq(Events),
         queue'[c] = Append(queue[c], e), Known(c)' = Known(c),
         e = PeerJoined(q) => q \notin Known(c) /\ ~Has(queue[c], PeerJoined(q)),
         e = PeerLeft(q) => /\ ~Has(queue[c], PeerLeft(q))
                            /\ q \in Known(c) \/ Has(queue[c], PeerJoined(q))
  PROVE  OncePair(c, q)'
<1> DEFINE t == Append(queue[c], e)
<1>1. Once(t, PeerJoined(q)) /\ Once(t, PeerLeft(q))
  BY OnceAppend DEF OncePair
<1>2. \A x : Has(t, x) <=> Has(queue[c], x) \/ x = e
  BY HasAppend
<1> HIDE DEF t
<1>3. queue'[c] = t
  BY DEF t
<1> QED
  BY <1>1, <1>2, <1>3 DEF OncePair

(* c reads its next event. *)
LEMMA OncePairRecv ==
  ASSUME NEW c, NEW q, OncePair(c, q),
         queue[c] \in Seq(Events), queue[c] # <<>>, queue'[c] = Tail(queue[c]),
         q \in Known(c)' <=> \/ Head(queue[c]) = PeerJoined(q)
                             \/ q \in Known(c) /\ Head(queue[c]) # PeerLeft(q)
  PROVE  OncePair(c, q)'
<1> DEFINE h == Head(queue[c])
           t == Tail(queue[c])
           L == Known(c)'
<1>1. /\ Once(t, PeerJoined(q)) /\ Once(t, PeerLeft(q))
      /\ h = PeerJoined(q) => ~Has(t, PeerJoined(q))
      /\ h = PeerLeft(q) => ~Has(t, PeerLeft(q))
  BY OnceTail DEF OncePair
<1>2. \A x : Has(queue[c], x) <=> Has(t, x) \/ x = h
  BY HasTail
<1>3. q \in L <=> h = PeerJoined(q) \/ (q \in Known(c) /\ h # PeerLeft(q))
  OBVIOUS
<1>4. queue'[c] = t
  OBVIOUS
<1> HIDE DEF h, t, L
<1> QED
  BY <1>1, <1>2, <1>3, <1>4 DEF OncePair, L

(* What Recv does to the reader c and to nobody else. *)
LEMMA RecvFacts ==
  ASSUME IInv, NEW c \in Conn, Recv(c)
  PROVE  /\ c \in Receiving /\ queue[c] \in Seq(Events) /\ queue[c] # <<>>
         /\ queue'[c] = Tail(queue[c]) /\ Head(queue[c]) \in Events
         /\ snapshot[c] = {} /\ UNCHANGED <<exists, inMap, participants, snapshot>>
         /\ Receiving' = Receiving /\ Newcomers' = Newcomers
         /\ \A d \in Conn \ {c} : queue'[d] = queue[d] /\ view'[d] = view[d]
         /\ \A q \in Conn \ {c} :
              q \in view'[c] <=> \/ Head(queue[c]) = PeerJoined(q)
                                 \/ q \in view[c] /\ Head(queue[c]) # PeerLeft(q)
<1> DEFINE e == Head(queue[c])
<1> USE DEF db, room
<1>1. /\ queue[c] \in Seq(Events) /\ queue[c] # <<>> /\ queue'[c] = Tail(queue[c])
      /\ e \in Events /\ pc[c] = "relay" /\ ~lagged[c]
      /\ UNCHANGED <<exists, inMap, participants, snapshot, lagged>>
  BY DEF IInv, Recv, TypeOK
<1>2. snapshot[c] = {}
  BY <1>1 DEF IInv, IdleInv, Relaying
<1>3. \A d \in Conn \ {c} : queue'[d] = queue[d] /\ view'[d] = view[d] /\ pc'[d] = pc[d]
  BY DEF Recv, Goto, IInv, TypeOK
<1>4. pc'[c] \in {"relay", "expiring", "writing"}
  BY <1>1 DEF Recv, Goto, IInv, TypeOK
<1>5. Receiving' = Receiving /\ c \in Receiving
  BY <1>1, <1>3, <1>4 DEF Receiving, Subscribed, Relaying
<1>6. Newcomers' = Newcomers
  BY <1>1, <1>3, <1>4 DEF Newcomers, PreJoin
<1>7. \/ Skips(c, e) /\ view' = view
      \/ ~Skips(c, e) /\ view'[c] = ViewAfter(view[c], e)
  BY DEF Recv, IInv, TypeOK
<1>8. ASSUME NEW q \in Conn \ {c}
      PROVE  q \in view'[c] <=> e = PeerJoined(q) \/ (q \in view[c] /\ e # PeerLeft(q))
  BY <1>1, <1>7, <1>8, ViewAfterEvent, SkippedEvent
<1> QED
  BY <1>1, <1>2, <1>3, <1>5, <1>6, <1>8

LEMMA JoinedFacts ==
  ASSUME IInv, NEW c \in Conn, Joined(c)
  PROVE  /\ c \in Newcomers /\ Newcomers' = Newcomers \ {c}
         /\ inMap /\ UNCHANGED <<exists, inMap, view>>
         /\ c \notin participants /\ participants' = participants \cup {c}
         /\ c \in Receiving' /\ c \notin Receiving /\ Receiving' \ {c} \subseteq Receiving
         /\ queue[c] = <<>> /\ view[c] = {} /\ snapshot'[c] = participants
         /\ \A d \in Conn \ {c} : snapshot'[d] = snapshot[d]
         /\ \A d \in Receiving' : /\ queue[d] \in Seq(Events)
                                  /\ queue'[d] = Append(queue[d], PeerJoined(c))
<1> USE DEF db, room
<1>1. Subscribed' = Subscribed \cup {c} /\ c \notin Subscribed /\ pc[c] = "joining"
  BY DEF Joined, Goto, Subscribed, IInv, TypeOK, Relaying
<1>2. queue[c] = <<>> /\ ~lagged[c] /\ view[c] = {}
  BY <1>1 DEF IInv, IdleInv
<1>3. ~lagged'[c]
  <2>1. ~Full(c)
    BY <1>2, BoundsAssumption DEF Full
  <2> QED
    BY <1>2, <2>1 DEF Joined, Publish
<1>4. c \in Receiving' /\ c \notin Receiving
  BY <1>1, <1>3 DEF Receiving
<1>5. ASSUME NEW d \in Receiving'
      PROVE  /\ d \in Receiving \cup {c} /\ queue[d] \in Seq(Events)
             /\ queue'[d] = Append(queue[d], PeerJoined(c))
  <2>1. d \in Conn /\ d \in Subscribed \cup {c} /\ ~lagged'[d]
    BY <1>1 DEF Receiving, Subscribed
  <2>2. Publish(PeerJoined(c), Subscribed \cup {c})
    BY DEF Joined
  <2>3. ~lagged[d] /\ queue'[d] = Append(queue[d], PeerJoined(c))
    BY <2>1, <2>2, PublishedTo DEF IInv
  <2> QED
    BY <2>1, <2>3 DEF Receiving, IInv, TypeOK
<1>6. c \in Newcomers /\ Newcomers' = Newcomers \ {c}
  BY DEF Newcomers, PreJoin, Joined, Goto, IInv, TypeOK
<1>7. c \notin participants
  BY <1>1 DEF IInv, MemberInv, NoGhosts
<1> QED
  BY <1>2, <1>4, <1>5, <1>6, <1>7 DEF Joined, IInv, TypeOK

LEMMA DetachFacts ==
  ASSUME IInv, NEW c \in participants, Detach(c)
  PROVE  /\ c \in Conn /\ c \notin Receiving
         /\ inMap /\ UNCHANGED <<exists, inMap, view, snapshot>>
         /\ participants' = participants \ {c} /\ Newcomers' = Newcomers
         /\ \A d \in Receiving' : /\ d \in Receiving /\ queue[d] \in Seq(Events)
                                  /\ queue'[d] = Append(queue[d], PeerLeft(c))
<1> USE DEF db, room
<1>1. c \in Conn
  BY DEF IInv, TypeOK
<1>2. Subscribed' = Subscribed /\ c \notin Subscribed
  BY <1>1 DEF Detach, Goto, Subscribed, IInv, TypeOK, Relaying
<1>3. ASSUME NEW d \in Receiving'
      PROVE  /\ d \in Receiving /\ queue[d] \in Seq(Events)
             /\ queue'[d] = Append(queue[d], PeerLeft(c))
  BY <1>2, PublishedTo DEF Detach, Receiving, Subscribed, IInv, TypeOK
<1>4. Newcomers' = Newcomers
  BY <1>1 DEF Newcomers, PreJoin, Detach, Goto, IInv, TypeOK
<1> QED
  BY <1>1, <1>2, <1>3, <1>4 DEF Detach, Receiving

LEMMA RemoveFacts ==
  ASSUME IInv, CleanupRemove, inMap
  PROVE  /\ UNCHANGED <<view, snapshot>> /\ Newcomers' = Newcomers
         /\ participants' = {} /\ ~exists /\ ~exists' /\ ~inMap'
         /\ \A d \in Receiving' : /\ d \in Receiving /\ queue[d] \in Seq(Events)
                                  /\ queue'[d] = Append(queue[d], RoomExpired)
<1> USE DEF db, room
<1>1. Subscribed' = Subscribed
  BY DEF CleanupRemove, Subscribed
<1>2. ASSUME NEW d \in Receiving'
      PROVE  /\ d \in Receiving /\ queue[d] \in Seq(Events)
             /\ queue'[d] = Append(queue[d], RoomExpired)
  BY <1>1, PublishedTo DEF CleanupRemove, Receiving, Subscribed, IInv, TypeOK
<1> QED
  BY <1>2 DEF CleanupRemove, IInv, LockInv, Newcomers

LEMMA InitOnce == Init => OnceInv
BY DEF Init, OnceInv, Receiving, Subscribed, Relaying

LEMMA StepOnce ==
  ASSUME IInv, OnceInv, [Next]_vars
  PROVE  OnceInv'
<1> USE DEF Known
<1>1. CASE Quiet
  <2> SUFFICES ASSUME NEW d \in Receiving'
               PROVE  /\ (view[d] \cap snapshot[d] = {})'
                      /\ \A q \in Conn \ {d} : OncePair(d, q)'
    BY DEF OnceInv
  <2>1. d \in Receiving /\ view'[d] = view[d] /\ snapshot'[d] = snapshot[d]
    BY <1>1 DEF Quiet
  <2>2. queue[d] \in Seq(Events)
    BY <2>1 DEF Receiving, Subscribed, IInv, TypeOK
  <2>3. ASSUME NEW q \in Conn \ {d} PROVE OncePair(d, q)'
    <3>1. OncePair(d, q)
      BY <2>1 DEF OnceInv
    <3>2. CASE queue'[d] = queue[d]
      BY <2>1, <3>1, <3>2 DEF OncePair
    <3>3. ASSUME NEW t \in RelayTypes, NEW c \in Conn, NEW to \in Conn \cup {NoConn},
                 queue'[d] = Append(queue[d], Event(t, c, to))
          PROVE  OncePair(d, q)'
      <4> DEFINE e == Event(t, c, to)
      <4>1. e \in Events /\ e # PeerJoined(q) /\ e # PeerLeft(q)
        BY EventTypes, EventKinds
      <4> HIDE DEF e
      <4>2. queue'[d] = Append(queue[d], e) /\ Known(d)' = Known(d)
        BY <2>1, <3>3 DEF e
      <4> QED
        BY <2>2, <3>1, <4>1, <4>2, OncePairAppend
    <3> QED
      BY <1>1, <3>2, <3>3 DEF Quiet
  <2> QED
    BY <2>1, <2>3 DEF OnceInv
<1>2. ASSUME NEW c \in Conn, Joined(c) PROVE OnceInv'
  <2> SUFFICES ASSUME NEW d \in Receiving'
               PROVE  /\ (view[d] \cap snapshot[d] = {})'
                      /\ \A q \in Conn \ {d} : OncePair(d, q)'
    BY DEF OnceInv
  <2> DEFINE e == PeerJoined(c)
  <2>1. e \in Events /\ \A q : e # PeerLeft(q) /\ (e = PeerJoined(q) <=> q = c)
    BY EventTypes, EventKinds
  <2>2. queue[d] \in Seq(Events) /\ queue'[d] = Append(queue[d], e)
    BY <1>2, JoinedFacts
  <2> HIDE DEF e
  <2>3. CASE d = c
    <3>1. queue[d] = <<>> /\ view'[d] = {}
      BY <1>2, <2>3, JoinedFacts
    <3>2. \A x : Once(queue[d], x) /\ ~Has(queue[d], x)
      BY <3>1 DEF Once, Has
    <3>3. ASSUME NEW q \in Conn \ {d} PROVE OncePair(d, q)'
      <4>1. Once(queue'[d], PeerJoined(q)) /\ Once(queue'[d], PeerLeft(q))
        <5>1. \A x : Once(Append(queue[d], e), x)
          BY <2>1, <2>2, <3>2, OnceAppend
        <5> QED
          BY <2>2, <5>1
      <4>2. ~Has(queue'[d], PeerJoined(q)) /\ ~Has(queue'[d], PeerLeft(q))
        <5>1. \A x : Has(Append(queue[d], e), x) => x = e
          BY <2>1, <2>2, <3>2, HasAppend
        <5> QED
          BY <2>1, <2>2, <2>3, <5>1
      <4> QED
        BY <4>1, <4>2 DEF OncePair
    <3> QED
      BY <3>1, <3>3
  <2>4. CASE d # c
    <3>1. d \in Receiving /\ Known(d)' = Known(d) /\ view'[d] = view[d] /\ snapshot'[d] = snapshot[d]
      BY <1>2, <2>4, JoinedFacts DEF Receiving, Subscribed
    <3>2. ASSUME NEW q \in Conn \ {d} PROVE OncePair(d, q)'
      <4>1. OncePair(d, q) /\ PairInv(d, q)
        BY <3>1 DEF OnceInv, IInv, QueueInv
      <4>2. e = PeerJoined(q) => q \notin Known(d) /\ ~Has(queue[d], PeerJoined(q))
        BY <1>2, <2>1, <4>1, JoinedFacts DEF PairInv, Newcomers
      <4> QED
        BY <2>1, <2>2, <3>1, <4>1, <4>2, OncePairAppend
    <3> QED
      BY <3>1, <3>2 DEF OnceInv
  <2> QED
    BY <2>3, <2>4
<1>3. ASSUME NEW c \in Conn, PeerKeySent(c) PROVE OnceInv'
  <2>1. PICK p \in snapshot[c] : /\ snapshot' = [snapshot EXCEPT ![c] = @ \ {p}]
                                 /\ view' = [view EXCEPT ![c] = @ \cup {p}]
    BY <1>3 DEF PeerKeySent
  <2>2. \A d \in Conn : Known(d)' = Known(d)
    BY <2>1 DEF IInv, TypeOK
  <2>3. \A d \in Conn : view[d] \cap snapshot[d] = {} => (view[d] \cap snapshot[d] = {})'
    BY <2>1 DEF IInv, TypeOK
  <2>4. Receiving' = Receiving /\ queue' = queue /\ Receiving \subseteq Conn
    BY <1>3 DEF PeerKeySent, receiver, Receiving, Subscribed
  <2> HIDE DEF Known
  <2>5. \A d \in Receiving, q \in Conn : OncePair(d, q) => OncePair(d, q)'
    BY <2>2, <2>4 DEF OncePair
  <2> QED
    BY <2>3, <2>4, <2>5 DEF OnceInv
<1>4. ASSUME NEW c \in Conn, Recv(c) PROVE OnceInv'
  <2> SUFFICES ASSUME NEW d \in Receiving
               PROVE  /\ (view[d] \cap snapshot[d] = {})'
                      /\ \A q \in Conn \ {d} : OncePair(d, q)'
    BY <1>4, RecvFacts DEF OnceInv
  <2>1. d \in Conn
    BY DEF Receiving, Subscribed
  <2>2. CASE d = c
    <3>1. ASSUME NEW q \in Conn \ {d} PROVE OncePair(d, q)'
      <4>1. OncePair(d, q)
        BY DEF OnceInv
      <4> QED
        BY <1>4, <2>2, <4>1, RecvFacts, OncePairRecv
    <3> QED
      BY <1>4, <2>2, <3>1, RecvFacts
  <2>3. CASE d # c
    <3>1. view'[d] = view[d] /\ snapshot'[d] = snapshot[d] /\ queue'[d] = queue[d]
      BY <1>4, <2>1, <2>3, RecvFacts
    <3> QED
      BY <3>1 DEF OnceInv, OncePair
  <2> QED
    BY <2>2, <2>3
<1>5. ASSUME NEW c \in participants, Detach(c) PROVE OnceInv'
  <2> SUFFICES ASSUME NEW d \in Receiving'
               PROVE  /\ (view[d] \cap snapshot[d] = {})'
                      /\ \A q \in Conn \ {d} : OncePair(d, q)'
    BY DEF OnceInv
  <2> DEFINE e == PeerLeft(c)
  <2>1. e \in Events /\ \A q : e # PeerJoined(q) /\ (e = PeerLeft(q) <=> q = c)
    BY <1>5, EventTypes, EventKinds DEF IInv, TypeOK
  <2>2. /\ d \in Receiving /\ queue[d] \in Seq(Events) /\ queue'[d] = Append(queue[d], e)
        /\ view'[d] = view[d] /\ snapshot'[d] = snapshot[d]
    BY <1>5, DetachFacts
  <2> HIDE DEF e
  <2>3. ASSUME NEW q \in Conn \ {d} PROVE OncePair(d, q)'
    <3>1. OncePair(d, q) /\ PairInv(d, q)
      BY <2>2 DEF OnceInv, IInv, QueueInv
    <3>2. e = PeerLeft(q) => /\ ~Has(queue[d], PeerLeft(q))
                             /\ q \in Known(d) \/ Has(queue[d], PeerJoined(q))
      BY <1>5, <2>1, <3>1 DEF PairInv
    <3>3. Known(d)' = Known(d)
      BY <2>2
    <3> QED
      BY <2>1, <2>2, <3>1, <3>2, <3>3, OncePairAppend
  <2> QED
    BY <2>2, <2>3 DEF OnceInv
<1>6. CASE CleanupRemove /\ inMap
  <2> SUFFICES ASSUME NEW d \in Receiving'
               PROVE  /\ (view[d] \cap snapshot[d] = {})'
                      /\ \A q \in Conn \ {d} : OncePair(d, q)'
    BY DEF OnceInv
  <2>1. RoomExpired \in Events /\ \A q : RoomExpired # PeerJoined(q) /\ RoomExpired # PeerLeft(q)
    BY EventTypes, EventKinds
  <2>2. /\ d \in Receiving /\ queue[d] \in Seq(Events)
        /\ queue'[d] = Append(queue[d], RoomExpired) /\ Known(d)' = Known(d)
        /\ view'[d] = view[d] /\ snapshot'[d] = snapshot[d]
    BY <1>6, RemoveFacts
  <2>3. ASSUME NEW q \in Conn \ {d} PROVE OncePair(d, q)'
    <3>1. OncePair(d, q)
      BY <2>2 DEF OnceInv
    <3> QED
      BY <2>1, <2>2, <3>1, OncePairAppend
  <2> QED
    BY <2>2, <2>3 DEF OnceInv
<1>7. CASE CleanupDelete
  BY <1>7 DEF CleanupDelete, room, receiver, OnceInv, OncePair, Receiving, Subscribed
<1>8. CASE Restart
  BY <1>8 DEF Restart, OnceInv, Receiving, Subscribed, Relaying
<1> QED
  BY <1>1, <1>2, <1>3, <1>4, <1>5, <1>6, <1>7, <1>8, StepKinds

-----------------------------------------------------------------------------
(* Each kind of step is a step of Membership. *)

LEMMA InitMembership == Init => Members!Init
<1> SUFFICES ASSUME Init PROVE Members!Init
  OBVIOUS
<1>1. Receiving = {} /\ Newcomers = Conn
  BY DEF Init, Receiving, Subscribed, Relaying, Newcomers, PreJoin
<1> QED
  BY <1>1 DEF Init, Members!Init, Coming, Met, Going, Expired

(* What d is told of later, in terms of single peers. *)
LEMMA Books ==
  ASSUME NEW d \in Receiving
  PROVE  /\ Met[d] = view[d]
         /\ \A q : /\ q \in Coming[d] <=> /\ q \in Conn \ {d}
                                          /\ q \in snapshot[d] \/ Has(queue[d], PeerJoined(q))
                   /\ q \in Going[d] <=> q \in Conn \ {d} /\ Has(queue[d], PeerLeft(q))
BY DEF Coming, Met, Going

LEMMA BooksAfter ==
  ASSUME NEW d \in Receiving'
  PROVE  /\ Met'[d] = view'[d]
         /\ \A q : /\ q \in Coming'[d] <=> /\ q \in Conn \ {d}
                                           /\ q \in snapshot'[d] \/ Has(queue'[d], PeerJoined(q))
                   /\ q \in Going'[d] <=> q \in Conn \ {d} /\ Has(queue'[d], PeerLeft(q))
BY DEF Coming, Met, Going

(* An event that is no membership event changes no books. *)
LEMMA BooksKept ==
  ASSUME TypeOK, Receiving' \subseteq Receiving,
         \A d \in Receiving' :
           /\ view'[d] = view[d] /\ snapshot'[d] = snapshot[d]
           /\ \/ queue'[d] = queue[d]
              \/ \E e \in Events : /\ queue'[d] = Append(queue[d], e)
                                   /\ \A q \in Conn : e # PeerJoined(q) /\ e # PeerLeft(q)
  PROVE  Members!Keep
<1>1. ASSUME NEW d \in Receiving', NEW q \in Conn \ {d}
      PROVE  /\ Has(queue'[d], PeerJoined(q)) <=> Has(queue[d], PeerJoined(q))
             /\ Has(queue'[d], PeerLeft(q)) <=> Has(queue[d], PeerLeft(q))
  <2>1. queue[d] \in Seq(Events)
    BY DEF TypeOK, Receiving, Subscribed
  <2>2. CASE queue'[d] = queue[d]
    BY <2>2
  <2>3. ASSUME NEW e \in Events, queue'[d] = Append(queue[d], e),
               e # PeerJoined(q) /\ e # PeerLeft(q)
        PROVE  /\ Has(queue'[d], PeerJoined(q)) <=> Has(queue[d], PeerJoined(q))
               /\ Has(queue'[d], PeerLeft(q)) <=> Has(queue[d], PeerLeft(q))
    BY <2>1, <2>3, HasAppend
  <2> QED
    BY <2>2, <2>3
<1>2. ASSUME NEW d \in Receiving'
      PROVE  Coming'[d] = Coming[d] /\ Met'[d] = Met[d] /\ Going'[d] = Going[d]
  <2>1. d \in Receiving /\ view'[d] = view[d] /\ snapshot'[d] = snapshot[d]
    OBVIOUS
  <2>2. \A q : q \in Coming'[d] <=> q \in Coming[d]
    BY <1>1, <2>1, Books, BooksAfter
  <2>3. \A q : q \in Going'[d] <=> q \in Going[d]
    BY <1>1, <2>1, Books, BooksAfter
  <2>4. Met'[d] = Met[d]
    BY <2>1, Books, BooksAfter
  <2> QED
    BY <2>2, <2>3, <2>4
<1>3. /\ Coming' = [d \in Receiving' |-> Coming[d]]
      /\ Met' = [d \in Receiving' |-> Met[d]]
      /\ Going' = [d \in Receiving' |-> Going[d]]
  BY <1>2 DEF Coming, Met, Going
<1> QED
  BY <1>3 DEF Members!Keep, Members!Kept

LEMMA QuietMembership ==
  ASSUME IInv, Quiet
  PROVE  Members!Next
<1>1. \A d \in Receiving' :
        /\ view'[d] = view[d] /\ snapshot'[d] = snapshot[d]
        /\ \/ queue'[d] = queue[d]
           \/ \E e \in Events : /\ queue'[d] = Append(queue[d], e)
                                /\ \A q \in Conn : e # PeerJoined(q) /\ e # PeerLeft(q)
  BY EventTypes, EventKinds DEF Quiet
<1>2. Members!Keep
  BY <1>1, BooksKept DEF IInv, Quiet
<1> QED
  BY <1>2 DEF Members!Next, Members!GiveUp, Quiet

LEMMA JoinedMembership ==
  ASSUME IInv, NEW c \in Conn, Joined(c)
  PROVE  Members!Join(c)
<1>1. ASSUME NEW d \in Receiving'
      PROVE  /\ Coming'[d] = IF d = c THEN participants ELSE Coming[d] \cup {c}
             /\ Met'[d] = IF d = c THEN {} ELSE Met[d]
             /\ Going'[d] = IF d = c THEN {} ELSE Going[d]
  <2> DEFINE e == PeerJoined(c)
  <2>1. e \in Events /\ \A q : e # PeerLeft(q) /\ (e = PeerJoined(q) <=> q = c)
    BY EventTypes, EventKinds
  <2>2. queue[d] \in Seq(Events) /\ queue'[d] = Append(queue[d], e)
    BY JoinedFacts
  <2> HIDE DEF e
  <2>3. \A x : Has(queue'[d], x) <=> Has(queue[d], x) \/ x = e
    BY <2>1, <2>2, HasAppend
  <2>4. CASE d = c
    <3>1. /\ queue[d] = <<>> /\ view'[d] = {}
          /\ snapshot'[d] = participants /\ participants \subseteq Conn \ {d}
      BY <2>4, JoinedFacts DEF IInv, TypeOK
    <3>2. \A x : ~Has(queue[d], x)
      BY <3>1, HasEmpty
    <3>3. \A q : q \in Coming'[d] <=> q \in participants
      BY <2>1, <2>3, <2>4, <3>1, <3>2, BooksAfter
    <3>4. \A q : q \notin Going'[d]
      BY <2>1, <2>3, <2>4, <3>1, <3>2, BooksAfter
    <3>5. Met'[d] = {}
      BY <3>1, BooksAfter
    <3>6. Coming'[d] = participants /\ Going'[d] = {}
      BY <3>3, <3>4
    <3> QED
      BY <2>4, <3>5, <3>6
  <2>5. CASE d # c
    <3>1. d \in Receiving /\ d \in Conn /\ view'[d] = view[d] /\ snapshot'[d] = snapshot[d]
      BY <2>5, JoinedFacts DEF Receiving, Subscribed
    <3>2. \A q : q \in Coming'[d] <=> q \in Coming[d] \cup {c}
      BY <2>1, <2>3, <2>5, <3>1, Books, BooksAfter
    <3>3. \A q : q \in Going'[d] <=> q \in Going[d]
      BY <2>1, <2>3, <3>1, Books, BooksAfter
    <3>4. Met'[d] = Met[d]
      BY <3>1, Books, BooksAfter
    <3>5. Coming'[d] = Coming[d] \cup {c} /\ Going'[d] = Going[d]
      BY <3>2, <3>3
    <3> QED
      BY <2>5, <3>4, <3>5
  <2> QED
    BY <2>4, <2>5
<1>2. /\ Coming' = [d \in Receiving' |-> IF d = c THEN participants ELSE Coming[d] \cup {c}]
      /\ Met' = [d \in Receiving' |-> IF d = c THEN {} ELSE Met[d]]
      /\ Going' = [d \in Receiving' |-> IF d = c THEN {} ELSE Going[d]]
  BY <1>1 DEF Coming, Met, Going
<1>3. \E R \in SUBSET Receiving : Receiving' = R \cup {c}
  <2>1. Receiving' \ {c} \in SUBSET Receiving /\ Receiving' = (Receiving' \ {c}) \cup {c}
    BY JoinedFacts
  <2> QED
    BY <2>1
<1>4. /\ ~Expired /\ Expired' = Expired /\ c \in Newcomers /\ Newcomers' = Newcomers \ {c}
      /\ participants' = participants \cup {c}
  BY JoinedFacts DEF Expired
<1> QED
  BY <1>2, <1>3, <1>4 DEF Members!Join

LEMMA DetachMembership ==
  ASSUME IInv, NEW c \in participants, Detach(c)
  PROVE  Members!Leave(c)
<1>1. ASSUME NEW d \in Receiving'
      PROVE  /\ Coming'[d] = Coming[d] /\ Met'[d] = Met[d]
             /\ Going'[d] = Going[d] \cup {c}
  <2> DEFINE e == PeerLeft(c)
  <2>1. e \in Events /\ \A q : e # PeerJoined(q) /\ (e = PeerLeft(q) <=> q = c)
    BY DetachFacts, EventTypes, EventKinds
  <2>2. /\ d \in Receiving /\ view'[d] = view[d] /\ snapshot'[d] = snapshot[d]
        /\ queue[d] \in Seq(Events) /\ queue'[d] = Append(queue[d], e)
        /\ c \in Conn /\ c # d
    BY DetachFacts
  <2> HIDE DEF e
  <2>3. \A x : Has(queue'[d], x) <=> Has(queue[d], x) \/ x = e
    BY <2>1, <2>2, HasAppend
  <2>4. \A q : q \in Coming'[d] <=> q \in Coming[d]
    BY <2>1, <2>2, <2>3, Books, BooksAfter
  <2>5. ASSUME NEW q PROVE q \in Going'[d] <=> q \in Going[d] \cup {c}
    <3>1. Has(queue'[d], PeerLeft(q)) <=> Has(queue[d], PeerLeft(q)) \/ q = c
      BY <2>1, <2>3
    <3>2. q \in Going'[d] <=> q \in Conn \ {d} /\ Has(queue'[d], PeerLeft(q))
      BY BooksAfter
    <3>3. q \in Going[d] <=> q \in Conn \ {d} /\ Has(queue[d], PeerLeft(q))
      BY <2>2, Books
    <3> QED
      BY <2>2, <3>1, <3>2, <3>3
  <2>6. Met'[d] = Met[d]
    BY <2>2, Books, BooksAfter
  <2>7. Coming'[d] = Coming[d] /\ Going'[d] = Going[d] \cup {c}
    BY <2>4, <2>5
  <2> QED
    BY <2>6, <2>7
<1>2. /\ Coming' = [d \in Receiving' |-> Coming[d]]
      /\ Met' = [d \in Receiving' |-> Met[d]]
      /\ Going' = [d \in Receiving' |-> Going[d] \cup {c}]
  BY <1>1 DEF Coming, Met, Going
<1>3. /\ Receiving' \in SUBSET Receiving /\ Expired' = Expired /\ c \in participants \ Receiving
      /\ participants' = participants \ {c} /\ Newcomers' = Newcomers
  BY DetachFacts DEF Expired
<1> QED
  BY <1>2, <1>3 DEF Members!Leave, Members!Kept

LEMMA RemoveMembership ==
  ASSUME IInv, CleanupRemove, inMap
  PROVE  Members!Expire
<1>1. \A d \in Receiving' :
        /\ view'[d] = view[d] /\ snapshot'[d] = snapshot[d]
        /\ \/ queue'[d] = queue[d]
           \/ \E e \in Events : /\ queue'[d] = Append(queue[d], e)
                                /\ \A q \in Conn : e # PeerJoined(q) /\ e # PeerLeft(q)
  BY RemoveFacts, EventTypes, EventKinds
<1>2. Receiving' \subseteq Receiving
  BY RemoveFacts
<1>3. Members!Keep
  BY <1>1, <1>2, BooksKept DEF IInv
<1>4. ~Expired /\ Expired' = TRUE
  BY RemoveFacts DEF Expired
<1> QED
  BY <1>2, <1>3, <1>4, RemoveFacts DEF Members!Expire

(* The row of a room that nobody uses goes. *)
LEMMA DeleteMembership ==
  ASSUME IInv, CleanupDelete, ~inMap
  PROVE  Members!Expire
<1>1. Receiving' = Receiving /\ Newcomers' = Newcomers /\ UNCHANGED <<view, snapshot, queue>>
  BY DEF CleanupDelete, receiver, Receiving, Subscribed, Newcomers
<1>2. Members!Keep
  BY <1>1, BooksKept DEF IInv
<1>3. ~Expired /\ Expired' = TRUE /\ participants' = {}
  BY DEF CleanupDelete, room, Expired, IInv, MemberInv
<1> QED
  BY <1>1, <1>2, <1>3 DEF Members!Expire

LEMMA RestartMembership ==
  ASSUME IInv, Restart
  PROVE  Members!Restart
<1>1. Receiving' = {} /\ participants' = {}
  BY DEF Restart, Receiving, Subscribed, Relaying
<1>2. Newcomers' \in SUBSET Newcomers
  BY DEF Restart, Newcomers, PreJoin
<1>3. Members!Keep
  BY <1>1 DEF Members!Keep, Members!Kept, Coming, Met, Going
<1>4. Expired' \in {Expired, TRUE}
  BY DEF Restart, db, Expired
<1> QED
  BY <1>1, <1>2, <1>3, <1>4 DEF Members!Restart

(* The books of the reader c change at q, those of the others stay. *)
LEMMA BooksExcept ==
  ASSUME NEW c \in Receiving, Receiving' = Receiving,
         \A d \in Receiving \ {c} :
           view'[d] = view[d] /\ snapshot'[d] = snapshot[d] /\ queue'[d] = queue[d]
  PROVE  /\ Coming' = [Coming EXCEPT ![c] = Coming'[c]]
         /\ Met' = [Met EXCEPT ![c] = Met'[c]]
         /\ Going' = [Going EXCEPT ![c] = Going'[c]]
<1>1. \A d \in Receiving \ {c} :
        Coming'[d] = Coming[d] /\ Met'[d] = Met[d] /\ Going'[d] = Going[d]
  BY DEF Coming, Met, Going
<1> QED
  BY <1>1 DEF Coming, Met, Going

LEMMA PeerKeyMembership ==
  ASSUME IInv, OnceInv, NEW c \in Conn, PeerKeySent(c)
  PROVE  Members!Next
<1>1. PICK p \in snapshot[c] : /\ snapshot' = [snapshot EXCEPT ![c] = @ \ {p}]
                               /\ view' = [view EXCEPT ![c] = @ \cup {p}]
  BY DEF PeerKeySent
<1>2. /\ UNCHANGED <<participants, queue>> /\ Expired' = Expired
      /\ Receiving' = Receiving /\ Newcomers' = Newcomers
  BY DEF PeerKeySent, db, room, receiver, Receiving, Subscribed, Newcomers, Expired
<1>3. /\ p \in Conn \ {c} /\ snapshot'[c] = snapshot[c] \ {p} /\ view'[c] = view[c] \cup {p}
      /\ \A d \in Conn \ {c} : snapshot'[d] = snapshot[d] /\ view'[d] = view[d]
  BY <1>1 DEF IInv, TypeOK, SelfInv, Known
<1>4. CASE c \notin Receiving
  <2>1. \A d \in Receiving' : view'[d] = view[d] /\ snapshot'[d] = snapshot[d]
    BY <1>2, <1>3, <1>4 DEF Receiving, Subscribed
  <2>2. Members!Keep
    BY <1>2, <2>1, BooksKept DEF IInv
  <2> QED
    BY <1>2, <2>2 DEF Members!Next, Members!GiveUp
<1>5. CASE c \in Receiving
  <2>1. p \notin view[c] /\ ~Has(queue[c], PeerJoined(p))
    BY <1>1, <1>3, <1>5 DEF OnceInv, OncePair, Known
  <2>2. p \in Coming[c] /\ p \notin Met[c]
    BY <1>3, <1>5, <2>1, Books
  <2>3. \A q : q \in Coming'[c] <=> q \in Coming[c] \ {p}
    BY <1>2, <1>3, <1>5, <2>1, Books, BooksAfter
  <2>4. \A q : q \in Going'[c] <=> q \in Going[c]
    BY <1>2, <1>5, Books, BooksAfter
  <2>5. Met'[c] = Met[c] \cup {p}
    BY <1>2, <1>3, <1>5, Books, BooksAfter
  <2>6. Coming'[c] = Coming[c] \ {p} /\ Going'[c] = Going[c]
    BY <2>3, <2>4
  <2>7. Going' = Going
    BY <1>2, <1>5, <2>6, BooksExcept DEF Going
  <2>8. /\ Coming' = [Coming EXCEPT ![c] = Coming[c] \ {p}]
        /\ Met' = [Met EXCEPT ![c] = Met[c] \cup {p}]
    <3>1. \A d \in Receiving \ {c} :
            view'[d] = view[d] /\ snapshot'[d] = snapshot[d] /\ queue'[d] = queue[d]
      BY <1>2, <1>3 DEF Receiving, Subscribed
    <3> QED
      BY <1>2, <1>5, <2>5, <2>6, <3>1, BooksExcept
  <2>9. Members!Introduce(c, p)
    BY <1>2, <1>5, <2>2, <2>7, <2>8 DEF Members!Introduce
  <2> QED
    BY <1>3, <2>9 DEF Members!Next
<1> QED
  BY <1>4, <1>5

LEMMA RecvMembership ==
  ASSUME IInv, OnceInv, NEW c \in Conn, Recv(c)
  PROVE  Members!Next
<1> DEFINE h == Head(queue[c])
           t == Tail(queue[c])
<1>1. /\ c \in Receiving /\ queue[c] \in Seq(Events) /\ queue[c] # <<>> /\ queue'[c] = t
      /\ snapshot[c] = {} /\ snapshot'[c] = {} /\ participants' = participants
      /\ Receiving' = Receiving /\ Newcomers' = Newcomers /\ Expired' = Expired
      /\ \A d \in Receiving \ {c} :
           view'[d] = view[d] /\ snapshot'[d] = snapshot[d] /\ queue'[d] = queue[d]
      /\ \A q \in Conn \ {c} :
           q \in view'[c] <=> h = PeerJoined(q) \/ (q \in view[c] /\ h # PeerLeft(q))
  BY RecvFacts DEF Receiving, Subscribed, Expired
<1>2. \A x : Has(queue[c], x) <=> Has(t, x) \/ x = h
  BY <1>1, HasTail
<1>3. view[c] \subseteq Conn \ {c} /\ view'[c] \subseteq Conn \ {c}
  <2>1. [Next]_vars
    BY DEF Next, Session
  <2>2. IInv'
    BY <2>1, StepInv
  <2> QED
    BY <2>2 DEF IInv, TypeOK, SelfInv, Known
<1>4. ASSUME NEW q \in Conn \ {c}
      PROVE  /\ q \in Coming[c] <=> Has(queue[c], PeerJoined(q))
             /\ q \in Going[c] <=> Has(queue[c], PeerLeft(q))
             /\ q \in Coming'[c] <=> Has(t, PeerJoined(q))
             /\ q \in Going'[c] <=> Has(t, PeerLeft(q))
  BY <1>1, Books, BooksAfter
<1>5. /\ Coming[c] \subseteq Conn \ {c} /\ Coming'[c] \subseteq Conn \ {c}
      /\ Going[c] \subseteq Conn \ {c} /\ Going'[c] \subseteq Conn \ {c}
      /\ Met[c] = view[c] /\ Met'[c] = view'[c]
  BY <1>1, Books, BooksAfter
<1>6. /\ Coming' = [Coming EXCEPT ![c] = Coming'[c]]
      /\ Met' = [Met EXCEPT ![c] = Met'[c]]
      /\ Going' = [Going EXCEPT ![c] = Going'[c]]
  BY <1>1, BooksExcept
<1> HIDE DEF h, t
<1>7. ASSUME NEW q \in Conn \ {c}, h = PeerJoined(q)
      PROVE  Members!Introduce(c, q)
  <2>1. OncePair(c, q)
    BY <1>1 DEF OnceInv
  <2>2. q \in Coming[c] \ Met[c]
    BY <1>2, <1>4, <1>5, <1>7, <2>1 DEF OncePair, Known
  <2>3. ~Has(t, PeerJoined(q))
    BY <1>1, <1>7, <2>1, OnceTail DEF OncePair, h, t
  <2>4. ASSUME NEW r \in Conn \ {c}
        PROVE  /\ r \in Coming'[c] <=> r \in Coming[c] \ {q}
               /\ r \in Going'[c] <=> r \in Going[c]
               /\ r \in view'[c] <=> r \in view[c] \cup {q}
    <3>1. /\ PeerJoined(r) = h <=> r = q
          /\ PeerLeft(r) # h
      BY <1>7, EventKinds
    <3>2. /\ Has(queue[c], PeerJoined(r)) <=> Has(t, PeerJoined(r)) \/ r = q
          /\ Has(queue[c], PeerLeft(r)) <=> Has(t, PeerLeft(r))
      BY <1>2, <3>1
    <3> QED
      BY <1>1, <1>4, <2>3, <3>1, <3>2
  <2>5. Coming'[c] = Coming[c] \ {q} /\ Going'[c] = Going[c] /\ Met'[c] = Met[c] \cup {q}
    <3>1. \A r : r \in Coming'[c] <=> r \in Coming[c] \ {q}
      BY <1>5, <2>4
    <3>2. \A r : r \in Going'[c] <=> r \in Going[c]
      BY <1>5, <2>4
    <3>3. \A r : r \in Met'[c] <=> r \in Met[c] \cup {q}
      BY <1>3, <1>5, <2>4
    <3> QED
      BY <3>1, <3>2, <3>3
  <2>6. Going' = Going
    BY <1>1, <1>6, <2>5 DEF Going
  <2>7. /\ Coming' = [Coming EXCEPT ![c] = Coming[c] \ {q}]
        /\ Met' = [Met EXCEPT ![c] = Met[c] \cup {q}]
    BY <1>6, <2>5
  <2> QED
    BY <1>1, <2>2, <2>6, <2>7 DEF Members!Introduce
<1>8. ASSUME NEW q \in Conn \ {c}, h = PeerLeft(q)
      PROVE  Members!Dismiss(c, q)
  <2>1. OncePair(c, q) /\ PairInv(c, q)
    BY <1>1 DEF OnceInv, IInv, QueueInv
  <2>2. ~Has(t, PeerJoined(q)) /\ h # PeerJoined(q)
    BY <1>1, <1>8, <2>1, LeftForGoodTail, EventKinds DEF PairInv, h, t
  <2>3. q \in (Going[c] \cap Met[c]) \ Coming[c]
    <3>1. Has(queue[c], PeerLeft(q)) /\ ~Has(queue[c], PeerJoined(q))
      BY <1>2, <1>8, <2>2
    <3> QED
      BY <1>1, <1>4, <1>5, <2>1, <3>1 DEF OncePair, Known
  <2>4. ~Has(t, PeerLeft(q))
    BY <1>1, <1>8, <2>1, OnceTail DEF OncePair, h, t
  <2>5. ASSUME NEW r \in Conn \ {c}
        PROVE  /\ r \in Coming'[c] <=> r \in Coming[c]
               /\ r \in Going'[c] <=> r \in Going[c] \ {q}
               /\ r \in view'[c] <=> r \in view[c] \ {q}
    <3>1. /\ PeerLeft(r) = h <=> r = q
          /\ PeerJoined(r) # h
      BY <1>8, EventKinds
    <3>2. /\ Has(queue[c], PeerLeft(r)) <=> Has(t, PeerLeft(r)) \/ r = q
          /\ Has(queue[c], PeerJoined(r)) <=> Has(t, PeerJoined(r))
      BY <1>2, <3>1
    <3> QED
      BY <1>1, <1>4, <2>4, <3>1, <3>2
  <2>6. Coming'[c] = Coming[c] /\ Going'[c] = Going[c] \ {q} /\ Met'[c] = Met[c] \ {q}
    <3>1. \A r : r \in Coming'[c] <=> r \in Coming[c]
      BY <1>5, <2>5
    <3>2. \A r : r \in Going'[c] <=> r \in Going[c] \ {q}
      BY <1>5, <2>5
    <3>3. \A r : r \in Met'[c] <=> r \in Met[c] \ {q}
      BY <1>3, <1>5, <2>5
    <3> QED
      BY <3>1, <3>2, <3>3
  <2>7. Coming' = Coming
    BY <1>1, <1>6, <2>6 DEF Coming
  <2>8. /\ Going' = [Going EXCEPT ![c] = Going[c] \ {q}]
        /\ Met' = [Met EXCEPT ![c] = Met[c] \ {q}]
    BY <1>6, <2>6
  <2> QED
    BY <1>1, <2>3, <2>7, <2>8 DEF Members!Dismiss
<1>9. CASE \A q \in Conn \ {c} : h # PeerJoined(q) /\ h # PeerLeft(q)
  <2>1. ASSUME NEW r \in Conn \ {c}
        PROVE  /\ r \in Coming'[c] <=> r \in Coming[c]
               /\ r \in Going'[c] <=> r \in Going[c]
               /\ r \in view'[c] <=> r \in view[c]
    <3>1. PeerLeft(r) # h /\ PeerJoined(r) # h
      BY <1>9
    <3> QED
      BY <1>1, <1>2, <1>4, <3>1
  <2>2. Coming'[c] = Coming[c] /\ Going'[c] = Going[c] /\ Met'[c] = Met[c]
    <3>1. \A r : r \in Coming'[c] <=> r \in Coming[c]
      BY <1>5, <2>1
    <3>2. \A r : r \in Going'[c] <=> r \in Going[c]
      BY <1>5, <2>1
    <3>3. \A r : r \in Met'[c] <=> r \in Met[c]
      BY <1>3, <1>5, <2>1
    <3> QED
      BY <3>1, <3>2, <3>3
  <2>3. Coming' = Coming /\ Met' = Met /\ Going' = Going
    BY <1>1, <1>6, <2>2 DEF Coming, Met, Going
  <2>4. Members!Keep
    BY <1>1, <2>3 DEF Members!Keep, Members!Kept, Coming, Met, Going
  <2> QED
    BY <1>1, <2>4 DEF Members!Next, Members!GiveUp
<1> QED
  BY <1>7, <1>8, <1>9 DEF Members!Next

LEMMA MembershipStep ==
  ASSUME IInv, OnceInv, [Next]_vars
  PROVE  Members!Next
<1>1. \A c \in participants : c \in Conn
  BY DEF IInv, TypeOK
<1>2. ASSUME NEW c \in Conn, Joined(c) PROVE Members!Next
  BY <1>2, JoinedMembership DEF Members!Next
<1>3. ASSUME NEW c \in participants, Detach(c) PROVE Members!Next
  BY <1>1, <1>3, DetachMembership DEF Members!Next
<1>4. CASE (CleanupRemove /\ inMap) \/ (CleanupDelete /\ ~inMap)
  BY <1>4, RemoveMembership, DeleteMembership DEF Members!Next
<1>5. CASE Restart
  BY <1>5, RestartMembership DEF Members!Next
<1> QED
  BY <1>2, <1>3, <1>4, <1>5, QuietMembership, PeerKeyMembership, RecvMembership, StepKinds

LEMMA OnceInvariance == Spec => [](IInv /\ OnceInv)
<1>1. Init => IInv /\ OnceInv
  BY InitInv, InitOnce
<1>2. IInv /\ OnceInv /\ [Next]_vars => (IInv /\ OnceInv)'
  BY StepInv, StepOnce
<1> QED
  BY <1>1, <1>2, PTL DEF Spec

(* For any number of clients, of participants and of events a receiver may *)
(* be behind, and whatever cuts readers off: what the frames tell a client *)
(* of the others is what Membership says.                                  *)
THEOREM RoomImplementsMembership == Spec => ImplementsMembership
<1>1. Init => Members!Init
  BY InitMembership
<1>2. IInv /\ OnceInv /\ [Next]_vars => [Members!Next]_Members!vars
  BY MembershipStep
<1> QED
  BY <1>1, <1>2, OnceInvariance, PTL DEF Spec, ImplementsMembership, Members!Spec

-----------------------------------------------------------------------------
(* What Membership is good for, proved from its steps alone.               *)

ReadersInv ==
  /\ Newcomers \cap (participants \cup Receiving) = {}
  /\ participants \subseteq Conn /\ Receiving \subseteq Conn
  /\ ~Expired => Receiving \subseteq participants

(* c is to hear of every member, and of the departure of everybody else.   *)
BookInv(c) ==
  /\ Coming[c] \cup Met[c] \cup Going[c] \subseteq Conn \ (Newcomers \cup {c})
  /\ Going[c] \cap participants = {}
  /\ ~Expired => /\ participants \ {c} \subseteq Coming[c] \cup Met[c]
                 /\ (Coming[c] \cup Met[c]) \ participants \subseteq Going[c]
BooksInv == \A c \in Receiving : BookInv(c)

ToldAll ==
  ~Expired => \A c \in Receiving :
                Coming[c] = {} /\ Going[c] = {} => Met[c] = participants \ {c}

LEMMA InitBooks == Members!Init => ReadersInv /\ BooksInv
BY DEF Members!Init, ReadersInv, BooksInv, BookInv

LEMMA StepReaders ==
  ASSUME ReadersInv, [Members!Next]_Members!vars
  PROVE  ReadersInv'
<1> USE DEF ReadersInv
<1>1. CASE UNCHANGED Members!vars
  BY <1>1 DEF Members!vars
<1>2. CASE Members!GiveUp
  BY <1>2 DEF Members!GiveUp
<1>3. ASSUME NEW q \in Conn, Members!Join(q) PROVE ReadersInv'
  BY <1>3 DEF Members!Join
<1>4. ASSUME NEW q \in Conn, Members!Leave(q) PROVE ReadersInv'
  BY <1>4 DEF Members!Leave
<1>5. ASSUME NEW c \in Conn, NEW q \in Conn, Members!Introduce(c, q) \/ Members!Dismiss(c, q)
      PROVE  ReadersInv'
  BY <1>5 DEF Members!Introduce, Members!Dismiss
<1>6. CASE Members!Expire
  BY <1>6 DEF Members!Expire
<1>7. CASE Members!Restart
  BY <1>7 DEF Members!Restart
<1> QED
  BY <1>1, <1>2, <1>3, <1>4, <1>5, <1>6, <1>7 DEF Members!Next

LEMMA BookDomains ==
  DOMAIN Coming = Receiving /\ DOMAIN Met = Receiving /\ DOMAIN Going = Receiving
BY DEF Coming, Met, Going

LEMMA StepBooks ==
  ASSUME ReadersInv, BooksInv, [Members!Next]_Members!vars
  PROVE  BooksInv'
<1> USE DEF BooksInv, BookInv
<1>1. CASE UNCHANGED Members!vars
  BY <1>1 DEF Members!vars
<1>2. CASE Members!GiveUp
  BY <1>2 DEF Members!GiveUp, Members!Keep, Members!Kept
<1>3. ASSUME NEW q \in Conn, Members!Join(q) PROVE BooksInv'
  <2>1. \A c \in Receiving' \ {q} : c \in Receiving
    BY <1>3 DEF Members!Join
  <2>2. q \notin participants /\ q \notin Newcomers' /\ participants \cap Newcomers' = {}
    BY <1>3 DEF Members!Join, ReadersInv
  <2> QED
    BY <1>3, <2>1, <2>2 DEF Members!Join, ReadersInv
<1>4. ASSUME NEW q \in Conn, Members!Leave(q) PROVE BooksInv'
  BY <1>4 DEF Members!Leave, Members!Kept, ReadersInv
<1>5. ASSUME NEW c \in Conn, NEW q \in Conn, Members!Introduce(c, q) PROVE BooksInv'
  <2>1. /\ Coming'[c] = Coming[c] \ {q} /\ Met'[c] = Met[c] \cup {q}
        /\ \A d \in Receiving \ {c} : Coming'[d] = Coming[d] /\ Met'[d] = Met[d]
    BY <1>5, BookDomains DEF Members!Introduce
  <2>2. /\ q \in Coming[c] /\ Receiving' = Receiving /\ Going' = Going
        /\ UNCHANGED participants /\ Newcomers' = Newcomers /\ Expired' = Expired
    BY <1>5 DEF Members!Introduce
  <2>3. ASSUME NEW d \in Receiving PROVE BookInv(d)'
    <3>1. CASE d = c
      <4>1. Coming'[d] \cup Met'[d] = Coming[d] \cup Met[d]
        BY <2>1, <2>2, <3>1
      <4> QED
        BY <2>2, <4>1
    <3>2. CASE d # c
      BY <2>1, <2>2, <3>2
    <3> QED
      BY <3>1, <3>2
  <2> QED
    BY <2>2, <2>3
<1>6. ASSUME NEW c \in Conn, NEW q \in Conn, Members!Dismiss(c, q) PROVE BooksInv'
  <2>1. /\ Met'[c] = Met[c] \ {q} /\ Going'[c] = Going[c] \ {q}
        /\ \A d \in Receiving \ {c} : Met'[d] = Met[d] /\ Going'[d] = Going[d]
    BY <1>6, BookDomains DEF Members!Dismiss
  <2>2. /\ q \in Going[c] \ Coming[c] /\ Receiving' = Receiving /\ Coming' = Coming
        /\ UNCHANGED participants /\ Newcomers' = Newcomers /\ Expired' = Expired
    BY <1>6 DEF Members!Dismiss
  <2>3. ASSUME NEW d \in Receiving PROVE BookInv(d)'
    <3>1. CASE d = c
      <4>1. /\ Coming'[d] \cup Met'[d] = (Coming[d] \cup Met[d]) \ {q}
            /\ Going'[d] = Going[d] \ {q} /\ q \in Going[d]
        BY <2>1, <2>2, <3>1
      <4>2. q \notin participants
        BY <4>1
      <4> QED
        BY <2>2, <4>1, <4>2
    <3>2. CASE d # c
      BY <2>1, <2>2, <3>2
    <3> QED
      BY <3>1, <3>2
  <2> QED
    BY <2>2, <2>3
<1>7. CASE Members!Expire
  BY <1>7 DEF Members!Expire, Members!Keep, Members!Kept
<1>8. CASE Members!Restart
  BY <1>8 DEF Members!Restart
<1> QED
  BY <1>1, <1>2, <1>3, <1>4, <1>5, <1>6, <1>7, <1>8 DEF Members!Next

(* In whatever implements Membership, no reader is introduced to itself or *)
(* to somebody who has not joined, or told that a participant has left; it *)
(* knows of every other participant or will be told, and it will hear the  *)
(* departure of whoever it knows of that is none.                          *)
THEOREM MembershipBooks == ImplementsMembership => [](ReadersInv /\ BooksInv)
<1>1. Members!Init => ReadersInv /\ BooksInv
  BY InitBooks
<1>2. ReadersInv /\ BooksInv /\ [Members!Next]_Members!vars => (ReadersInv /\ BooksInv)'
  BY StepReaders, StepBooks
<1> QED
  BY <1>1, <1>2, PTL DEF ImplementsMembership, Members!Spec

(* Whatever implements Membership leaves a client that nothing is left to  *)
(* be told to with exactly the other participants.                         *)
THEOREM MembershipIsKnown == ImplementsMembership => []ToldAll
<1>1. ReadersInv /\ BooksInv => ToldAll
  BY DEF ReadersInv, BooksInv, BookInv, ToldAll
<1> QED
  BY <1>1, MembershipBooks, PTL

(* In whatever implements Membership, a connection that has ceased to read *)
(* or has given up never reads (again), and an expired room stays expired  *)
(* and gains no participant, whatever is still under way in it.            *)
NoReturn ==
  /\ (Newcomers \cup Receiving)' \subseteq Newcomers \cup Receiving
  /\ Newcomers' \subseteq Newcomers
  /\ Expired => Expired' /\ participants' \subseteq participants

THEOREM CutOffForGood == ImplementsMembership => [][NoReturn]_(Members!vars)
<1>1. ASSUME [Members!Next]_(Members!vars) PROVE NoReturn
  <2> USE DEF NoReturn
  <2>1. CASE UNCHANGED Members!vars
    BY <2>1 DEF Members!vars
  <2>2. ASSUME NEW q \in Conn, Members!Join(q) PROVE NoReturn
    BY <2>2 DEF Members!Join
  <2>3. ASSUME NEW q \in Conn, Members!Leave(q) PROVE NoReturn
    BY <2>3 DEF Members!Leave
  <2>4. ASSUME NEW c \in Conn, NEW q \in Conn, Members!Introduce(c, q) \/ Members!Dismiss(c, q)
        PROVE  NoReturn
    BY <2>4 DEF Members!Introduce, Members!Dismiss
  <2>5. CASE Members!GiveUp \/ Members!Expire
    BY <2>5 DEF Members!GiveUp, Members!Expire
  <2>6. CASE Members!Restart
    <3>1. Expired' \in {Expired, TRUE}
      BY <2>6 DEF Members!Restart
    <3>2. Expired => Expired'
      BY <3>1 DEF Expired
    <3> QED
      BY <2>6, <3>2 DEF Members!Restart
  <2> QED
    BY <1>1, <2>1, <2>2, <2>3, <2>4, <2>5, <2>6 DEF Members!Next
<1> QED
  BY <1>1, PTL DEF ImplementsMembership, Members!Spec

-----------------------------------------------------------------------------
(* What the lock and the frames of a client come to                        *)

(* Whoever waits for the lock of the RoomMap (attach, join, detach and the *)
(* cleanup) waits for one task, and that one waits for the database alone: *)
(* never for a socket, which may block for ever, nor for another lock.     *)
WaitsForDatabase == lock \in Conn => pc[lock] \in {"attaching", "found"}

THEOREM LockNeedsNoSocket == Spec => []WaitsForDatabase
<1>1. IInv => WaitsForDatabase
  BY DEF IInv, LockInv, WaitsForDatabase
<1> QED
  BY <1>1, Invariance, PTL

(* Nobody has yet to be told of a peer it knows, by peer_key or            *)
(* peer_joined, nor of one peer twice; nor twice that a peer left, nor of  *)
(* the departure of a peer whom it has not heard of by then.               *)
THEOREM ToldOnce == Spec => []OnceInv
BY OnceInvariance, PTL

(* All readers read one log, each a contiguous part of it that begins with *)
(* its own join: a step that sends anything appends the same event to the  *)
(* queue of every reader, newcomers included, and an event leaves a queue  *)
(* at its head, read, or with a reader that is cut off (AppState::join     *)
(* subscribes the newcomer and sends its peer_joined under one lock).      *)
OneOrder ==
  \/ /\ Receiving' \subseteq Receiving
     /\ \A c \in Receiving' :
          queue'[c] = queue[c] \/ (Recv(c) /\ queue'[c] = Tail(queue[c]))
  \/ \E e \in Events : \A c \in Receiving' :
       /\ queue'[c] = Append(queue[c], e) /\ ~Recv(c)
       /\ c \notin Receiving => e = PeerJoined(c) /\ queue[c] = <<>>

LEMMA OrderStep ==
  ASSUME IInv, [Next]_vars
  PROVE  OneOrder
<1> USE DEF OneOrder
<1>1. \A c \in Receiving \cup Receiving' : c \in Conn /\ queue[c] \in Seq(Events)
  BY DEF Receiving, Subscribed, IInv, TypeOK
<1>2. ASSUME NEW c \in Receiving', NEW e \in Events, queue'[c] = Append(queue[c], e)
      PROVE  ~Recv(c)
  <2> SUFFICES ASSUME Recv(c) PROVE FALSE
    OBVIOUS
  <2>1. c \in Conn /\ queue[c] \in Seq(Events) /\ Len(queue[c]) \in Nat
    BY <1>1
  <2>2. queue[c] # <<>> /\ queue'[c] = Tail(queue[c])
    BY <2>1, RecvFacts
  <2>3. Len(Tail(queue[c])) = Len(queue[c]) - 1
    BY <2>1, <2>2, TailFacts
  <2>4. Len(Append(queue[c], e)) = Len(queue[c]) + 1
    BY <2>1, AppendFacts
  <2> QED
    BY <1>2, <2>1, <2>2, <2>3, <2>4
<1>3. CASE Quiet
  <2>1. CASE \A d \in Receiving' : queue'[d] = queue[d]
    BY <1>3, <2>1 DEF Quiet
  <2>2. CASE \E t \in RelayTypes, c \in Conn, to \in Conn \cup {NoConn} :
               \A d \in Receiving' : queue'[d] = Append(queue[d], Event(t, c, to))
    <3>1. PICK e \in Events : \A d \in Receiving' : queue'[d] = Append(queue[d], e)
      BY <2>2, EventTypes
    <3> QED
      BY <1>2, <1>3, <3>1 DEF Quiet
  <2> QED
    BY <1>3, <2>1, <2>2 DEF Quiet
<1>4. ASSUME NEW d \in Conn, Joined(d) PROVE OneOrder
  <2>1. /\ PeerJoined(d) \in Events /\ queue[d] = <<>> /\ Receiving' \ {d} \subseteq Receiving
        /\ \A c \in Receiving' : queue'[c] = Append(queue[c], PeerJoined(d))
    BY <1>4, JoinedFacts, EventTypes
  <2>2. \A c \in Receiving' : ~Recv(c)
    BY <1>2, <2>1
  <2> QED
    BY <2>1, <2>2
<1>5. ASSUME NEW d \in Conn, PeerKeySent(d) PROVE OneOrder
  BY <1>5 DEF PeerKeySent, receiver, Receiving, Subscribed
<1>6. ASSUME NEW d \in Conn, Recv(d) PROVE OneOrder
  BY <1>1, <1>6, RecvFacts
<1>7. ASSUME NEW d \in participants, Detach(d) PROVE OneOrder
  BY <1>2, <1>7, DetachFacts, EventTypes
<1>8. CASE CleanupRemove /\ inMap
  BY <1>2, <1>8, RemoveFacts, EventTypes
<1>9. CASE CleanupDelete /\ ~inMap
  BY <1>9 DEF CleanupDelete, receiver, Receiving, Subscribed
<1>10. CASE Restart
  BY <1>10 DEF Restart, Receiving, Subscribed, Relaying
<1> QED
  BY <1>3, <1>4, <1>5, <1>6, <1>7, <1>8, <1>9, <1>10, StepKinds

THEOREM EventsInOneOrder == Spec => [][OneOrder]_vars
BY OrderStep, Invariance, PTL DEF Spec

(* The safety core of DeletedRoomEmpties: whatever is sent meanwhile, no   *)
(* event slips in before a room_expired that is queued, and each one read  *)
(* brings it nearer, until the session takes it or is cut off.  As every   *)
(* session of a deleted room has one (ExpiryReaches), it is a bounded      *)
(* number of reads from its end, whatever its peers still send.            *)
EndNears ==
  \A c \in Receiving : \A i \in 1..Len(queue[c]) :
    queue[c][i] = RoomExpired =>
      \/ c \notin Receiving' \/ pc'[c] = "expiring"
      \/ \E j \in 1..i : /\ j <= Len(queue'[c]) /\ queue'[c][j] = RoomExpired
                         /\ Recv(c) => j < i

THEOREM EndDrawsNearer == Spec => [][EndNears]_vars
<1>1. ASSUME IInv, [Next]_vars, NEW c \in Receiving, c \in Receiving',
             NEW i \in 1..Len(queue[c]), queue[c][i] = RoomExpired
      PROVE  \/ pc'[c] = "expiring"
             \/ \E j \in 1..i : /\ j <= Len(queue'[c]) /\ queue'[c][j] = RoomExpired
                                /\ Recv(c) => j < i
  <2>1. c \in Conn /\ queue[c] \in Seq(Events) /\ Len(queue[c]) \in Nat
    BY <1>1 DEF IInv, TypeOK, Receiving, Subscribed
  <2>2. CASE Recv(c)
    <3>1. /\ queue'[c] = Tail(queue[c]) /\ Head(queue[c]) = queue[c][1]
          /\ Len(Tail(queue[c])) = Len(queue[c]) - 1
          /\ \A j \in 1..Len(Tail(queue[c])) : Tail(queue[c])[j] = queue[c][j + 1]
      BY <1>1, <2>1, <2>2, RecvFacts, TailFacts
    <3>2. CASE i = 1
      <4>1. Head(queue[c]) = RoomExpired
        BY <1>1, <3>1, <3>2
      <4>2. ~Skips(c, Head(queue[c])) /\ Head(queue[c]).type = "room_expired"
        BY <2>1, <4>1, ConnAssumption DEF Skips, RoomExpired, Event
      <4> QED
        BY <1>1, <2>1, <2>2, <4>2 DEF Recv, Goto, IInv, TypeOK
    <3>3. CASE i # 1
      <4> DEFINE k == i - 1
      <4>1. k \in 1..i /\ k < i /\ k + 1 = i /\ k <= Len(queue[c]) - 1
        BY <2>1, <3>3
      <4> HIDE DEF k
      <4>2. k \in 1..Len(Tail(queue[c])) /\ k <= Len(queue'[c])
        BY <2>1, <3>1, <4>1
      <4>3. Tail(queue[c])[k] = queue[c][k + 1]
        BY <3>1, <4>2
      <4>4. queue'[c][k] = RoomExpired
        BY <1>1, <3>1, <4>1, <4>3
      <4> QED
        BY <4>1, <4>2, <4>4
    <3> QED
      BY <3>2, <3>3
  <2>3. CASE ~Recv(c)
    <3>1. \/ queue'[c] = queue[c]
          \/ \E e \in Events : queue'[c] = Append(queue[c], e)
      BY <1>1, <2>3, OrderStep DEF OneOrder
    <3>2. ASSUME NEW e \in Events, queue'[c] = Append(queue[c], e)
          PROVE  Len(queue'[c]) = Len(queue[c]) + 1 /\ queue'[c][i] = queue[c][i]
      BY <2>1, <3>2, AppendFacts
    <3>3. i \in 1..i /\ i <= Len(queue'[c]) /\ queue'[c][i] = RoomExpired
      <4>1. CASE queue'[c] = queue[c]
        BY <1>1, <2>1, <4>1
      <4>2. ASSUME NEW e \in Events, queue'[c] = Append(queue[c], e)
            PROVE  i <= Len(queue'[c]) /\ queue'[c][i] = RoomExpired
        BY <1>1, <2>1, <3>2, <4>2
      <4> QED
        BY <2>1, <3>1, <4>1, <4>2
    <3> QED
      BY <2>3, <3>3
  <2> QED
    BY <2>2, <2>3
<1>2. ASSUME IInv, [Next]_vars PROVE EndNears
  BY <1>1, <1>2 DEF EndNears
<1> QED
  BY <1>2, Invariance, PTL DEF Spec

(* The creator a room names has been told so in its welcome frame, unless  *)
(* its session is over (attach); OneCreator says what does not follow.     *)
CreatorKnows == \A c \in Conn : creator_id = c => told[c] = c \/ pc[c] = "closed"

LEMMA StepCreator ==
  ASSUME TypeOK, CreatorKnows, [Next]_vars
  PROVE  CreatorKnows'
<1> USE ConnAssumption DEF CreatorKnows, TypeOK, room
<1>1. ASSUME creator_id' \in {creator_id, NoConn}, told' = told,
             \A d \in Conn : pc[d] = "closed" => pc'[d] = "closed"
      PROVE  CreatorKnows'
  BY <1>1
<1>2. ASSUME NEW c \in Conn, NEW place, Goto(c, place), pc[c] # "closed",
             UNCHANGED <<creator_id, told>>
      PROVE  CreatorKnows'
  BY <1>1, <1>2 DEF Goto
<1>3. ASSUME NEW c \in Conn, AttachInsert(c) PROVE CreatorKnows'
  BY <1>3 DEF AttachInsert, Goto
<1>4. ASSUME NEW c \in Conn, Detached(c) PROVE CreatorKnows'
  <2>1. /\ creator_id' \in {creator_id, NoConn}
        /\ told' = [told EXCEPT ![c] = NoConn] /\ pc' = [pc EXCEPT ![c] = "closed"]
    BY <1>4 DEF Detached, Detach, DetachGone, Goto, CreatorWithout
  <2> QED
    BY <2>1
<1>5. ASSUME NEW c \in Conn, AttachLock(c) \/ AttachRefused(c) \/ AttachFound(c) \/ Join(c)
      PROVE  CreatorKnows'
  BY <1>2, <1>5 DEF AttachLock, AttachRefused, AttachFound, Join, Joined, JoinFull, RoomGone,
                    Leave
<1>6. ASSUME NEW c \in Conn, Session(c) PROVE CreatorKnows'
  <2>1. CASE PeerKeySent(c) \/ Relayed(c)
    BY <1>1, <2>1 DEF PeerKeySent, Relayed
  <2>2. CASE Recv(c)
    BY <1>1, <2>2 DEF Recv, Goto
  <2>3. CASE HandshakeFails(c) \/ RecvLagged(c) \/ WriteEnds(c) \/ Disconnect(c)
    BY <1>2, <2>3 DEF HandshakeFails, RecvLagged, WriteEnds, Disconnect, Leave, Writing
  <2>4. CASE WelcomeSent(c) \/ KeysAccepted(c) \/ StartRelay(c) \/ WriteControl(c)
             \/ WriteDone(c) \/ ChatReceived(c) \/ UpdateActivity(c) \/ UpdateFails(c)
             \/ ChatSent(c)
    BY <1>2, <2>4 DEF WelcomeSent, KeysAccepted, StartRelay, WriteControl, WriteDone,
                      ChatReceived, UpdateActivity, UpdateFails, ChatSent
  <2> QED
    BY <1>6, <2>1, <2>2, <2>3, <2>4 DEF Session
<1>7. CASE Cleanup \/ Age \/ UNCHANGED vars
  BY <1>1, <1>7 DEF Cleanup, CleanupLock, CleanupDelete, CleanupNothing, CleanupRemove, Age,
                    vars
<1>8. CASE Restart
  BY <1>8 DEF Restart
<1> QED
  BY <1>3, <1>4, <1>5, <1>6, <1>7, <1>8 DEF Next, Attach

THEOREM CreatorIsTold == Spec => []CreatorKnows
<1>1. Init => CreatorKnows
  BY ConnAssumption DEF Init, CreatorKnows
<1>2. TypeOK /\ CreatorKnows /\ [Next]_vars => CreatorKnows'
  BY StepCreator
<1> QED
  BY <1>1, <1>2, TypeCorrect, PTL DEF Spec
=============================================================================
