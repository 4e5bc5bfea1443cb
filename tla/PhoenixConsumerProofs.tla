------------------------- MODULE PhoenixConsumerProofs -------------------------
(***************************************************************************)
(* What a consumer of PhoenixTransport may rely on: replies and events     *)
(* reach the subscription they belong to, a topic is joined once and       *)
(* counts as joined while the server feeds it, disconnecting is final, and *)
(* every step is one that StreamContract allows.  Line numbers are those   *)
(* of src/src/stream/transport/phoenix.ts.                                 *)
(***************************************************************************)
EXTENDS PhoenixProofs

Pending == pendingJoins \cup pendingLeaves

\* A ref names one channel.
RefsUnique == \A ch, other \in channels : ch.ref = other.ref => ch = other

\* The latest join of a subscription opened the channel with its ref, and asked
\* for the filter that the subscription still has.
ChannelsMatch ==
  \A ch \in channels :
    /\ ch.ref # NoRef
    /\ \A i \in SubIds :
         sub[i].joinRef = ch.ref => ch.sub = i /\ ch.filter = sub[i].filter

\* Every live topic is joined while the socket is open.
OpenIsJoined == isConnected => \A i \in Live : sub[i].joinRef # NoRef

\* A caller that shares a subscription has asked for no more than its filter.
CallersCovered ==
  \A i \in SubIds :
    /\ sub[i].handlers \subseteq sub[i].callbacks
    /\ \A c \in sub[i].callbacks : told[c] # "idle" /\ wants[c] \subseteq sub[i].filter
    /\ i > subCount => sub[i].callbacks = {}

\* A caller that has not subscribed yet has asked for nothing.
IdleWantsNothing == \A c \in Callers : told[c] = "idle" => wants[c] = {}

\* The inductive invariant of delivery, next to TypeOK and Standing.
Delivery ==
  /\ RepliesCorrelated
  /\ RefsUnique
  /\ ChannelsMatch
  /\ OpenIsJoined
  /\ CallersCovered
  /\ IdleWantsNothing
  /\ NoStaleEvents

\* A channel that was not left is that of the latest join of a live topic.
ChannelsOwned ==
  \A ch \in channels :
    /\ ch.topic = sub[ch.sub].topic /\ ch.sub <= subCount
    /\ IF ch.left THEN ch.sub \notin Live
                  ELSE ch.sub \in Live /\ ch.ref = sub[ch.sub].joinRef

\* A subscription waits to rejoin only while it is live and has no channel.
RejoinsNeeded ==
  \A i \in SubIds : sub[i].rejoinTimer =>
    /\ i \in Live
    /\ ~sub[i].joined
    /\ \A ch \in channels : ch.ref # sub[i].joinRef

\* A join waits for a reply that the server still owes.
JoinsOwed ==
  isConnected => \A p \in pendingJoins :
    \E ch \in channels : ch.ref = p.ref /\ ch.sub = p.sub /\ ~ch.up

\* Nobody shares two subscriptions, and nobody asked for less than everything.
OneTopicEach ==
  /\ \A i, j \in SubIds : sub[i].callbacks \cap sub[j].callbacks # {} => i = j
  /\ \A i \in SubIds : i <= subCount => sub[i].filter = Events

\* The inductive invariant of sharing, next to Delivery.
Sharing ==
  /\ ChannelsOwned
  /\ RejoinsNeeded
  /\ JoinsOwed
  /\ OneTopicEach
  /\ JoinedMeansFed

-----------------------------------------------------------------------------
(* Replies are correlated                                                  *)

\* handleOpen gives every live subscription a ref of its own.
LEMMA RefAtOpenFresh ==
  ASSUME TypeOK
  PROVE  /\ \A i \in Live : RefAtOpen(i) \in Nat /\ RefAtOpen(i) > refCounter
         /\ \A i, j \in Live : RefAtOpen(i) = RefAtOpen(j) => i = j
<1>1. IsFiniteSet(Live) /\ Live \subseteq SubIds /\ refCounter \in Nat
  <2>1. IsFiniteSet(SubIds)
    BY FS_Interval, BoundsAssumption DEF SubIds
  <2> QED
    BY <2>1, FS_Subset DEF Live, TypeOK, SubscriptionsTypeOK
<1> DEFINE upTo(i) == {j \in Live : j <= i}
<1>2. ASSUME NEW i \in Live
      PROVE  IsFiniteSet(upTo(i)) /\ Cardinality(upTo(i)) \in Nat /\ i \in upTo(i)
  <2>1. upTo(i) \subseteq Live /\ i \in upTo(i)
    BY <1>1 DEF SubIds
  <2> QED
    BY <1>1, <2>1, FS_Subset, FS_CardinalityType
<1>3. ASSUME NEW i \in Live
      PROVE  Cardinality(upTo(i)) > 0
  <2>1. Cardinality(upTo(i)) # 0
    BY <1>2, FS_EmptySet
  <2> QED
    BY <1>2, <2>1
<1>4. ASSUME NEW i \in Live, NEW j \in Live, i < j
      PROVE  Cardinality(upTo(i)) # Cardinality(upTo(j))
  <2>1. \A k \in Live : k \in Int
    BY <1>1 DEF SubIds
  <2>3. upTo(i) \subseteq upTo(j) /\ j \notin upTo(i)
    BY <2>1, <1>4
  <2>2. upTo(i) # upTo(j)
    BY <1>2, <2>3
  <2> QED
    BY <1>2, <2>3, <2>2, FS_Subset
<1>5. \A i \in Live : RefAtOpen(i) = refCounter + Cardinality(upTo(i))
  BY DEF RefAtOpen
<1> HIDE DEF upTo
<1>6. ASSUME NEW i \in Live, NEW j \in Live, RefAtOpen(i) = RefAtOpen(j)
      PROVE  i = j
  <2>1. Cardinality(upTo(i)) = Cardinality(upTo(j))
    BY <1>1, <1>2, <1>5, <1>6
  <2>2. i \in Int /\ j \in Int
    BY <1>1 DEF SubIds
  <2> QED
    BY <1>4, <2>1, <2>2
<1>7. ASSUME NEW i \in Live
      PROVE  RefAtOpen(i) \in Nat /\ RefAtOpen(i) > refCounter
  BY <1>1, <1>2, <1>3, <1>5
<1> QED
  BY <1>6, <1>7

\* One more reply is waited for, on an open socket and under a new ref.
Awaits(p) ==
  /\ p.ref > refCounter
  /\ socket' = "open"
  /\ Pending' = Pending \cup {p}

\* How a step may change the replies that are waited for: onopen joins what is
\* live, one request is sent, or some of them are settled.
LEMMA PendingSteps ==
  ASSUME TypeOK, [Contained]_vars
  PROVE  \/ HandleOpen
         \/ \E p \in [ref : Nat, sub : SubIds] : Awaits(p)
         \/ Pending' \subseteq Pending
<1> DEFINE Fewer == Pending' \subseteq Pending
           More == \E p \in [ref : Nat, sub : SubIds] : Awaits(p)
<1>a. refCounter \in Nat
  BY DEF TypeOK, SubscriptionsTypeOK
<1>1. ASSUME pendingJoins' \subseteq pendingJoins, pendingLeaves' \subseteq pendingLeaves
      PROVE  Fewer
  BY <1>1 DEF Pending
<1>2. ASSUME UNCHANGED replyVars
      PROVE  Fewer
  BY <1>1, <1>2 DEF replyVars
<1>3. ASSUME clearPendingReplies
      PROVE  Fewer
  BY <1>1, <1>3 DEF clearPendingReplies
<1>4. ASSUME NEW r \in {refCounter + 1, refCounter + 2}, NEW i \in SubIds, socket' = "open",
             \/ /\ pendingJoins' = pendingJoins \cup {[ref |-> r, sub |-> i]}
                /\ UNCHANGED pendingLeaves
             \/ /\ pendingLeaves' = pendingLeaves \cup {[ref |-> r, sub |-> i]}
                /\ UNCHANGED pendingJoins
      PROVE  More
  <2> DEFINE p == [ref |-> r, sub |-> i]
  <2>1. p \in [ref : Nat, sub : SubIds] /\ p.ref > refCounter
    BY <1>a
  <2>2. Pending' = Pending \cup {p}
    BY <1>4 DEF Pending
  <2> QED
    BY <1>4, <2>1, <2>2 DEF Awaits
<1> HIDE DEF Fewer, More
<1>5. ASSUME ConnectIfNeeded, isConnected
      PROVE  socket' = "open"
  BY <1>5 DEF ConnectIfNeeded, isConnected
<1>6. ASSUME UNCHANGED connVars, isConnected
      PROVE  socket' = "open"
  BY <1>6 DEF connVars, isConnected
<1>7. ASSUME Disconnect \/ HandleClose
      PROVE  Fewer
  BY <1>3, <1>7, Zenon DEF Disconnect, DropEverything, HandleClose
<1>8. ASSUME NEW reaction, HeartbeatTimeout(reaction)
      PROVE  Fewer
  BY <1>2, <1>3, <1>8, Zenon DEF HeartbeatTimeout, DropEverything
<1>9. ASSUME Connect \/ ReconnectTimeout
      PROVE  Fewer
  BY <1>2, <1>9, Zenon DEF Connect, ReconnectTimeout
<1>10. ASSUME SendHeartbeat \/ HeartbeatReply \/ SocketDrop
       PROVE  Fewer
  BY <1>2, <1>10, Zenon DEF SendHeartbeat, HeartbeatReply, SocketDrop
<1>11. ASSUME NEW c \in Callers, NEW t \in Topics, NEW w \in Requests, SubscribeNew(c, t, w)
       PROVE  More \/ Fewer
  <2>1. CASE isConnected
    <3>1. /\ pendingJoins' = pendingJoins \cup {[ref |-> refCounter + 1, sub |-> subCount + 1]}
          /\ UNCHANGED pendingLeaves /\ ConnectIfNeeded
      BY <1>11, <2>1, Zenon DEF SubscribeNew
    <3>2. subCount + 1 \in SubIds
      BY <1>11, BoundsAssumption DEF SubscribeNew, TypeOK, SubscriptionsTypeOK, SubIds
    <3> QED
      BY <1>4, <1>5, <2>1, <3>1, <3>2
  <2>2. CASE ~isConnected
    <3>1. UNCHANGED <<pendingJoins, pendingLeaves>>
      BY <1>11, <2>2, Zenon DEF SubscribeNew
    <3> QED
      BY <1>1, <3>1
  <2> QED
    BY <2>1, <2>2
<1>12. ASSUME NEW c \in Callers, NEW t \in Topics, NEW w \in Requests, SubscribeShared(c, t, w)
       PROVE  More \/ Fewer
  <2> DEFINE i == subscriptions[t]
             r == IF sub[i].joinRef = NoRef THEN refCounter + 1 ELSE refCounter + 2
  <2>1. CASE WidensOnline(i, w)
    <3>1. /\ pendingJoins' = pendingJoins \cup {[ref |-> r, sub |-> i]}
          /\ UNCHANGED pendingLeaves /\ ConnectIfNeeded /\ isConnected
      BY <1>12, <2>1, Zenon DEF SubscribeShared, WidensOnline
    <3>2. i \in SubIds
      BY <1>12 DEF SubscribeShared, TypeOK, SubscriptionsTypeOK
    <3>3. r \in {refCounter + 1, refCounter + 2}
      OBVIOUS
    <3> HIDE DEF i, r
    <3> QED
      BY <1>4, <1>5, <3>1, <3>2, <3>3
  <2>2. CASE ~WidensOnline(i, w)
    <3>1. UNCHANGED <<pendingJoins, pendingLeaves>>
      BY <1>12, <2>2, Zenon DEF SubscribeShared
    <3> QED
      BY <1>1, <3>1
  <2> QED
    BY <2>1, <2>2
<1>i. ASSUME NEW c \in Callers, NEW t \in Topics, SubscribeInterrupted(c, t)
      PROVE  Fewer
  BY <1>2, <1>i, Zenon DEF SubscribeInterrupted
<1>13. ASSUME NEW i \in SubIds, NEW s, LeaveTopic(i, s)
       PROVE  More \/ Fewer
  <2>1. CASE isConnected /\ sub[i].joinRef # NoRef
    <3>1. /\ pendingLeaves' = pendingLeaves \cup {[ref |-> refCounter + 1, sub |-> i]}
          /\ UNCHANGED pendingJoins /\ UNCHANGED connVars
      BY <1>13, <2>1, Zenon DEF LeaveTopic
    <3> QED
      BY <1>4, <1>6, <2>1, <3>1
  <2>2. CASE ~(isConnected /\ sub[i].joinRef # NoRef)
    <3>1. UNCHANGED <<pendingJoins, pendingLeaves>>
      BY <1>13, <2>2, Zenon DEF LeaveTopic
    <3> QED
      BY <1>1, <3>1
  <2> QED
    BY <2>1, <2>2
<1>14. ASSUME NEW t \in Topics, Unsubscribe(t)
       PROVE  More \/ Fewer
  <2>1. subscriptions[t] \in SubIds
    BY <1>14 DEF Unsubscribe, TypeOK, SubscriptionsTypeOK
  <2> QED
    BY <1>13, <1>14, <2>1, Zenon DEF Unsubscribe
<1>15. ASSUME NEW c \in Callers, NEW i \in SubIds, RemoveHandler(c, i)
       PROVE  More \/ Fewer
  BY <1>2, <1>13, <1>15, Zenon DEF RemoveHandler
<1>16. ASSUME NEW i \in SubIds, RejoinTimeout(i)
       PROVE  More \/ Fewer
  <2>1. CASE isConnected /\ subscriptions[sub[i].topic] # NoSub
    <3>1. /\ pendingJoins' = pendingJoins \cup {[ref |-> refCounter + 1, sub |-> i]}
          /\ UNCHANGED pendingLeaves /\ UNCHANGED connVars
      BY <1>16, <2>1, Zenon DEF RejoinTimeout
    <3> QED
      BY <1>4, <1>6, <2>1, <3>1
  <2>2. CASE ~(isConnected /\ subscriptions[sub[i].topic] # NoSub)
    <3>1. UNCHANGED <<pendingJoins, pendingLeaves>>
      BY <1>16, <2>2, Zenon DEF RejoinTimeout
    <3> QED
      BY <1>1, <3>1
  <2> QED
    BY <2>1, <2>2
<1>17. ASSUME NEW p, JoinTimeout(p) \/ LeaveTimeout(p)
       PROVE  Fewer
  <2>1. /\ pendingJoins' \in {pendingJoins, pendingJoins \ {p}}
        /\ pendingLeaves' \in {pendingLeaves, pendingLeaves \ {p}}
    BY <1>17 DEF JoinTimeout, LeaveTimeout
  <2> QED
    BY <1>1, <2>1
<1>18. ASSUME NEW ch, NEW x, JoinReply(ch, x)
       PROVE  Fewer
  <2>1. /\ pendingJoins' = pendingJoins \ {p \in pendingJoins : p.ref = ch.ref}
        /\ UNCHANGED pendingLeaves
    BY <1>18, Zenon DEF JoinReply
  <2> QED
    BY <1>1, <2>1
<1>19. ASSUME NEW l, LeaveReply(l)
       PROVE  Fewer
  <2>1. /\ pendingLeaves' = pendingLeaves \ {p \in pendingLeaves : p.ref = l.ref}
        /\ UNCHANGED pendingJoins
    BY <1>19, Zenon DEF LeaveReply
  <2> QED
    BY <1>1, <2>1
<1>20. ASSUME NEW ch, NEW e, NEW r, ChannelDownIgnored(ch) \/ Dispatch(ch, e, r)
       PROVE  Fewer
  BY <1>2, <1>20, Zenon DEF ChannelDownIgnored, Dispatch
<1>21. ASSUME NEW ch, NEW reaction, ChannelDown(ch, reaction)
       PROVE  Fewer
  BY <1>2, <1>3, <1>21, Zenon DEF ChannelDown, DropEverything
<1>22. ASSUME UNCHANGED vars
       PROVE  Fewer
  <2>1. UNCHANGED replyVars
    BY <1>22 DEF vars
  <2> QED
    BY <1>2, <2>1
<1>23. CASE Consumer
  BY <1>i, <1>7, <1>9, <1>11, <1>12, <1>14, <1>15, <1>23, Zenon DEF Consumer, Fewer, More
<1>24. CASE Timers
  BY <1>8, <1>9, <1>10, <1>16, <1>17, <1>24, Zenon DEF Timers, Fewer, More
<1>25. CASE SocketEvents
  BY <1>7, <1>10, <1>25, Zenon DEF SocketEvents, Fewer, More
<1>26. CASE Server
  BY <1>10, <1>18, <1>19, <1>20, <1>21, <1>26, Zenon DEF Server, Fewer, More
<1> QED
  BY <1>22, <1>23, <1>24, <1>25, <1>26, Zenon DEF Contained, Fewer, More

\* The handlers of a socket go with it, and a new one has a ref of its own.
LEMMA CorrelatedStep ==
  ASSUME TypeOK, RepliesCorrelated, [Contained]_vars
  PROVE  RepliesCorrelated'
<1>a. /\ \A p \in Pending : p.ref \in Nat /\ p.ref <= refCounter
      /\ refCounter \in Nat
  BY DEF Pending, TypeOK, RepliesTypeOK, SubscriptionsTypeOK, PendingReply, Refs
<1>b. /\ \A p, q \in Pending : p.ref = q.ref => p = q
      /\ socket \in {"none", "connecting"} => Pending = {}
  BY DEF RepliesCorrelated, Pending
<1> DEFINE Distinct == \A p, q \in Pending' : p.ref = q.ref => p = q
           Gone == socket' \in {"none", "connecting"} => Pending' = {}
<1>c. SUFFICES Distinct /\ Gone
  BY DEF RepliesCorrelated, Pending
<1>1. CASE HandleOpen
  <2>1. pendingJoins' = {[ref |-> RefAtOpen(i), sub |-> i] : i \in Live}
    BY <1>1, <1>b DEF HandleOpen, Pending
  <2>2. pendingLeaves' = {}
    BY <1>1, <1>b DEF HandleOpen, Pending
  <2>3. Pending' = {[ref |-> RefAtOpen(i), sub |-> i] : i \in Live}
    BY <2>1, <2>2 DEF Pending
  <2>4. \A i, j \in Live : RefAtOpen(i) = RefAtOpen(j) => i = j
    BY RefAtOpenFresh
  <2>5. socket' = "open"
    BY <1>1 DEF HandleOpen
  <2> QED
    BY <2>3, <2>4, <2>5
<1>2. ASSUME NEW p \in [ref : Nat, sub : SubIds], Awaits(p)
      PROVE  Distinct /\ Gone
  BY <1>2, <1>a, <1>b DEF Awaits
<1>3. CASE Pending' \subseteq Pending
  <2>1. CASE clearPendingReplies
    BY <2>1 DEF clearPendingReplies, Pending
  <2>2. CASE ~clearPendingReplies
    <3>1. socket \notin {"none", "connecting"} => socket' \notin {"none", "connecting"}
      BY <2>2, SocketSteps
    <3> QED
      BY <1>3, <1>b, <3>1
  <2> QED
    BY <2>1, <2>2
<1> QED
  BY <1>1, <1>2, <1>3, PendingSteps

\* A teardown that an exception ends has dropped every reply handler before.
LEMMA CorrelatedAborted ==
  ASSUME Aborted
  PROVE  RepliesCorrelated'
<1>1. \E last : drainAborted(last)
  BY Zenon DEF Aborted, DisconnectAborted, HandleCloseAborted, HeartbeatTimeoutAborted
<1> QED
  BY <1>1 DEF drainAborted, RepliesCorrelated

\* Replies are correlated by ref: a ref waits for one reply at most, and no
\* handler waits for a ref of a socket that is gone (pendingReplies).
THEOREM RepliesCorrelatedHolds == Spec => []RepliesCorrelated
<1>1. Init => RepliesCorrelated
  BY DEF Init, RepliesCorrelated
<1>2. TypeOK /\ RepliesCorrelated /\ [Next]_vars => RepliesCorrelated'
  BY CorrelatedStep, CorrelatedAborted DEF Next
<1> QED
  BY <1>1, <1>2, TypeCorrect, PTL DEF Spec

-----------------------------------------------------------------------------
(* Steps that join nothing                                                 *)

\* Subscription object s is o, but for its timer, its progress and handlers
\* that are gone.
Kin(s, o) ==
  /\ s.topic = o.topic /\ s.joinRef = o.joinRef /\ s.filter = o.filter
  /\ s.callbacks = o.callbacks /\ s.handlers \subseteq o.handlers

SubsKept == \A i \in SubIds : Kin(sub'[i], sub[i])

Like(ch, o) ==
  ch.topic = o.topic /\ ch.sub = o.sub /\ ch.ref = o.ref /\ ch.filter = o.filter

\* The channels in S are some of those there are, one for each ref.
Retained(S) ==
  /\ \A ch, other \in S : ch.ref = other.ref => ch = other
  /\ \A ch \in S : \E o \in channels : Like(ch, o)

ChannelsKept == Retained(channels')

\* No topic gets a subscription, no caller starts to ask for one.
NothingNew ==
  /\ UNCHANGED <<subCount, wants>>
  /\ \A t \in Topics : subscriptions'[t] \in {subscriptions[t], NoSub}
  /\ \A c \in Callers : told'[c] = "idle" => told[c] = "idle"
  /\ socket' = "open" => socket = "open"

NoJoin == SubsKept /\ ChannelsKept /\ NothingNew /\ UNCHANGED heard

\* Every step that changes what is joined starts a join; all the others only
\* lose channels, handlers and topics.
LEMMA KinSteps ==
  ASSUME TypeOK
  PROVE  /\ UNCHANGED sub => SubsKept
         /\ \A i \in SubIds : Kin(WithoutRejoinTimers[i], sub[i])
         /\ \A i \in SubIds : \A s :
              sub' = [sub EXCEPT ![i] = s] /\ Kin(s, sub[i]) => SubsKept
         /\ \A i \in SubIds : \A s :
              sub' = [WithoutRejoinTimers EXCEPT ![i] = s] /\ Kin(s, sub[i]) => SubsKept
<1>a. sub \in [SubIds -> Subscription]
  BY DEF TypeOK, SubscriptionsTypeOK
<1>1. \A i \in SubIds : Kin(sub[i], sub[i])
  BY DEF Kin
<1>2. UNCHANGED sub => SubsKept
  BY <1>1 DEF SubsKept
<1>3. ASSUME NEW i \in SubIds
      PROVE  Kin(WithoutRejoinTimers[i], sub[i])
  BY <1>a DEF Kin, WithoutRejoinTimers, Subscription
<1>4. ASSUME NEW i \in SubIds, NEW s, sub' = [sub EXCEPT ![i] = s], Kin(s, sub[i])
      PROVE  SubsKept
  BY <1>a, <1>1, <1>4 DEF SubsKept
<1>5. DOMAIN WithoutRejoinTimers = SubIds
  BY DEF WithoutRejoinTimers
<1> HIDE DEF WithoutRejoinTimers
<1>6. ASSUME NEW i \in SubIds, NEW s, sub' = [WithoutRejoinTimers EXCEPT ![i] = s],
             Kin(s, sub[i])
      PROVE  SubsKept
  <2> SUFFICES ASSUME NEW j \in SubIds PROVE Kin(sub'[j], sub[j])
    BY DEF SubsKept
  <2>1. sub'[j] = IF j = i THEN s ELSE WithoutRejoinTimers[j]
    BY <1>5, <1>6
  <2> QED
    BY <1>3, <1>6, <2>1
<1> QED
  BY <1>2, <1>3, <1>4, <1>6

LEMMA RetainedChannels ==
  ASSUME TypeOK, RefsUnique
  PROVE  /\ Retained(channels)
         /\ \A S : S \subseteq channels => Retained(S)
         /\ \A r : Retained(MarkLeft(r))
         /\ \A ch \in channels : Retained((channels \ {ch}) \cup {[ch EXCEPT !.up = TRUE]})
<1>a. channels \subseteq Channel
  BY DEF TypeOK, ServerTypeOK
<1>1. \A S : S \subseteq channels => Retained(S)
  BY DEF Retained, RefsUnique, Like
<1>2. ASSUME NEW r
      PROVE  Retained(MarkLeft(r))
  <2> DEFINE marked(ch) == IF ch.ref = r THEN [ch EXCEPT !.left = TRUE] ELSE ch
  <2>1. MarkLeft(r) = {marked(ch) : ch \in channels}
    BY DEF MarkLeft
  <2>2. \A o \in channels : Like(marked(o), o)
    BY <1>a DEF Channel, Like
  <2> HIDE DEF marked
  <2>3. \A ch \in MarkLeft(r) : \E o \in channels : ch = marked(o) /\ Like(ch, o)
    BY <2>1, <2>2
  <2> QED
    BY <2>3 DEF RefsUnique, Retained, Like
<1>3. ASSUME NEW ch \in channels
      PROVE  Retained((channels \ {ch}) \cup {[ch EXCEPT !.up = TRUE]})
  <2> DEFINE answered == [ch EXCEPT !.up = TRUE]
  <2>1. Like(answered, ch)
    BY <1>a DEF Channel, Like
  <2> HIDE DEF answered
  <2>2. Retained((channels \ {ch}) \cup {answered})
    BY <2>1 DEF RefsUnique, Retained, Like
  <2> QED
    BY <2>2 DEF answered
<1> QED
  BY <1>1, <1>2, <1>3

LEMMA ChannelSteps ==
  ASSUME TypeOK, RefsUnique
  PROVE  /\ UNCHANGED channels => ChannelsKept
         /\ channels' \subseteq channels => ChannelsKept
         /\ \A r : channels' = MarkLeft(r) => ChannelsKept
         /\ \A ch \in channels :
              channels' = (channels \ {ch}) \cup {[ch EXCEPT !.up = TRUE]} => ChannelsKept
  BY RetainedChannels DEF ChannelsKept

LEMMA JoinSteps ==
  ASSUME TypeOK, MapConsistent, RefsUnique, [Contained]_vars
  PROVE  \/ HandleOpen
         \/ \E c \in Callers, t \in Topics, w \in Requests :
               SubscribeNew(c, t, w) \/ SubscribeShared(c, t, w)
         \/ \E i \in SubIds : RejoinTimeout(i)
         \/ \E c \in Callers, t \in Topics : SubscribeInterrupted(c, t)
         \/ \E ch \in channels, e \in Events :
               \E joinRef \in {ch.ref, NoRef} : Dispatch(ch, e, joinRef)
         \/ NoJoin
<1>a. /\ sub \in [SubIds -> Subscription]
      /\ subscriptions \in [Topics -> SubIds \cup {NoSub}]
      /\ channels \subseteq Channel
  BY DEF TypeOK, SubscriptionsTypeOK, ServerTypeOK
<1>b. ASSUME NEW i \in SubIds
      PROVE  DOMAIN sub[i] = {"topic", "joinRef", "joined", "filter", "rejoinTimer",
                              "rejoinTries", "callbacks", "handlers"}
  BY <1>a DEF Subscription
<1>1. ASSUME SubsKept, ChannelsKept, UNCHANGED <<subscriptions, subCount, callerVars>>,
             socket' = "open" => socket = "open"
      PROVE  NoJoin
  BY <1>1 DEF NoJoin, NothingNew, callerVars
<1>2. ASSUME UNCHANGED <<subVars, callerVars, channels>>,
             socket' = "open" => socket = "open"
      PROVE  NoJoin
  BY <1>1, <1>2, KinSteps, ChannelSteps DEF subVars
<1>3. ASSUME DropEverything, SubsKept
      PROVE  NoJoin
  <2>1. /\ subscriptions' = [t \in Topics |-> NoSub] /\ socket' = "none" /\ channels' = {}
        /\ UNCHANGED <<subCount, callerVars>>
    BY <1>3, Zenon DEF DropEverything, LoseSocket
  <2>2. ChannelsKept
    BY <2>1, ChannelSteps
  <2> QED
    BY <1>3, <2>1, <2>2 DEF NoJoin, NothingNew, callerVars
<1>4. ASSUME sub' = WithoutRejoinTimers
      PROVE  SubsKept
  BY <1>4, KinSteps DEF SubsKept
<1>5. CASE Disconnect
  BY <1>3, <1>4, <1>5, Zenon DEF Disconnect
<1>6. ASSUME ConnectIfNeeded
      PROVE  socket' = "open" => socket = "open"
  BY <1>6 DEF ConnectIfNeeded
<1>7. ASSUME Connect \/ ReconnectTimeout
      PROVE  NoJoin
  <2>1. ConnectIfNeeded /\ UNCHANGED <<subVars, callerVars, serverVars>>
    BY <1>7, Zenon DEF Connect, ReconnectTimeout
  <2> QED
    BY <1>2, <1>6, <2>1 DEF serverVars
<1>8. ASSUME SendHeartbeat \/ HeartbeatReply
      PROVE  NoJoin
  <2>1. UNCHANGED <<socket, subVars, callerVars, serverVars>>
    BY <1>8 DEF SendHeartbeat, HeartbeatReply, Proven, connVars
  <2> QED
    BY <1>2, <2>1 DEF serverVars
<1>9. ASSUME SocketDrop \/ HandleClose
      PROVE  NoJoin
  <2>1. /\ socket' # "open" /\ channels' = {} /\ UNCHANGED <<subVars, callerVars>>
    BY <1>9 DEF SocketDrop, HandleClose, LoseSocket
  <2> QED
    BY <1>1, <2>1, KinSteps, ChannelSteps DEF subVars
<1>10. ASSUME NEW reaction, HeartbeatTimeout(reaction)
       PROVE  NoJoin
  <2>1. \/ socket' = "none" /\ channels' = {} /\ UNCHANGED <<subVars, callerVars>>
        \/ DropEverything /\ sub' = WithoutRejoinTimers
        \/ UNCHANGED <<connVars, subVars, callerVars, serverVars>>
    BY <1>10, Zenon DEF HeartbeatTimeout, LoseSocket
  <2>2. ASSUME socket' = "none" /\ channels' = {} /\ UNCHANGED <<subVars, callerVars>>
        PROVE  NoJoin
    BY <1>1, <2>2, KinSteps, ChannelSteps DEF subVars
  <2>3. ASSUME UNCHANGED <<connVars, subVars, callerVars, serverVars>>
        PROVE  NoJoin
    BY <1>2, <2>3 DEF connVars, serverVars
  <2> QED
    BY <1>3, <1>4, <2>1, <2>2, <2>3, Zenon
<1>11. ASSUME NEW i \in Live, NEW s, Kin(s, sub[i]), s \in Subscription, LeaveTopic(i, s)
       PROVE  NoJoin
  <2>1. i \in SubIds /\ sub[i].topic \in Topics
    BY <1>a DEF Live, Subscription
  <2> DEFINE settled == [s EXCEPT !.rejoinTimer = FALSE]
  <2>2. Kin(settled, sub[i])
    BY <1>11 DEF Kin, Subscription
  <2> HIDE DEF settled
  <2>3. sub' = [sub EXCEPT ![i] = settled]
    BY <1>11, Zenon DEF LeaveTopic, settled
  <2>4. SubsKept
    BY <2>1, <2>2, <2>3, KinSteps
  <2>5. channels' = MarkLeft(sub[i].joinRef) \/ UNCHANGED channels
    BY <1>11, Zenon DEF LeaveTopic, serverVars
  <2>6. ChannelsKept
    BY <2>5, ChannelSteps
  <2>7. /\ subscriptions' = [subscriptions EXCEPT ![sub[i].topic] = NoSub]
        /\ UNCHANGED <<connVars, subCount, callerVars>>
    BY <1>11, Zenon DEF LeaveTopic
  <2>8. \A t \in Topics : subscriptions'[t] \in {subscriptions[t], NoSub}
    BY <1>a, <2>1, <2>7
  <2> QED
    BY <2>4, <2>6, <2>7, <2>8 DEF NoJoin, NothingNew, callerVars, connVars
<1>12. ASSUME NEW t \in Topics, Unsubscribe(t)
       PROVE  NoJoin
  <2> DEFINE i == subscriptions[t]
  <2>1. i \in Live /\ i \in SubIds
    BY <1>a, <1>12 DEF Unsubscribe, MapConsistent, Live
  <2>2. Kin(sub[i], sub[i]) /\ sub[i] \in Subscription
    BY <1>a, <2>1 DEF Kin
  <2>3. LeaveTopic(i, sub[i])
    BY <1>12, Zenon DEF Unsubscribe
  <2> HIDE DEF i
  <2> QED
    BY <1>11, <2>1, <2>2, <2>3
<1>13. ASSUME NEW c \in Callers, NEW i \in SubIds, RemoveHandler(c, i)
       PROVE  NoJoin
  <2> DEFINE s == [sub[i] EXCEPT !.handlers = @ \ {c}]
  <2>1. s \in Subscription /\ Kin(s, sub[i])
    BY <1>a DEF Subscription, Kin
  <2>2. i \in Live
    BY <1>13 DEF RemoveHandler
  <2>3. \/ LeaveTopic(i, s)
        \/ sub' = [sub EXCEPT ![i] = s] /\ UNCHANGED <<connVars, subscriptions, subCount,
                                                       callerVars, serverVars>>
    BY <1>13, Zenon DEF RemoveHandler
  <2> HIDE DEF s
  <2>4. ASSUME sub' = [sub EXCEPT ![i] = s],
               UNCHANGED <<connVars, subscriptions, subCount, callerVars, serverVars>>
        PROVE  NoJoin
    <3>1. SubsKept
      BY <2>1, <2>4, KinSteps
    <3> QED
      BY <1>1, <2>4, <3>1, ChannelSteps DEF connVars, serverVars
  <2> QED
    BY <1>11, <2>1, <2>2, <2>3, <2>4
<1>14. ASSUME NEW p \in pendingJoins, JoinTimeout(p)
       PROVE  NoJoin
  <2>1. /\ UNCHANGED <<connVars, subVars, wants, heard, serverVars>>
        /\ \E called : Tell(called, "error")
    BY <1>14, Zenon DEF JoinTimeout
  <2>2. SubsKept /\ ChannelsKept
    BY <2>1, KinSteps, ChannelSteps DEF subVars, serverVars
  <2>3. NothingNew
    BY <2>1 DEF NothingNew, subVars, connVars, Tell
  <2> QED
    BY <2>1, <2>2, <2>3 DEF NoJoin
<1>15. ASSUME NEW p, LeaveTimeout(p) \/ LeaveReply(p)
       PROVE  NoJoin
  <2>1. UNCHANGED <<socket, subVars, callerVars, channels>>
    BY <1>15 DEF LeaveTimeout, LeaveReply, Proven, connVars, serverVars
  <2> QED
    BY <1>2, <2>1
<1>16. ASSUME NEW ch \in channels, NEW status \in JoinStatuses, JoinReply(ch, status)
       PROVE  NoJoin
  <2> DEFINE i == ch.sub
             outcome == JoinOutcome(i, status)
  <2>1. i \in SubIds /\ status \in {"ok", "error"}
    BY <1>a, ChoicesAssumption DEF Channel
  <2>2. Kin(sub[i], sub[i]) /\ Kin(outcome, sub[i])
    BY <1>a, <1>b, <2>1 DEF Kin, JoinOutcome
  <2>3. /\ UNCHANGED <<socket, subscriptions, subCount, wants, heard>>
        /\ \/ UNCHANGED <<sub, told>>
           \/ (\E called : Tell(called, status)) /\ sub' = [sub EXCEPT ![i] = outcome]
    BY <1>16, Zenon DEF JoinReply, Proven
  <2>4. \/ channels' = (channels \ {ch}) \cup {[ch EXCEPT !.up = TRUE]}
        \/ channels' \subseteq channels
    BY <1>16 DEF JoinReply
  <2>5. ChannelsKept
    BY <2>4, ChannelSteps
  <2> HIDE DEF i, outcome
  <2>6. SubsKept
    BY <2>1, <2>2, <2>3, KinSteps
  <2>7. NothingNew
    BY <2>1, <2>3 DEF NothingNew, Tell
  <2> QED
    BY <2>3, <2>5, <2>6, <2>7 DEF NoJoin
<1>17. ASSUME NEW ch \in channels, ChannelDownIgnored(ch)
       PROVE  NoJoin
  <2>1. /\ channels' = channels \ {ch}
        /\ UNCHANGED <<connVars, subVars, callerVars>>
    BY <1>17, Zenon DEF ChannelDownIgnored
  <2>2. SubsKept /\ ChannelsKept
    BY <2>1, KinSteps, ChannelSteps DEF subVars
  <2> QED
    BY <1>1, <2>1, <2>2 DEF connVars, subVars
<1>18. ASSUME NEW ch \in channels, NEW reaction, ChannelDown(ch, reaction)
       PROVE  NoJoin
  <2> DEFINE i == subscriptions[ch.topic]
             down == [sub[i] EXCEPT !.joined = FALSE]
  <2>1. i \in SubIds
    BY <1>a, <1>18 DEF ChannelDown, Channel
  <2>2. Kin(down, sub[i]) /\ Kin(scheduleRejoin(down), sub[i])
    BY <1>a, <1>b, <2>1 DEF Kin, scheduleRejoin
  <2>3. \/ /\ channels' = channels \ {ch}
           /\ \/ sub' = [sub EXCEPT ![i] = down]
              \/ sub' = [sub EXCEPT ![i] = scheduleRejoin(down)]
           /\ UNCHANGED <<connVars, subscriptions, subCount, callerVars>>
        \/ /\ DropEverything
           /\ sub' = [WithoutRejoinTimers EXCEPT ![i] = scheduleRejoin(down)]
    BY <1>18, Zenon DEF ChannelDown
  <2> HIDE DEF i, down
  <2>4. SubsKept
    BY <2>1, <2>2, <2>3, KinSteps
  <2>5. CASE channels' = channels \ {ch}
    BY <1>1, <1>3, <2>3, <2>4, <2>5, ChannelSteps DEF connVars
  <2> QED
    BY <1>3, <2>3, <2>4, <2>5
<1>19. ASSUME UNCHANGED vars
       PROVE  NoJoin
  <2>1. UNCHANGED <<socket, subVars, callerVars, channels>>
    BY <1>19 DEF vars, connVars, serverVars
  <2> QED
    BY <1>2, <2>1
<1>20. CASE Consumer
  BY <1>5, <1>7, <1>12, <1>13, <1>20, Zenon DEF Consumer
<1>21. CASE Timers
  BY <1>7, <1>8, <1>10, <1>14, <1>15, <1>21, Zenon DEF Timers
<1>22. CASE SocketEvents
  BY <1>9, <1>22, Zenon DEF SocketEvents
<1>23. CASE Server
  BY <1>8, <1>15, <1>16, <1>17, <1>18, <1>23, Zenon DEF Server
<1> QED
  BY <1>19, <1>20, <1>21, <1>22, <1>23, Zenon DEF Contained

-----------------------------------------------------------------------------
(* Delivery                                                                *)

\* A join under a new ref gives subscription i a channel of its own.
LEMMA NewChannel ==
  ASSUME TypeOK, ChannelsMatch,
         NEW i \in SubIds, NEW kept, NEW new,
         Retained(kept), channels' = kept \cup {new},
         new.ref \in Nat, new.ref > refCounter, new.sub = i,
         sub'[i].joinRef = new.ref, sub'[i].filter = new.filter,
         \A j \in SubIds \ {i} :
           sub'[j].joinRef = sub[j].joinRef /\ sub'[j].filter = sub[j].filter
  PROVE  RefsUnique' /\ ChannelsMatch'
<1>1. refCounter \in Nat
  BY DEF TypeOK, SubscriptionsTypeOK
<1>2. \A ch \in channels : ch.ref \in Nat /\ ch.ref <= refCounter
  BY DEF TypeOK, SubscriptionsTypeOK, ServerTypeOK, Channel, Refs
<1>3. \A ch \in kept : ch.ref \in Nat /\ ch.ref <= refCounter
  BY <1>2 DEF Retained, Like
<1>4. \A j \in SubIds : sub[j].joinRef \in Nat /\ sub[j].joinRef <= refCounter
  BY DEF TypeOK, SubscriptionsTypeOK, Subscription, Refs
<1>5. RefsUnique'
  BY <1>1, <1>3 DEF RefsUnique, Retained
<1>6. ASSUME NEW ch \in kept
      PROVE  /\ ch.ref # NoRef
             /\ \A j \in SubIds : sub'[j].joinRef = ch.ref =>
                                    ch.sub = j /\ ch.filter = sub'[j].filter
  <2>1. PICK o \in channels : Like(ch, o)
    BY DEF Retained
  <2>2. /\ o.ref # NoRef
        /\ \A j \in SubIds : sub[j].joinRef = o.ref => o.sub = j /\ o.filter = sub[j].filter
    BY DEF ChannelsMatch
  <2>3. sub'[i].joinRef # ch.ref
    BY <1>1, <1>3
  <2> QED
    BY <2>1, <2>2, <2>3 DEF Like
<1>7. /\ new.ref # NoRef
      /\ \A j \in SubIds : sub'[j].joinRef = new.ref =>
                             new.sub = j /\ new.filter = sub'[j].filter
  BY <1>1, <1>4 DEF NoRef
<1>8. ChannelsMatch'
  BY <1>6, <1>7 DEF ChannelsMatch
<1> QED
  BY <1>5, <1>8

\* Losing channels, handlers and topics breaks nothing that was delivered.
LEMMA DeliveryNoJoin ==
  ASSUME TypeOK, Delivery, NoJoin, RepliesCorrelated'
  PROVE  Delivery'
<1>a. /\ \A i \in SubIds : Kin(sub'[i], sub[i])
      /\ Retained(channels')
      /\ UNCHANGED <<subCount, wants, heard>>
      /\ \A t \in Topics : subscriptions'[t] \in {subscriptions[t], NoSub}
      /\ \A c \in Callers : told'[c] = "idle" => told[c] = "idle"
      /\ socket' = "open" => socket = "open"
  BY DEF NoJoin, SubsKept, ChannelsKept, NothingNew
<1>b. \A i \in SubIds : sub[i].topic \in Topics /\ sub[i].callbacks \subseteq Callers
  BY DEF TypeOK, SubscriptionsTypeOK, Subscription
<1>1. RefsUnique'
  BY <1>a DEF RefsUnique, Retained
<1>2. ChannelsMatch'
  BY <1>a DEF Delivery, ChannelsMatch, Retained, Like, Kin
<1>3. Live' \subseteq Live
  <2> SUFFICES ASSUME NEW i \in SubIds, subscriptions'[sub'[i].topic] = i
               PROVE  subscriptions[sub[i].topic] = i
    BY DEF Live
  <2>1. sub'[i].topic = sub[i].topic /\ i # NoSub
    BY <1>a DEF Kin, SubIds, NoSub
  <2> QED
    BY <1>a, <1>b, <2>1
<1>4. OpenIsJoined'
  <2>1. \A i \in Live' : i \in SubIds /\ sub'[i].joinRef = sub[i].joinRef
    BY <1>a DEF Live, Kin
  <2> QED
    BY <1>3, <1>a, <2>1 DEF Delivery, OpenIsJoined, isConnected
<1>5. CallersCovered'
  <2> SUFFICES ASSUME NEW i \in SubIds
               PROVE  /\ sub'[i].handlers \subseteq sub'[i].callbacks
                      /\ \A c \in sub'[i].callbacks :
                           told'[c] # "idle" /\ wants'[c] \subseteq sub'[i].filter
                      /\ i > subCount' => sub'[i].callbacks = {}
    BY DEF CallersCovered
  <2>1. /\ sub[i].handlers \subseteq sub[i].callbacks
        /\ \A c \in sub[i].callbacks : told[c] # "idle" /\ wants[c] \subseteq sub[i].filter
        /\ i > subCount => sub[i].callbacks = {}
    BY DEF Delivery, CallersCovered
  <2> QED
    BY <1>a, <1>b, <2>1 DEF Kin
<1>6. NoStaleEvents'
  BY <1>a DEF Delivery, NoStaleEvents, TypeOK, CallersTypeOK, Kin
<1>7. IdleWantsNothing'
  BY <1>a DEF Delivery, IdleWantsNothing
<1> QED
  BY <1>1, <1>2, <1>4, <1>5, <1>6, <1>7 DEF Delivery

\* onopen joins every live subscription, on channels of its own.
LEMMA DeliveryOpen ==
  ASSUME TypeOK, Delivery, HandleOpen, RepliesCorrelated'
  PROVE  Delivery'
<1>a. sub \in [SubIds -> Subscription] /\ Live \subseteq SubIds
  BY DEF TypeOK, SubscriptionsTypeOK, Live
<1>b. \A j \in SubIds : sub[j].joinRef \in Nat /\ sub[j].joinRef <= refCounter
  BY DEF TypeOK, SubscriptionsTypeOK, Subscription, Refs
<1>c. /\ \A j \in Live : RefAtOpen(j) \in Nat /\ RefAtOpen(j) > refCounter
      /\ \A j, k \in Live : RefAtOpen(j) = RefAtOpen(k) => j = k
      /\ refCounter \in Nat
  BY RefAtOpenFresh DEF TypeOK, SubscriptionsTypeOK
<1>1. ASSUME NEW j \in SubIds
      PROVE  /\ sub'[j].topic = sub[j].topic /\ sub'[j].filter = sub[j].filter
             /\ sub'[j].callbacks = sub[j].callbacks /\ sub'[j].handlers = sub[j].handlers
             /\ sub'[j].joinRef = IF j \in Live THEN RefAtOpen(j) ELSE sub[j].joinRef
  <2>1. sub'[j] = IF j \in Live THEN RejoinedAtOpen(j) ELSE sub[j]
    BY DEF HandleOpen
  <2>2. DOMAIN sub[j] = {"topic", "joinRef", "joined", "filter", "rejoinTimer",
                         "rejoinTries", "callbacks", "handlers"}
    BY <1>a DEF Subscription
  <2> QED
    BY <2>1, <2>2 DEF RejoinedAtOpen
<1>2. /\ channels' = {JoinOf(j, RefAtOpen(j), sub[j].filter) : j \in Live}
      /\ UNCHANGED <<subscriptions, subCount, callerVars>>
  BY DEF HandleOpen
<1>3. Live' = Live
  BY <1>1, <1>2 DEF Live
<1> HIDE DEF Live
<1>4. \A j \in Live : /\ JoinOf(j, RefAtOpen(j), sub[j].filter).ref = RefAtOpen(j)
                      /\ JoinOf(j, RefAtOpen(j), sub[j].filter).sub = j
                      /\ JoinOf(j, RefAtOpen(j), sub[j].filter).filter = sub[j].filter
  BY DEF JoinOf
<1>5. \A ch \in channels' : \E j \in Live :
         /\ ch = JoinOf(j, RefAtOpen(j), sub[j].filter)
         /\ ch.ref = RefAtOpen(j) /\ ch.sub = j /\ ch.filter = sub[j].filter
  BY <1>2, <1>4
<1>6. RefsUnique'
  BY <1>5, <1>c DEF RefsUnique
<1>7. ChannelsMatch'
  <2> SUFFICES ASSUME NEW ch \in channels'
               PROVE  /\ ch.ref # NoRef
                      /\ \A i \in SubIds : sub'[i].joinRef = ch.ref =>
                                             ch.sub = i /\ ch.filter = sub'[i].filter
    BY DEF ChannelsMatch
  <2>1. PICK j \in Live : ch.ref = RefAtOpen(j) /\ ch.sub = j /\ ch.filter = sub[j].filter
    BY <1>5
  <2>2. ch.ref # NoRef
    BY <2>1, <1>c DEF NoRef
  <2>3. ASSUME NEW i \in SubIds, sub'[i].joinRef = ch.ref
        PROVE  i = j
    BY <2>1, <2>3, <1>1, <1>b, <1>c
  <2> QED
    BY <1>1, <2>1, <2>2, <2>3
<1>8. OpenIsJoined'
  BY <1>1, <1>3, <1>a, <1>c DEF OpenIsJoined, NoRef
<1>9. CallersCovered'
  BY <1>1, <1>2 DEF Delivery, CallersCovered, callerVars
<1>10. NoStaleEvents'
  BY <1>1, <1>2 DEF Delivery, NoStaleEvents, callerVars, TypeOK, CallersTypeOK
<1>11. IdleWantsNothing'
  BY <1>2 DEF Delivery, IdleWantsNothing, callerVars
<1> QED
  BY <1>6, <1>7, <1>8, <1>9, <1>10, <1>11 DEF Delivery

\* A new subscription has one caller, who has not heard anything yet.
LEMMA DeliveryNew ==
  ASSUME TypeOK, Standing, Delivery, RepliesCorrelated',
         NEW c \in Callers, NEW t \in Topics, NEW w \in Requests, SubscribeNew(c, t, w)
  PROVE  Delivery'
<1> DEFINE i == subCount + 1
           ref == IF isConnected THEN refCounter + 1 ELSE NoRef
           fresh == [topic |-> t, joinRef |-> ref, joined |-> FALSE, filter |-> w,
                     rejoinTimer |-> FALSE, rejoinTries |-> 0, callbacks |-> {c},
                     handlers |-> {c}]
           new == [topic |-> t, sub |-> i, ref |-> refCounter + 1, filter |-> w,
                   up |-> FALSE, left |-> FALSE]
<1>a. /\ sub \in [SubIds -> Subscription] /\ subscriptions \in [Topics -> SubIds \cup {NoSub}]
      /\ told \in [Callers -> {"idle", "waiting", "ok", "error"}]
      /\ wants \in [Callers -> SUBSET Events] /\ heard \in [Callers -> SUBSET SubIds]
      /\ refCounter \in Nat /\ subCount \in Nat
  BY DEF TypeOK, SubscriptionsTypeOK, CallersTypeOK
<1>b. i \in SubIds /\ i > subCount /\ i \in Nat
  BY BoundsAssumption DEF SubscribeNew, TypeOK, SubscriptionsTypeOK, SubIds
<1>c. /\ fresh.topic = t /\ fresh.joinRef = ref /\ fresh.filter = w
      /\ fresh.callbacks = {c} /\ fresh.handlers = {c}
      /\ new.ref = refCounter + 1 /\ new.sub = i /\ new.filter = w
  OBVIOUS
<1>1. /\ told[c] = "idle" /\ subCount' = i
      /\ sub' = [sub EXCEPT ![i] = fresh]
      /\ subscriptions' = [subscriptions EXCEPT ![t] = i]
      /\ told' = [told EXCEPT ![c] = "waiting"] /\ wants' = [wants EXCEPT ![c] = w]
      /\ UNCHANGED heard /\ ConnectIfNeeded
  BY Zenon DEF SubscribeNew
<1>2. IF isConnected THEN channels' = channels \cup {new} ELSE UNCHANGED channels
  BY Zenon DEF SubscribeNew
<1> HIDE DEF i, ref, fresh, new
<1>3. /\ sub'[i] = fresh
      /\ \A j \in SubIds : j # i => sub'[j] = sub[j]
  BY <1>1, <1>a, <1>b
<1>4. RefsUnique' /\ ChannelsMatch'
  <2>1. CASE isConnected
    <3>1. ref = refCounter + 1
      BY <2>1 DEF ref
    <3> QED
      BY <1>2, <1>3, <1>a, <1>b, <1>c, <2>1, <3>1, NewChannel, RetainedChannels
         DEF Delivery
  <2>2. CASE ~isConnected
    <3>1. channels' = {}
      BY <1>2, <2>2 DEF Standing, SocketOwnsWire, isConnected
    <3> QED
      BY <3>1 DEF RefsUnique, ChannelsMatch
  <2> QED
    BY <2>1, <2>2
<1>5. OpenIsJoined'
  <2> SUFFICES ASSUME socket' = "open", NEW j \in Live'
               PROVE  sub'[j].joinRef # NoRef
    BY DEF OpenIsJoined, isConnected
  <2>1. isConnected
    BY <1>1 DEF ConnectIfNeeded, isConnected
  <2>2. CASE j = i
    BY <1>3, <1>a, <1>c, <2>1, <2>2 DEF ref, NoRef
  <2>3. CASE j # i
    <3>1. j \in Live
      BY <1>1, <1>3, <1>a, <2>3 DEF Live, Subscription
    <3> QED
      BY <1>3, <2>1, <2>3, <3>1 DEF Delivery, OpenIsJoined, Live
  <2> QED
    BY <2>2, <2>3
<1>6. CallersCovered'
  <2> SUFFICES ASSUME NEW j \in SubIds
               PROVE  /\ sub'[j].handlers \subseteq sub'[j].callbacks
                      /\ \A d \in sub'[j].callbacks :
                           told'[d] # "idle" /\ wants'[d] \subseteq sub'[j].filter
                      /\ j > subCount' => sub'[j].callbacks = {}
    BY DEF CallersCovered
  <2>1. CASE j = i
    BY <1>1, <1>3, <1>a, <1>b, <1>c, <2>1
  <2>2. CASE j # i
    <3>1. /\ sub[j].handlers \subseteq sub[j].callbacks /\ sub[j].callbacks \subseteq Callers
          /\ \A d \in sub[j].callbacks : told[d] # "idle" /\ wants[d] \subseteq sub[j].filter
          /\ j > subCount => sub[j].callbacks = {}
      BY <1>a DEF Delivery, CallersCovered, Subscription
    <3>2. c \notin sub[j].callbacks
      BY <1>1, <3>1
    <3>3. j > subCount' => j > subCount
      BY <1>1, <1>a, <1>b DEF SubIds
    <3> QED
      BY <1>1, <1>3, <1>a, <2>2, <3>1, <3>2, <3>3
  <2> QED
    BY <2>1, <2>2
<1>7. NoStaleEvents'
  <2>1. sub[i].callbacks = {}
    BY <1>b DEF Delivery, CallersCovered
  <2> QED
    BY <1>1, <1>3, <1>a, <2>1 DEF Delivery, NoStaleEvents
<1>8. IdleWantsNothing'
  BY <1>1, <1>a DEF Delivery, IdleWantsNothing
<1> QED
  BY <1>4, <1>5, <1>6, <1>7, <1>8 DEF Delivery

\* A request that the filter covers changes nothing on the wire; one that it
\* does not cover joins again, for a filter that covers it.
LEMMA DeliveryShared ==
  ASSUME TypeOK, Standing, Delivery, RepliesCorrelated',
         NEW c \in Callers, NEW t \in Topics, NEW w \in Requests, SubscribeShared(c, t, w)
  PROVE  Delivery'
<1> DEFINE i == subscriptions[t]
           r == IF sub[i].joinRef = NoRef THEN refCounter + 1 ELSE refCounter + 2
           widened == sub[i].filter \cup w
           shared == [sub[i] EXCEPT !.callbacks = @ \cup {c}, !.handlers = @ \cup {c},
                                    !.filter = widened]
           rejoined == [shared EXCEPT !.joined = FALSE, !.joinRef = r]
           new == JoinOf(i, r, widened)
           s == IF WidensOnline(i, w) THEN rejoined ELSE shared
<1>a. /\ sub \in [SubIds -> Subscription] /\ subscriptions \in [Topics -> SubIds \cup {NoSub}]
      /\ told \in [Callers -> {"idle", "waiting", "ok", "error"}]
      /\ wants \in [Callers -> SUBSET Events] /\ heard \in [Callers -> SUBSET SubIds]
      /\ refCounter \in Nat /\ subCount \in Nat
  BY DEF TypeOK, SubscriptionsTypeOK, CallersTypeOK
<1>b. i \in SubIds /\ i \in Live /\ i <= subCount
  BY <1>a DEF SubscribeShared, Standing, MapConsistent, Live
<1>c. /\ s.topic = sub[i].topic /\ s.filter = widened
      /\ s.callbacks = sub[i].callbacks \cup {c} /\ s.handlers = sub[i].handlers \cup {c}
      /\ s.joinRef = IF WidensOnline(i, w) THEN r ELSE sub[i].joinRef
      /\ new.ref = r /\ new.sub = i /\ new.filter = widened
      /\ r \in Nat /\ r > refCounter
  BY <1>a, <1>b DEF Subscription, JoinOf
<1>1. /\ told[c] = "idle" /\ sub' = [sub EXCEPT ![i] = s]
      /\ told' = [told EXCEPT ![c] = IF sub[i].joined THEN "ok" ELSE "waiting"]
      /\ wants' = [wants EXCEPT ![c] = w]
      /\ UNCHANGED <<subscriptions, subCount, heard>> /\ ConnectIfNeeded
  BY Zenon DEF SubscribeShared
<1>2. IF WidensOnline(i, w) THEN channels' = MarkLeft(sub[i].joinRef) \cup {new}
                            ELSE UNCHANGED channels
  BY Zenon DEF SubscribeShared
<1>d. sub[i].filter \subseteq widened /\ w \subseteq widened
      /\ (w \subseteq sub[i].filter => widened = sub[i].filter)
  OBVIOUS
<1> HIDE DEF i, r, widened, shared, rejoined, new, s
<1>3. /\ sub'[i] = s
      /\ \A j \in SubIds : j # i => sub'[j] = sub[j]
  BY <1>1, <1>a, <1>b
<1>4. RefsUnique' /\ ChannelsMatch'
  <2>1. CASE WidensOnline(i, w)
    <3>1. /\ Retained(MarkLeft(sub[i].joinRef)) /\ ChannelsMatch
          /\ channels' = MarkLeft(sub[i].joinRef) \cup {new}
      BY <1>2, <2>1, RetainedChannels DEF Delivery
    <3> HIDE DEF MarkLeft
    <3> QED
      BY <1>3, <1>b, <1>c, <2>1, <3>1, NewChannel
  <2>2. CASE ~isConnected
    <3>1. channels' = {}
      BY <1>2, <2>2 DEF Standing, SocketOwnsWire, isConnected, WidensOnline
    <3> QED
      BY <3>1 DEF RefsUnique, ChannelsMatch
  <2>3. CASE isConnected /\ ~WidensOnline(i, w)
    <3>1. s.filter = sub[i].filter /\ s.joinRef = sub[i].joinRef /\ channels' = channels
      BY <1>2, <1>c, <1>d, <2>3 DEF WidensOnline
    <3> QED
      BY <1>3, <3>1 DEF Delivery, RefsUnique, ChannelsMatch
  <2> QED
    BY <2>1, <2>2, <2>3
<1>5. OpenIsJoined'
  <2> SUFFICES ASSUME socket' = "open", NEW j \in Live'
               PROVE  sub'[j].joinRef # NoRef
    BY DEF OpenIsJoined, isConnected
  <2>1. isConnected
    BY <1>1 DEF ConnectIfNeeded, isConnected
  <2>2. j \in Live /\ j \in SubIds
    BY <1>1, <1>3, <1>b, <1>c DEF Live
  <2>3. sub[j].joinRef # NoRef
    BY <2>1, <2>2 DEF Delivery, OpenIsJoined
  <2> QED
    BY <1>3, <1>a, <1>c, <2>2, <2>3 DEF NoRef
<1>6. CallersCovered'
  <2> SUFFICES ASSUME NEW j \in SubIds
               PROVE  /\ sub'[j].handlers \subseteq sub'[j].callbacks
                      /\ \A d \in sub'[j].callbacks :
                           told'[d] # "idle" /\ wants'[d] \subseteq sub'[j].filter
                      /\ j > subCount' => sub'[j].callbacks = {}
    BY DEF CallersCovered
  <2>1. /\ sub[j].handlers \subseteq sub[j].callbacks /\ sub[j].callbacks \subseteq Callers
        /\ \A d \in sub[j].callbacks : told[d] # "idle" /\ wants[d] \subseteq sub[j].filter
        /\ j > subCount => sub[j].callbacks = {}
    BY <1>a DEF Delivery, CallersCovered, Subscription
  <2>2. c \notin sub[j].callbacks
    BY <1>1, <2>1
  <2>3. \A d \in Callers : d # c => told'[d] = told[d] /\ wants'[d] = wants[d]
    BY <1>1, <1>a
  <2>4. told'[c] # "idle" /\ wants'[c] = w
    BY <1>1, <1>a
  <2>5. CASE j = i
    <3>1. /\ sub'[j].callbacks = sub[j].callbacks \cup {c}
          /\ sub'[j].handlers = sub[j].handlers \cup {c}
          /\ sub[j].filter \subseteq sub'[j].filter /\ w \subseteq sub'[j].filter
      BY <1>3, <1>c, <1>d, <2>5
    <3>2. ~(j > subCount')
      BY <1>1, <1>a, <1>b, <2>5 DEF SubIds
    <3> QED
      BY <2>1, <2>2, <2>3, <2>4, <3>1, <3>2
  <2>6. CASE j # i
    BY <1>1, <1>3, <2>1, <2>2, <2>3, <2>6
  <2> QED
    BY <2>5, <2>6
<1>7. NoStaleEvents'
  BY <1>1, <1>3, <1>a, <1>b, <1>c DEF Delivery, NoStaleEvents
<1>8. IdleWantsNothing'
  BY <1>1, <1>a DEF Delivery, IdleWantsNothing
<1> QED
  BY <1>4, <1>5, <1>6, <1>7, <1>8 DEF Delivery

\* A caller whose onSubscribed threw shares the topic, and asked for nothing.
LEMMA DeliveryInterrupted ==
  ASSUME TypeOK, Standing, Delivery, RepliesCorrelated',
         NEW c \in Callers, NEW t \in Topics, SubscribeInterrupted(c, t)
  PROVE  Delivery'
<1> DEFINE i == subscriptions[t]
           s == [sub[i] EXCEPT !.callbacks = @ \cup {c}]
<1>a. /\ sub \in [SubIds -> Subscription] /\ subscriptions \in [Topics -> SubIds \cup {NoSub}]
      /\ told \in [Callers -> {"idle", "waiting", "ok", "error"}]
      /\ heard \in [Callers -> SUBSET SubIds]
  BY DEF TypeOK, SubscriptionsTypeOK, CallersTypeOK
<1>b. i \in SubIds /\ i <= subCount /\ subCount \in Nat
  BY <1>a DEF SubscribeInterrupted, Standing, MapConsistent, TypeOK, SubscriptionsTypeOK
<1>1. /\ told[c] = "idle" /\ sub' = [sub EXCEPT ![i] = s]
      /\ told' = [told EXCEPT ![c] = "ok"]
      /\ UNCHANGED <<subscriptions, subCount, wants, heard, channels>> /\ ConnectIfNeeded
      /\ sub[i].joined
  BY DEF SubscribeInterrupted, serverVars
<1>c. /\ s.topic = sub[i].topic /\ s.joinRef = sub[i].joinRef /\ s.filter = sub[i].filter
      /\ s.callbacks = sub[i].callbacks \cup {c} /\ s.handlers = sub[i].handlers
  BY <1>a, <1>b DEF Subscription
<1> HIDE DEF i, s
<1>2. ASSUME NEW j \in SubIds
      PROVE  /\ sub'[j].topic = sub[j].topic /\ sub'[j].joinRef = sub[j].joinRef
             /\ sub'[j].filter = sub[j].filter /\ sub'[j].handlers = sub[j].handlers
             /\ sub'[j].callbacks = IF j = i THEN sub[i].callbacks \cup {c}
                                    ELSE sub[j].callbacks
  BY <1>1, <1>a, <1>b, <1>c
<1>3. RefsUnique' /\ ChannelsMatch'
  BY <1>1, <1>2 DEF Delivery, RefsUnique, ChannelsMatch
<1>4. OpenIsJoined'
  BY <1>1, <1>2 DEF Delivery, OpenIsJoined, ConnectIfNeeded, isConnected, Live
<1>5. CallersCovered'
  <2> SUFFICES ASSUME NEW j \in SubIds
               PROVE  /\ sub'[j].handlers \subseteq sub'[j].callbacks
                      /\ \A d \in sub'[j].callbacks :
                           told'[d] # "idle" /\ wants'[d] \subseteq sub'[j].filter
                      /\ j > subCount' => sub'[j].callbacks = {}
    BY DEF CallersCovered
  <2>1. /\ sub[j].handlers \subseteq sub[j].callbacks /\ sub[j].callbacks \subseteq Callers
        /\ \A d \in sub[j].callbacks : told[d] # "idle" /\ wants[d] \subseteq sub[j].filter
        /\ j > subCount => sub[j].callbacks = {}
    BY <1>a DEF Delivery, CallersCovered, Subscription
  <2>2. wants[c] = {}
    BY <1>1 DEF Delivery, IdleWantsNothing
  <2>3. \A d \in Callers : told'[d] = IF d = c THEN "ok" ELSE told[d]
    BY <1>1, <1>a
  <2>4. ~(i > subCount)
    BY <1>b DEF SubIds
  <2> QED
    BY <1>1, <1>2, <2>1, <2>2, <2>3, <2>4
<1>6. IdleWantsNothing'
  BY <1>1, <1>a DEF Delivery, IdleWantsNothing
<1>7. NoStaleEvents'
  BY <1>1, <1>2, <1>a DEF Delivery, NoStaleEvents
<1> QED
  BY <1>3, <1>4, <1>5, <1>6, <1>7 DEF Delivery

LEMMA DeliveryRejoin ==
  ASSUME TypeOK, Standing, Delivery, RepliesCorrelated',
         NEW i \in SubIds, RejoinTimeout(i)
  PROVE  Delivery'
<1> DEFINE r == refCounter + 1
           rejoins == isConnected /\ subscriptions[sub[i].topic] # NoSub
           rejoined == [sub[i] EXCEPT !.rejoinTimer = FALSE, !.joinRef = r]
           given == [sub[i] EXCEPT !.rejoinTimer = FALSE]
           s == IF rejoins THEN rejoined ELSE given
           new == JoinOf(i, r, sub[i].filter)
<1>a. sub \in [SubIds -> Subscription] /\ refCounter \in Nat
  BY DEF TypeOK, SubscriptionsTypeOK
<1>b. /\ s.topic = sub[i].topic /\ s.filter = sub[i].filter
      /\ s.callbacks = sub[i].callbacks /\ s.handlers = sub[i].handlers
      /\ s.joinRef = IF rejoins THEN r ELSE sub[i].joinRef
      /\ new.ref = r /\ new.sub = i /\ new.filter = sub[i].filter
      /\ r \in Nat /\ r > refCounter
  BY <1>a DEF Subscription, JoinOf
<1>1. /\ sub' = [sub EXCEPT ![i] = s]
      /\ IF rejoins THEN channels' = channels \cup {new} ELSE UNCHANGED channels
      /\ UNCHANGED <<connVars, subscriptions, subCount, callerVars>>
  <2>1. UNCHANGED <<connVars, subscriptions, subCount, callerVars>>
    BY Zenon DEF RejoinTimeout
  <2>2. CASE rejoins
    BY <2>1, <2>2 DEF RejoinTimeout
  <2>3. CASE ~rejoins
    BY <2>1, <2>3 DEF RejoinTimeout
  <2> QED
    BY <2>2, <2>3
<1> HIDE DEF r, rejoins, rejoined, given, s, new
<1>2. /\ sub'[i] = s
      /\ \A j \in SubIds : j # i => sub'[j] = sub[j]
  BY <1>1, <1>a
<1>3. RefsUnique' /\ ChannelsMatch'
  <2>1. CASE rejoins
    BY <1>1, <1>2, <1>b, <2>1, NewChannel, RetainedChannels DEF Delivery
  <2>2. CASE ~rejoins
    BY <1>1, <1>2, <1>b, <2>2 DEF Delivery, RefsUnique, ChannelsMatch
  <2> QED
    BY <2>1, <2>2
<1>4. Live' = Live
  BY <1>1, <1>2, <1>b DEF Live
<1>5. OpenIsJoined'
  <2>1. isConnected' = isConnected
    BY <1>1 DEF connVars, isConnected
  <2>2. ASSUME NEW j \in Live, sub[j].joinRef # NoRef
        PROVE  sub'[j].joinRef # NoRef
    BY <1>2, <1>a, <1>b, <2>2 DEF Live, NoRef
  <2> QED
    BY <1>4, <2>1, <2>2 DEF Delivery, OpenIsJoined
<1>6. CallersCovered' /\ IdleWantsNothing' /\ NoStaleEvents'
  <2>1. \A j \in SubIds : /\ sub'[j].filter = sub[j].filter
                          /\ sub'[j].callbacks = sub[j].callbacks
                          /\ sub'[j].handlers = sub[j].handlers
    BY <1>2, <1>b
  <2> QED
    BY <1>1, <2>1 DEF Delivery, CallersCovered, IdleWantsNothing, NoStaleEvents, callerVars,
                      TypeOK, CallersTypeOK
<1> QED
  BY <1>3, <1>5, <1>6 DEF Delivery

\* A frame that is not stale is one of the subscription its topic has now.
LEMMA DeliveryDispatch ==
  ASSUME TypeOK, Standing, Delivery, RepliesCorrelated',
         NEW ch \in channels, NEW e \in Events, NEW joinRef \in {ch.ref, NoRef},
         Dispatch(ch, e, joinRef)
  PROVE  Delivery'
<1> DEFINE i == subscriptions[ch.topic]
<1>a. heard \in [Callers -> SUBSET SubIds]
  BY DEF TypeOK, CallersTypeOK
<1>1. UNCHANGED <<connVars, subVars, told, wants, serverVars>>
  BY Zenon DEF Dispatch
<1>2. PICK called \in SUBSET sub[i].handlers :
        heard' = [c \in Callers |-> IF c \in called /\ joinRef # NoRef
                                   THEN heard[c] \cup {ch.sub} ELSE heard[c]]
  BY DEF Dispatch, Reached
<1>b. i # NoSub /\ ~Stale(ch.topic, joinRef)
  BY Zenon DEF Dispatch
<1>3. i \in Live /\ i \in SubIds
  BY <1>b DEF Standing, MapConsistent, Live, TypeOK, SubscriptionsTypeOK, ServerTypeOK,
              Channel
<1>4. isConnected
  BY DEF Standing, SocketOwnsWire, isConnected
<1>5. joinRef # NoRef => ch.ref = sub[i].joinRef
  BY <1>b, <1>3, <1>4 DEF Delivery, OpenIsJoined, Stale
<1>6. joinRef # NoRef => ch.sub = i
  BY <1>3, <1>5 DEF Delivery, ChannelsMatch
<1>7. NoStaleEvents'
  <2>1. sub[i].handlers \subseteq sub[i].callbacks
    BY <1>3 DEF Delivery, CallersCovered
  <2>2. sub' = sub
    BY <1>1 DEF subVars
  <2> HIDE DEF i
  <2>3. ASSUME NEW c \in Callers, NEW j \in heard'[c]
        PROVE  c \in sub[j].callbacks
    <3>1. j \in heard[c] \/ (j = ch.sub /\ c \in called /\ joinRef # NoRef)
      BY <1>2, <1>a
    <3> QED
      BY <1>6, <2>1, <3>1 DEF Delivery, NoStaleEvents
  <2> QED
    BY <2>2, <2>3 DEF NoStaleEvents
<1>8. UNCHANGED <<socket, subscriptions, sub, subCount, told, wants, channels>>
  BY <1>1 DEF connVars, subVars, serverVars
<1>9. RefsUnique' /\ ChannelsMatch' /\ OpenIsJoined' /\ CallersCovered' /\ IdleWantsNothing'
  BY <1>8 DEF Delivery, RefsUnique, ChannelsMatch, OpenIsJoined, CallersCovered, isConnected,
              Live, IdleWantsNothing
<1> QED
  BY <1>7, <1>9 DEF Delivery

LEMMA DeliveryStep ==
  ASSUME TypeOK, Standing, Delivery, [Contained]_vars
  PROVE  Delivery'
<1>1. RepliesCorrelated' /\ MapConsistent /\ RefsUnique
  BY CorrelatedStep DEF Delivery, Standing
<1> QED
  BY <1>1, JoinSteps, DeliveryOpen, DeliveryNew, DeliveryShared, DeliveryInterrupted,
     DeliveryRejoin, DeliveryDispatch, DeliveryNoJoin

\* What a teardown had done when an exception ended it joins nothing.
LEMMA DeliveryAborted ==
  ASSUME TypeOK, Delivery, Aborted
  PROVE  Delivery'
<1>1. PICK last \in pendingLeaves :
        DisconnectAborted(last) \/ HandleCloseAborted(last) \/ HeartbeatTimeoutAborted(last)
  BY DEF Aborted
<1>2. UNCHANGED <<subVars, callerVars>>
  BY <1>1, Zenon DEF DisconnectAborted, HandleCloseAborted, HeartbeatTimeoutAborted
<1>3. channels' \in {channels, {}} /\ (socket' = "open" => socket = "open")
  <2>1. CASE DisconnectAborted(last)
    BY <2>1, Zenon DEF DisconnectAborted, serverVars
  <2>2. CASE HandleCloseAborted(last)
    BY <2>2 DEF HandleCloseAborted, serverVars
  <2>3. CASE HeartbeatTimeoutAborted(last)
    BY <2>3 DEF HeartbeatTimeoutAborted, LoseSocket
  <2> QED
    BY <1>1, <2>1, <2>2, <2>3
<1>4. NoJoin
  <2>1. SubsKept /\ ChannelsKept
    BY <1>2, <1>3, KinSteps, ChannelSteps DEF Delivery, subVars
  <2> QED
    BY <1>2, <1>3, <2>1 DEF NoJoin, NothingNew, subVars, callerVars
<1> QED
  BY <1>4, CorrelatedAborted, DeliveryNoJoin

\* The inductive invariant: refs name one reply and one channel, channels match
\* the joins of their subscriptions, filters cover those who share them, and
\* what callers heard came from the channels of their subscriptions.
THEOREM DeliveryInvariant == Spec => []Delivery
<1>1. Init => Delivery
  <2> SUFFICES ASSUME Init PROVE Delivery
    OBVIOUS
  <2>1. RepliesCorrelated /\ RefsUnique /\ ChannelsMatch /\ OpenIsJoined /\ NoStaleEvents
        /\ IdleWantsNothing
    BY DEF Init, RepliesCorrelated, RefsUnique, ChannelsMatch, OpenIsJoined, isConnected,
           NoStaleEvents, IdleWantsNothing
  <2>2. CallersCovered
    BY DEF Init, CallersCovered, Unused
  <2> QED
    BY <2>1, <2>2 DEF Delivery
<1>2. TypeOK /\ Standing /\ Delivery /\ [Next]_vars => Delivery'
  BY DeliveryStep, DeliveryAborted DEF Next
<1> QED
  BY <1>1, <1>2, TypeCorrect, StandingInvariant, PTL DEF Spec

\* Handlers hear the events that carry a join ref only from channels their own
\* subscription opened, whatever frames of earlier joins are still arriving
\* (phoenix.ts:664-668), and whatever throws.
THEOREM NoStaleEventsHolds == Spec => []NoStaleEvents
<1>1. Delivery => NoStaleEvents
  BY DEF Delivery
<1> QED
  BY <1>1, DeliveryInvariant, PTL

\* The filter that the server applies to the channel of a live topic covers
\* every caller that shares it (phoenix.ts:515-523).
THEOREM FilterReachesServerHolds == Spec => []FilterReachesServer
<1>1. Delivery => FilterReachesServer
  <2> SUFFICES ASSUME ChannelsMatch, CallersCovered, NEW ch \in channels, NEW i \in Live,
                      ch.ref = sub[i].joinRef, NEW c \in sub[i].callbacks
               PROVE  wants[c] \subseteq ch.filter
    BY DEF Delivery, FilterReachesServer
  <2>1. i \in SubIds
    BY DEF Live
  <2> QED
    BY <2>1 DEF ChannelsMatch, CallersCovered
<1> QED
  BY <1>1, DeliveryInvariant, PTL

-----------------------------------------------------------------------------
(* Disconnecting is final                                                  *)

\* Whatever the error handler does, only a heartbeat timeout whose handler
\* disconnects lets a disconnected client reconnect.
LEMMA FinalStep ==
  ASSUME TypeOK, Ownership, DisconnectIsFinal, [Contained]_vars
  PROVE  \/ DisconnectIsFinal'
         \/ "disconnect" \in ErrorReactions /\ HeartbeatTimeout("disconnect")
<1> USE DEF DisconnectIsFinal
<1>a. disconnectedIntentionally => socket = "none" /\ ~reconnectTimer
  OBVIOUS
<1>1. ASSUME ConnectIfNeeded, UNCHANGED reconnectTimer \/ reconnectTimer' = FALSE
      PROVE  DisconnectIsFinal'
  BY <1>1, <1>a DEF ConnectIfNeeded
<1>2. ASSUME DropEverything, reconnectTimer' = FALSE
      PROVE  DisconnectIsFinal'
  BY <1>2 DEF DropEverything, LoseSocket
<1>3. CASE UNCHANGED <<socket, disconnectedIntentionally, reconnectTimer, hbVars>>
  BY <1>3, <1>a
<1>4. CASE Connect \/ ReconnectTimeout
  BY <1>1, <1>4, Zenon DEF Connect, ReconnectTimeout
<1>5. CASE Disconnect
  BY <1>2, <1>5, Zenon DEF Disconnect, clearReconnectTimer
<1>6. CASE HandleOpen \/ SocketDrop
  BY <1>6, <1>a DEF HandleOpen, SocketDrop
<1>7. CASE HandleClose
  <2>1. ~disconnectedIntentionally /\ UNCHANGED disconnectedIntentionally
    BY <1>7, <1>a DEF HandleClose
  <2> QED
    BY <2>1
<1>8. CASE SendHeartbeat \/ HeartbeatReply
  <2>1. UNCHANGED <<socket, disconnectedIntentionally, reconnectTimer>>
    BY <1>8 DEF SendHeartbeat, HeartbeatReply, Proven, connVars
  <2> QED
    BY <2>1, <1>a
<1>9. ASSUME NEW reaction \in ErrorReactions, HeartbeatTimeout(reaction)
      PROVE  \/ DisconnectIsFinal'
             \/ "disconnect" \in ErrorReactions /\ HeartbeatTimeout("disconnect")
  <2>1. CASE reaction = "disconnect"
    BY <1>9, <2>1
  <2>2. CASE reaction # "disconnect"
    <3>1. UNCHANGED disconnectedIntentionally
      BY <1>9, <2>2 DEF HeartbeatTimeout, connVars
    <3>2. ~disconnectedIntentionally
      BY <1>9, <1>a DEF HeartbeatTimeout, isConnected
    <3> QED
      BY <3>1, <3>2
  <2> QED
    BY <2>1, <2>2
<1>10. CASE ConnectIfNeeded /\ UNCHANGED <<reconnectTimer, hbVars>>
  BY <1>1, <1>10
<1>11. CASE DropEverything /\ reconnectTimer' = FALSE
  BY <1>2, <1>11
<1> QED
  BY <1>3, <1>4, <1>5, <1>6, <1>7, <1>8, <1>9, <1>10, <1>11, QuietSteps, Zenon

\* After an intentional disconnect nothing reconnects on its own, if no error
\* handler disconnects and no exception ends the disconnect
\* (test/stream/transport.spec.ts:264).
THEOREM DisconnectIsFinalHolds ==
  ASSUME "disconnect" \notin ErrorReactions, ~safeInvokeThrows
  PROVE  Spec => []DisconnectIsFinal
<1>1. Init => DisconnectIsFinal
  BY DEF Init, DisconnectIsFinal
<1>2. TypeOK /\ Ownership /\ DisconnectIsFinal /\ [Next]_vars => DisconnectIsFinal'
  BY FinalStep, ContainedSteps
<1> QED
  BY <1>1, <1>2, TypeCorrect, OwnershipInvariant, PTL DEF Spec

-----------------------------------------------------------------------------
(* The transport implements StreamContract                                 *)

TopicsKept == \A i \in SubIds : sub'[i].topic = sub[i].topic

\* No subscription changes its life; a socket may come, not go.
Calm ==
  /\ UNCHANGED <<subscriptions, subCount, unsub>> /\ TopicsKept
  /\ UNCHANGED <<socket, reconnectTimer>> \/ socket' # "none"

\* The connection is gone and a reconnect is due.
Lost ==
  /\ socket # "none" /\ socket' = "none" /\ reconnectTimer'
  /\ clearPendingReplies
  /\ UNCHANGED <<subscriptions, subCount>> /\ TopicsKept

\* Everything is given up, and nothing is due.
GivenUp == DropEverything /\ TopicsKept /\ reconnectTimer' = FALSE

\* What a step means for the connection and the life of the subscriptions.
LEMMA LifeSteps ==
  ASSUME TypeOK, Ownership, RefsUnique, [Contained]_vars
  PROVE  \/ \E c \in Callers, t \in Topics, w \in Requests : SubscribeNew(c, t, w)
         \/ \E i \in Live, s \in Subscription :
               s.topic = sub[i].topic /\ LeaveTopic(i, s)
         \/ \E l \in leaves : LeaveReply(l)
         \/ \E p \in pendingLeaves : LeaveTimeout(p)
         \/ Calm \/ Lost \/ GivenUp
         \/ "disconnect" \in ErrorReactions /\ HeartbeatTimeout("disconnect")
<1> DEFINE Left == \E i \in Live, s \in Subscription :
                      s.topic = sub[i].topic /\ LeaveTopic(i, s)
<1>a. /\ sub \in [SubIds -> Subscription]
      /\ subscriptions \in [Topics -> SubIds \cup {NoSub}]
      /\ channels \subseteq Channel /\ MapConsistent
  BY DEF TypeOK, SubscriptionsTypeOK, ServerTypeOK, Ownership, Standing
<1>b. SubsKept => TopicsKept
  BY DEF SubsKept, Kin, TopicsKept
<1>c. sub' = WithoutRejoinTimers => TopicsKept
  BY KinSteps DEF TopicsKept, Kin
<1>1. ASSUME UNCHANGED <<subVars, replyVars>>,
             UNCHANGED <<socket, reconnectTimer>> \/ socket' # "none"
      PROVE  Calm
  BY <1>1, <1>b, KinSteps DEF Calm, subVars, replyVars
<1>2. ASSUME UNCHANGED <<connVars, subVars, unsub>>
      PROVE  Calm
  BY <1>2, <1>b, KinSteps DEF Calm, subVars, connVars
<1>3. ASSUME ConnectIfNeeded
      PROVE  socket' # "none"
  BY <1>3 DEF ConnectIfNeeded
<1>4. CASE Disconnect
  BY <1>4, <1>c, Zenon DEF Disconnect, GivenUp, clearReconnectTimer
<1>5. ASSUME Connect \/ ReconnectTimeout
      PROVE  Calm
  BY <1>1, <1>3, <1>5, Zenon DEF Connect, ReconnectTimeout
<1>6. ASSUME HandleOpen
      PROVE  Calm
  <2>1. TopicsKept
    <3>1. \A j \in SubIds : sub'[j] = IF j \in Live THEN RejoinedAtOpen(j) ELSE sub[j]
      BY <1>6 DEF HandleOpen
    <3>2. \A j \in SubIds : RejoinedAtOpen(j).topic = sub[j].topic
      BY <1>a DEF RejoinedAtOpen, Subscription
    <3> QED
      BY <3>1, <3>2 DEF TopicsKept
  <2> QED
    BY <1>6, <2>1 DEF HandleOpen, Calm
<1>7. ASSUME SocketDrop
      PROVE  Calm
  <2>1. socket' # "none" /\ UNCHANGED <<subVars, replyVars>>
    BY <1>7 DEF SocketDrop
  <2> QED
    BY <1>1, <2>1
<1>8. ASSUME HandleClose
      PROVE  Lost
  <2>1. ~disconnectedIntentionally /\ socket # "none"
    BY <1>8 DEF HandleClose, Ownership, SocketGone
  <2>2. /\ LoseSocket /\ scheduleReconnect /\ clearPendingReplies /\ UNCHANGED subVars
    BY <1>8, <2>1, Zenon DEF HandleClose
  <2> QED
    BY <1>b, <2>1, <2>2, KinSteps DEF Lost, LoseSocket, scheduleReconnect, subVars
<1>9. ASSUME NEW reaction \in ErrorReactions, HeartbeatTimeout(reaction)
      PROVE  \/ Calm \/ Lost
             \/ "disconnect" \in ErrorReactions /\ HeartbeatTimeout("disconnect")
  <2>1. CASE reaction = "return"
    <3>1. /\ LoseSocket /\ scheduleReconnect /\ clearPendingReplies
          /\ UNCHANGED subVars /\ socket = "open"
      BY <1>9, <2>1 DEF HeartbeatTimeout, isConnected
    <3> QED
      BY <1>b, <3>1, KinSteps DEF Lost, LoseSocket, scheduleReconnect, subVars
  <2>2. CASE reaction = "throw"
    <3>1. UNCHANGED <<connVars, subVars, replyVars>>
      BY <1>9, <2>2 DEF HeartbeatTimeout
    <3> QED
      BY <1>2, <3>1 DEF replyVars
  <2> QED
    BY <1>9, <2>1, <2>2 DEF HeartbeatTimeout
<1>10. ASSUME SendHeartbeat \/ HeartbeatReply
       PROVE  Calm
  <2>1. UNCHANGED <<socket, reconnectTimer, subVars, replyVars>>
    BY <1>10 DEF SendHeartbeat, HeartbeatReply, Proven, connVars
  <2> QED
    BY <1>1, <2>1
<1>11. ASSUME NEW c \in Callers, NEW t \in Topics, NEW w \in Requests, SubscribeShared(c, t, w)
       PROVE  Calm
  <2>1. /\ ConnectIfNeeded
        /\ UNCHANGED <<subscriptions, subCount, unsub>>
    BY <1>11, Zenon DEF SubscribeShared
  <2>2. TopicsKept
    <3> DEFINE i == subscriptions[t]
               s == [sub[i] EXCEPT !.callbacks = @ \cup {c}, !.handlers = @ \cup {c},
                                   !.filter = sub[i].filter \cup w]
               r == IF sub[i].joinRef = NoRef THEN refCounter + 1 ELSE refCounter + 2
               rejoined == [s EXCEPT !.joined = FALSE, !.joinRef = r]
    <3>1. i \in SubIds
      BY <1>a, <1>11 DEF SubscribeShared
    <3>2. s.topic = sub[i].topic /\ rejoined.topic = sub[i].topic
      BY <1>a, <3>1 DEF Subscription
    <3>3. sub' = [sub EXCEPT ![i] = s] \/ sub' = [sub EXCEPT ![i] = rejoined]
      BY <1>11, Zenon DEF SubscribeShared
    <3> HIDE DEF i, s, r, rejoined
    <3> QED
      BY <1>a, <3>1, <3>2, <3>3 DEF TopicsKept
  <2> QED
    BY <1>3, <2>1, <2>2 DEF Calm
<1>i. ASSUME NEW c \in Callers, NEW t \in Topics, SubscribeInterrupted(c, t)
      PROVE  Calm
  <2>1. /\ ConnectIfNeeded
        /\ UNCHANGED <<subscriptions, subCount, unsub>>
    BY <1>i, Zenon DEF SubscribeInterrupted, replyVars
  <2>2. TopicsKept
    <3> DEFINE i == subscriptions[t]
               s == [sub[i] EXCEPT !.callbacks = @ \cup {c}]
    <3>1. i \in SubIds
      BY <1>a, <1>i DEF SubscribeInterrupted
    <3>2. s.topic = sub[i].topic
      BY <1>a, <3>1 DEF Subscription
    <3>3. sub' = [sub EXCEPT ![i] = s]
      BY <1>i DEF SubscribeInterrupted
    <3> HIDE DEF i, s
    <3> QED
      BY <1>a, <3>1, <3>2, <3>3 DEF TopicsKept
  <2> QED
    BY <1>3, <2>1, <2>2 DEF Calm
<1>12. ASSUME NEW t \in Topics, Unsubscribe(t)
       PROVE  Left
  <2>1. subscriptions[t] \in Live
    BY <1>a, <1>12 DEF Unsubscribe, MapConsistent, Live
  <2> QED
    BY <1>a, <1>12, <2>1 DEF Unsubscribe, Live
<1>13. ASSUME NEW c \in Callers, NEW i \in SubIds, RemoveHandler(c, i)
       PROVE  Calm \/ Left
  <2> DEFINE s == [sub[i] EXCEPT !.handlers = @ \ {c}]
  <2>1. s \in Subscription /\ s.topic = sub[i].topic
    BY <1>a DEF Subscription
  <2>2. i \in Live
    BY <1>13 DEF RemoveHandler
  <2>3. \/ LeaveTopic(i, s)
        \/ /\ sub' = [sub EXCEPT ![i] = s]
           /\ UNCHANGED <<connVars, subscriptions, subCount, replyVars>>
    BY <1>13, Zenon DEF RemoveHandler
  <2> HIDE DEF s
  <2>4. ASSUME sub' = [sub EXCEPT ![i] = s],
               UNCHANGED <<connVars, subscriptions, subCount, replyVars>>
        PROVE  Calm
    BY <1>a, <2>1, <2>4 DEF Calm, TopicsKept, connVars, replyVars
  <2> QED
    BY <2>1, <2>2, <2>3, <2>4, Zenon
<1>14. ASSUME NEW i \in SubIds, RejoinTimeout(i)
       PROVE  Calm
  <2>1. UNCHANGED <<connVars, subscriptions, subCount, unsub>>
    BY <1>14, Zenon DEF RejoinTimeout
  <2>2. TopicsKept
    BY <1>a, <1>14 DEF RejoinTimeout, TopicsKept, Subscription
  <2> QED
    BY <2>1, <2>2 DEF Calm, connVars
<1>15. ASSUME NEW p, JoinTimeout(p)
       PROVE  Calm
  BY <1>2, <1>15, Zenon DEF JoinTimeout
<1>16. ASSUME NEW ch \in channels, NEW status \in JoinStatuses, JoinReply(ch, status)
       PROVE  Calm
  <2> DEFINE outcome == JoinOutcome(ch.sub, status)
  <2>1. ch.sub \in SubIds
    BY <1>a DEF Channel
  <2>2. outcome.topic = sub[ch.sub].topic
    BY <1>a, <2>1 DEF JoinOutcome, Subscription
  <2>3. /\ UNCHANGED <<socket, reconnectTimer, subscriptions, subCount, unsub>>
        /\ UNCHANGED sub \/ sub' = [sub EXCEPT ![ch.sub] = outcome]
    BY <1>16, Zenon DEF JoinReply, Proven
  <2> HIDE DEF outcome
  <2>4. TopicsKept
    BY <1>a, <2>1, <2>2, <2>3 DEF TopicsKept
  <2> QED
    BY <2>3, <2>4 DEF Calm
<1>17. ASSUME NEW ch, NEW e, NEW r, ChannelDownIgnored(ch) \/ Dispatch(ch, e, r)
       PROVE  Calm
  <2>1. UNCHANGED <<connVars, subVars, replyVars>>
    BY <1>17, Zenon DEF ChannelDownIgnored, Dispatch
  <2> QED
    BY <1>2, <2>1 DEF replyVars
<1>18. ASSUME NEW ch \in channels, NEW reaction, ChannelDown(ch, reaction)
       PROVE  Calm \/ GivenUp
  <2> DEFINE i == subscriptions[ch.topic]
             down == [sub[i] EXCEPT !.joined = FALSE]
  <2>1. i \in SubIds
    BY <1>a, <1>18 DEF ChannelDown, Channel
  <2>2. Kin(down, sub[i]) /\ Kin(scheduleRejoin(down), sub[i])
    BY <1>a, <2>1 DEF Kin, scheduleRejoin, Subscription
  <2>3. \/ /\ \/ sub' = [sub EXCEPT ![i] = down]
              \/ sub' = [sub EXCEPT ![i] = scheduleRejoin(down)]
           /\ UNCHANGED <<connVars, subscriptions, subCount, replyVars>>
        \/ /\ DropEverything /\ reconnectTimer' = FALSE
           /\ sub' = [WithoutRejoinTimers EXCEPT ![i] = scheduleRejoin(down)]
    BY <1>18, Zenon DEF ChannelDown, clearReconnectTimer
  <2> HIDE DEF i, down
  <2>4. TopicsKept
    BY <1>b, <2>1, <2>2, <2>3, KinSteps
  <2> QED
    BY <2>3, <2>4 DEF Calm, GivenUp, connVars, replyVars
<1>19. ASSUME UNCHANGED vars
       PROVE  Calm
  <2>1. UNCHANGED <<connVars, subVars, unsub>>
    BY <1>19 DEF vars, replyVars
  <2> QED
    BY <1>2, <2>1
<1>20. CASE Consumer
  BY <1>i, <1>4, <1>5, <1>11, <1>12, <1>13, <1>20, Zenon DEF Consumer, Left
<1>21. CASE Timers
  BY <1>5, <1>9, <1>10, <1>14, <1>15, <1>21, Zenon DEF Timers
<1>22. CASE SocketEvents
  BY <1>6, <1>7, <1>8, <1>22, Zenon DEF SocketEvents
<1>23. CASE Server
  BY <1>10, <1>16, <1>17, <1>18, <1>23, Zenon DEF Server
<1> QED
  BY <1>19, <1>20, <1>21, <1>22, <1>23, Zenon DEF Contained, Left

\* Who is live depends on the map and the topics alone.
LEMMA LiveKept ==
  ASSUME UNCHANGED subscriptions, TopicsKept
  PROVE  Live' = Live
BY DEF Live, TopicsKept

\* Only the life of subscription i changes.
LifeOnlyOf(i, l) == Life' = [Life EXCEPT ![i] = l]

LEMMA LifeChangesAt ==
  ASSUME NEW i \in SubIds, NEW l, Life'[i] = l,
         \A j \in SubIds \ {i} : Life'[j] = Life[j]
  PROVE  LifeOnlyOf(i, l)
<1>1. Life \in [SubIds -> {"unused", "leaving", "left", "held", "dropped"}]
  BY DEF Life
<1>2. Life' = [j \in SubIds |-> Life'[j]]
  BY DEF Life
<1> HIDE DEF Life
<1> QED
  BY <1>1, <1>2 DEF LifeOnlyOf

\* A new subscription brings a socket and is held.
LEMMA ContractSubscribe ==
  ASSUME TypeOK, Ownership,
         NEW c \in Callers, NEW t \in Topics, NEW w \in Requests, SubscribeNew(c, t, w)
  PROVE  \E i \in SubIds : Contract!Subscribe(i)
<1> DEFINE i == subCount + 1
           s == [topic |-> t, joinRef |-> IF isConnected THEN refCounter + 1 ELSE NoRef,
                 joined |-> FALSE, filter |-> w, rejoinTimer |-> FALSE,
                 rejoinTries |-> 0, callbacks |-> {c}, handlers |-> {c}]
<1>1. /\ sub \in [SubIds -> Subscription]
      /\ subscriptions \in [Topics -> SubIds \cup {NoSub}]
      /\ subCount \in 0..MaxSubs /\ MapConsistent
  BY DEF TypeOK, SubscriptionsTypeOK, Ownership, Standing
<1>2. /\ subscriptions[t] = NoSub /\ subCount < MaxSubs /\ ConnectIfNeeded
      /\ subCount' = i
      /\ sub' = [sub EXCEPT ![i] = s]
      /\ subscriptions' = [subscriptions EXCEPT ![t] = i]
      /\ UNCHANGED <<unsub, reconnectTimer>>
  BY Zenon DEF SubscribeNew
<1>3. s.topic = t
  OBVIOUS
<1> HIDE DEF s
<1>4. i \in SubIds /\ i # NoSub
  BY <1>1, <1>2, BoundsAssumption DEF SubIds, NoSub
<1>5. unsub'[i] = "no" /\ ~(i > subCount')
  BY <1>1, <1>2, <1>4 DEF MapConsistent
<1>6. Life[i] = "unused"
  BY <1>1, <1>4 DEF Life
<1>7. i \in Live'
  BY <1>1, <1>2, <1>3, <1>4 DEF Live
<1>8. Life'[i] = "held"
  BY <1>4, <1>5, <1>7 DEF Life
<1>9. ASSUME NEW j \in SubIds \ {i}
      PROVE  Life'[j] = Life[j]
  <2>1. sub'[j] = sub[j] /\ sub[j].topic \in Topics
    BY <1>1, <1>2 DEF Subscription
  <2>2. j # NoSub
    BY DEF SubIds, NoSub
  <2>3. j \in Live' <=> j \in Live
    BY <1>1, <1>2, <2>1, <2>2 DEF Live
  <2>4. j > subCount' <=> j > subCount
    BY <1>1, <1>2 DEF SubIds
  <2> QED
    BY <1>2, <2>3, <2>4 DEF Life
<1>10. Phase' = "up"
  BY <1>2 DEF Phase, ConnectIfNeeded
<1>11. LifeOnlyOf(i, "held")
  BY <1>4, <1>8, <1>9, LifeChangesAt, Zenon
<1> QED
  BY <1>4, <1>6, <1>10, <1>11 DEF Contract!Subscribe, LifeOnlyOf

\* A topic is left at once, or when the server answers.
LEMMA ContractUnsubscribe ==
  ASSUME TypeOK, Ownership,
         NEW i \in Live, NEW s \in Subscription, s.topic = sub[i].topic, LeaveTopic(i, s)
  PROVE  Contract!Unsubscribe(i)
<1> DEFINE s1 == [s EXCEPT !.rejoinTimer = FALSE]
<1>1. /\ sub \in [SubIds -> Subscription]
      /\ subscriptions \in [Topics -> SubIds \cup {NoSub}]
      /\ unsub \in [SubIds -> {"no", "waiting", "done"}]
      /\ subCount \in 0..MaxSubs /\ MapConsistent
  BY DEF TypeOK, SubscriptionsTypeOK, RepliesTypeOK, Ownership, Standing
<1>2. /\ subscriptions' = [subscriptions EXCEPT ![sub[i].topic] = NoSub]
      /\ sub' = [sub EXCEPT ![i] = s1]
      /\ UNCHANGED <<subCount, socket, reconnectTimer>>
  BY Zenon DEF LeaveTopic, connVars
<1>3. \/ isConnected /\ unsub' = [unsub EXCEPT ![i] = "waiting"]
      \/ unsub' = [unsub EXCEPT ![i] = "done"]
  BY Zenon DEF LeaveTopic
<1>4. s1.topic = sub[i].topic
  BY DEF Subscription
<1> HIDE DEF s1
<1>5. i \in SubIds /\ i # NoSub /\ sub[i].topic \in Topics
  BY <1>1 DEF Live, SubIds, NoSub, Subscription
<1>6. subscriptions[sub[i].topic] = i
  BY DEF Live
<1>7. ~(i > subCount) /\ unsub[i] = "no"
  BY <1>1, <1>5, <1>6 DEF MapConsistent, SubIds
<1>8. Life[i] = "held"
  BY <1>5, <1>7 DEF Life
<1>9. ASSUME NEW j \in SubIds \ {i}
      PROVE  Life'[j] = Life[j]
  <2>1. sub'[j] = sub[j] /\ sub[j].topic \in Topics /\ unsub'[j] = unsub[j]
    BY <1>1, <1>2, <1>3 DEF Subscription
  <2>2. j # NoSub
    BY DEF SubIds, NoSub
  <2>3. j \in Live' <=> j \in Live
    BY <1>1, <1>2, <1>6, <2>1, <2>2 DEF Live
  <2> QED
    BY <1>2, <2>1, <2>3 DEF Life
<1>10. Life'[i] = IF unsub'[i] = "waiting" THEN "leaving" ELSE "left"
  BY <1>1, <1>2, <1>3, <1>5, <1>7 DEF Life
<1>11. LifeOnlyOf(i, Life'[i])
  BY <1>5, <1>9, LifeChangesAt, Zenon
<1>12. Phase' = Phase
  BY <1>2 DEF Phase
<1>13. unsub'[i] = "waiting" => Phase = "up"
  BY <1>1, <1>3, <1>5 DEF Phase, isConnected
<1>14. Life' = [Life EXCEPT ![i] = "left"] \/ Life' = [Life EXCEPT ![i] = "leaving"]
  BY <1>10, <1>11 DEF LifeOnlyOf
<1>15. unsub'[i] # "waiting" => Life' = [Life EXCEPT ![i] = "left"]
  BY <1>10, <1>11 DEF LifeOnlyOf
<1> QED
  BY <1>8, <1>12, <1>13, <1>14, <1>15, Zenon DEF Contract!Unsubscribe

\* An answer or a timeout acknowledges the unsubscribe it was owed to.
LEMMA ContractAcknowledge ==
  ASSUME TypeOK, Ownership, NEW p \in pendingLeaves,
         unsub' = [unsub EXCEPT ![p.sub] = "done"],
         UNCHANGED <<socket, reconnectTimer, subVars>>
  PROVE  \E i \in SubIds : Contract!Acknowledge(i)
<1> DEFINE i == p.sub
<1>1. /\ unsub \in [SubIds -> {"no", "waiting", "done"}]
      /\ subCount \in 0..MaxSubs /\ MapConsistent /\ LeavesOwed
      /\ i \in SubIds
  BY DEF TypeOK, SubscriptionsTypeOK, RepliesTypeOK, Ownership, Standing, PendingReply
<1>2. unsub[i] = "waiting"
  BY <1>1 DEF LeavesOwed
<1> HIDE DEF i
<1>3. ~(i > subCount)
  BY <1>1, <1>2 DEF MapConsistent
<1>4. UNCHANGED <<subscriptions, sub, subCount>> /\ Live' = Live /\ Phase' = Phase
  BY DEF subVars, Live, Phase
<1>5. unsub' = [unsub EXCEPT ![i] = "done"]
  BY DEF i
<1>6. Life[i] = "leaving" /\ Life'[i] = "left"
  BY <1>1, <1>2, <1>3, <1>4, <1>5 DEF Life
<1>7. \A j \in SubIds \ {i} : Life'[j] = Life[j]
  BY <1>1, <1>4, <1>5 DEF Life
<1>8. LifeOnlyOf(i, "left")
  BY <1>1, <1>6, <1>7, LifeChangesAt, Zenon
<1> QED
  BY <1>1, <1>4, <1>6, <1>8, Zenon DEF Contract!Acknowledge, LifeOnlyOf

\* A reply to a leave settles one unsubscribe, or comes too late for it.
LEMMA ContractLeaveReply ==
  ASSUME TypeOK, Ownership, RepliesCorrelated, NEW l \in leaves, LeaveReply(l)
  PROVE  (\E i \in SubIds : Contract!Acknowledge(i)) \/ UNCHANGED <<Phase, Life>>
<1> DEFINE settled == {p \in pendingLeaves : p.ref = l.ref}
           done == {p.sub : p \in settled}
<1>1. /\ unsub' = [i \in SubIds |-> IF i \in done THEN "done" ELSE unsub[i]]
      /\ UNCHANGED <<socket, reconnectTimer, subVars>>
  BY Zenon DEF LeaveReply, Proven
<1>2. unsub \in [SubIds -> {"no", "waiting", "done"}]
  BY DEF TypeOK, RepliesTypeOK
<1>3. CASE settled = {}
  <2>1. unsub' = unsub
    BY <1>1, <1>2, <1>3
  <2> QED
    BY <1>1, <2>1 DEF Phase, Life, Live, subVars
<1>4. ASSUME NEW p \in settled
      PROVE  \E i \in SubIds : Contract!Acknowledge(i)
  <2>1. settled = {p}
    BY DEF RepliesCorrelated
  <2>2. done = {p.sub}
    BY <2>1
  <2>3. unsub' = [unsub EXCEPT ![p.sub] = "done"]
    BY <1>1, <1>2, <2>2
  <2> QED
    BY <1>1, <2>3, ContractAcknowledge
<1> QED
  BY <1>3, <1>4

\* Settling what is pending is what the contract calls Settled.
LEMMA SettledLives ==
  ASSUME TypeOK, Ownership, clearPendingReplies, UNCHANGED subCount
  PROVE  \A i \in SubIds :
           Life'[i] = IF Life[i] = "leaving" THEN "left"
                      ELSE IF Life[i] \in {"unused", "left"} THEN Life[i]
                      ELSE IF i \in Live' THEN "held" ELSE "dropped"
<1> SUFFICES ASSUME NEW i \in SubIds
             PROVE  Life'[i] = IF Life[i] = "leaving" THEN "left"
                               ELSE IF Life[i] \in {"unused", "left"} THEN Life[i]
                               ELSE IF i \in Live' THEN "held" ELSE "dropped"
  OBVIOUS
<1>1. /\ unsub[i] \in {"no", "waiting", "done"} /\ subCount \in 0..MaxSubs
      /\ i > subCount => unsub[i] = "no"
      /\ unsub[i] = "waiting" <=> i \in pendingUnsubscribes
  BY DEF TypeOK, SubscriptionsTypeOK, RepliesTypeOK, Ownership, Standing, MapConsistent, LeavesOwed,
         WaitingOwed
<1>2. unsub'[i] = IF unsub[i] = "waiting" THEN "done" ELSE unsub[i]
  BY <1>1 DEF clearPendingReplies
<1> QED
  BY <1>1, <1>2 DEF Life

\* A connection that is lost costs no topic.
LEMMA ContractLose ==
  ASSUME TypeOK, Ownership, Lost
  PROVE  Contract!Lose
<1>1. Phase = "up" /\ Phase' = "backoff"
  BY DEF Lost, Phase
<1>2. Live' = Live
  BY LiveKept DEF Lost
<1>3. \A i \in SubIds : Life'[i] = IF Life[i] = "leaving" THEN "left" ELSE Life[i]
  <2>1. ASSUME NEW i \in SubIds
        PROVE  /\ Life[i] = "held" => i \in Live
               /\ Life[i] = "dropped" => i \notin Live
               /\ Life[i] \in {"unused", "leaving", "left", "held", "dropped"}
    BY DEF Life
  <2>2. clearPendingReplies /\ UNCHANGED subCount
    BY DEF Lost
  <2> QED
    BY <1>2, <2>1, <2>2, SettledLives
<1>4. Life' = [i \in SubIds |-> Life'[i]]
  BY DEF Life
<1>5. Life' = Contract!Settled
  BY <1>3, <1>4 DEF Contract!Settled
<1> QED
  BY <1>1, <1>5 DEF Contract!Lose

\* Giving up ends every subscription.
LEMMA ContractDisconnect ==
  ASSUME TypeOK, Ownership, GivenUp
  PROVE  Contract!Disconnect
<1>1. /\ clearPendingReplies /\ UNCHANGED subCount /\ LoseSocket
      /\ subscriptions' = [t \in Topics |-> NoSub]
      /\ reconnectTimer' = FALSE /\ TopicsKept
  BY DEF GivenUp, DropEverything
<1>2. Phase' = "idle"
  BY <1>1 DEF Phase, LoseSocket
<1>3. \A i \in SubIds : i \notin Live'
  <2>1. \A i \in SubIds : sub[i].topic \in Topics /\ i # NoSub
    BY DEF TypeOK, SubscriptionsTypeOK, Subscription, SubIds, NoSub
  <2> QED
    BY <1>1, <2>1 DEF Live, TopicsKept
<1>4. \A i \in SubIds :
        Life'[i] = IF Life[i] = "held" THEN "dropped"
                   ELSE IF Life[i] = "leaving" THEN "left" ELSE Life[i]
  <2>1. \A i \in SubIds : Life[i] \in {"unused", "leaving", "left", "held", "dropped"}
    BY DEF Life
  <2> QED
    BY <1>1, <1>3, <2>1, SettledLives
<1>5. Life' = [i \in SubIds |-> Life'[i]]
  BY DEF Life
<1>6. Life' = [i \in SubIds |-> IF Life[i] = "held" THEN "dropped" ELSE Contract!Settled[i]]
  BY <1>4, <1>5 DEF Contract!Settled
<1> QED
  BY <1>2, <1>6 DEF Contract!Disconnect

\* What leaves the lives alone opens a connection or stutters.
LEMMA ContractCalm ==
  ASSUME Calm
  PROVE  Contract!Open \/ UNCHANGED <<Phase, Life>>
<1>1. Live' = Live
  BY LiveKept DEF Calm
<1>2. Life' = Life
  BY <1>1 DEF Calm, Life
<1>3. Phase' = Phase \/ Phase' = "up"
  BY DEF Calm, Phase
<1> QED
  BY <1>2, <1>3 DEF Contract!Open

\* Every step of the transport is one of the contract or leaves no trace there,
\* but for a heartbeat timeout whose error handler disconnects.
LEMMA ContractStep ==
  ASSUME TypeOK, Ownership, Delivery, [Contained]_vars
  PROVE  \/ [Contract!Next]_<<Phase, Life>>
         \/ "disconnect" \in ErrorReactions /\ HeartbeatTimeout("disconnect")
<1>1. RepliesCorrelated /\ RefsUnique
  BY DEF Delivery
<1>2. ASSUME NEW c \in Callers, NEW t \in Topics, NEW w \in Requests, SubscribeNew(c, t, w)
      PROVE  Contract!Next
  BY <1>2, ContractSubscribe, Zenon DEF Contract!Next
<1>3. ASSUME NEW i \in Live, NEW s \in Subscription, s.topic = sub[i].topic, LeaveTopic(i, s)
      PROVE  Contract!Next
  <2>1. i \in SubIds
    BY DEF Live
  <2> QED
    BY <1>3, <2>1, ContractUnsubscribe, Zenon DEF Contract!Next
<1>4. ASSUME NEW l \in leaves, LeaveReply(l)
      PROVE  Contract!Next \/ UNCHANGED <<Phase, Life>>
  BY <1>1, <1>4, ContractLeaveReply, Zenon DEF Contract!Next
<1>5. ASSUME NEW p \in pendingLeaves, LeaveTimeout(p)
      PROVE  Contract!Next
  <2>1. UNCHANGED <<socket, reconnectTimer, subVars>>
    BY <1>5 DEF LeaveTimeout, connVars
  <2>2. unsub' = [unsub EXCEPT ![p.sub] = "done"]
    BY <1>5, Zenon DEF LeaveTimeout
  <2> QED
    BY <2>1, <2>2, ContractAcknowledge, Zenon DEF Contract!Next
<1>6. Calm => Contract!Next \/ UNCHANGED <<Phase, Life>>
  BY ContractCalm, Zenon DEF Contract!Next
<1>7. Lost \/ GivenUp => Contract!Next
  BY ContractLose, ContractDisconnect, Zenon DEF Contract!Next
<1> QED
  BY <1>1, <1>2, <1>3, <1>4, <1>5, <1>6, <1>7, LifeSteps, Zenon

LEMMA ContractInit == Init => Contract!Init
<1> SUFFICES ASSUME Init PROVE Contract!Init
  OBVIOUS
<1>1. Phase = "idle"
  BY DEF Init, Phase
<1>2. Life = [i \in SubIds |-> "unused"]
  BY DEF Init, Life, SubIds
<1> QED
  BY <1>1, <1>2 DEF Contract!Init

\* The transport does what StreamContract allows, step by step, where no
\* exception gets past safeInvoke, except where a heartbeat timeout reports its error to a
\* handler that disconnects: the reconnect it schedules then (phoenix.ts:404)
\* is a step the contract has no name for.
THEOREM StepsAreTheContract ==
  ASSUME ~safeInvokeThrows
  PROVE  Spec => Contract!Init /\
           [][\/ [Contract!Next]_<<Phase, Life>>
              \/ "disconnect" \in ErrorReactions /\ HeartbeatTimeout("disconnect")]_vars
<1> DEFINE Kept == \/ [Contract!Next]_<<Phase, Life>>
                   \/ "disconnect" \in ErrorReactions /\ HeartbeatTimeout("disconnect")
<1>1. TypeOK /\ Ownership /\ Delivery /\ [Next]_vars => Kept
  BY ContractStep, ContainedSteps
<1> HIDE DEF Kept
<1>2. Spec => Contract!Init /\ [][Kept]_vars
  BY <1>1, ContractInit, TypeCorrect, OwnershipInvariant, DeliveryInvariant, PTL DEF Spec
<1> QED
  BY <1>2 DEF Kept

\* With error handlers that never disconnect, and no exception that gets past
\* safeInvoke, the transport implements the contract; what the contract says of fairness is not part of this statement.
THEOREM ImplementsTheContract ==
  ASSUME "disconnect" \notin ErrorReactions, ~safeInvokeThrows
  PROVE  Spec => Contract!Init /\ [][Contract!Next]_<<Phase, Life>>
<1>1. TypeOK /\ Ownership /\ Delivery /\ [Next]_vars => [Contract!Next]_<<Phase, Life>>
  BY ContractStep, ContainedSteps
<1> QED
  BY <1>1, ContractInit, TypeCorrect, OwnershipInvariant, DeliveryInvariant, PTL DEF Spec

\* What the contract implies by itself: both of its variables keep their types.
LEMMA ContractTypeCorrect == Contract!Spec => []Contract!TypeOK
<1> USE DEF Contract!Phases, Contract!Lives
<1>1. Contract!Init => Contract!TypeOK
  BY DEF Contract!Init, Contract!TypeOK
<1>2. Contract!TypeOK /\ [Contract!Next]_Contract!vars => Contract!TypeOK'
  BY DEF Contract!TypeOK, Contract!Next, Contract!vars, Contract!Open, Contract!Subscribe,
         Contract!Unsubscribe, Contract!Acknowledge, Contract!Lose, Contract!Retry,
         Contract!Disconnect, Contract!Settled
<1> QED
  BY <1>1, <1>2, PTL DEF Contract!Spec

\* Whoever holds a topic has a connection or a retry is due, and nobody waits
\* for an acknowledgement that no connection can bring: what a consumer concludes
\* from the contract alone.
THEOREM HeldIsServedHolds == Contract!Spec => []Contract!HeldIsServed
<1>1. Contract!Init => Contract!HeldIsServed
  BY DEF Contract!Init, Contract!HeldIsServed
<1>2. ASSUME Contract!TypeOK, Contract!HeldIsServed, [Contract!Next]_Contract!vars
      PROVE  Contract!HeldIsServed'
  <2> USE DEF Contract!HeldIsServed, Contract!TypeOK, Contract!Lives, Contract!Phases
  <2>1. CASE Contract!Open \/ Contract!Retry
    BY <1>2, <2>1 DEF Contract!Open, Contract!Retry
  <2>2. CASE Contract!Lose \/ Contract!Disconnect
    BY <1>2, <2>2 DEF Contract!Lose, Contract!Disconnect, Contract!Settled
  <2>3. ASSUME NEW i \in SubIds,
               Contract!Subscribe(i) \/ Contract!Unsubscribe(i) \/ Contract!Acknowledge(i)
        PROVE  Contract!HeldIsServed'
    BY <1>2, <2>3 DEF Contract!Subscribe, Contract!Unsubscribe, Contract!Acknowledge
  <2>4. CASE UNCHANGED Contract!vars
    BY <1>2, <2>4 DEF Contract!vars
  <2> QED
    BY <1>2, <2>1, <2>2, <2>3, <2>4 DEF Contract!Next
<1> QED
  BY <1>1, <1>2, ContractTypeCorrect, PTL DEF Contract!Spec

-----------------------------------------------------------------------------
(* A topic is joined once and shared                                       *)

\* Two subscription objects that differ in their handlers and tries at most.
Same(s, o) ==
  /\ s.topic = o.topic /\ s.joinRef = o.joinRef /\ s.joined = o.joined
  /\ s.filter = o.filter /\ s.rejoinTimer = o.rejoinTimer /\ s.callbacks = o.callbacks

\* What Sharing speaks of is left alone, and no socket opens.
LEMMA SharingQuiet ==
  ASSUME TypeOK, Sharing,
         \A i \in SubIds : Same(sub'[i], sub[i]),
         UNCHANGED <<subscriptions, subCount, pendingJoins, told, channels>>,
         isConnected' => isConnected
  PROVE  Sharing'
<1> USE DEF Same
<1>1. Live' = Live
  BY DEF Live
<1>2. \A i \in Live : i \in SubIds
  BY DEF Live
<1> HIDE DEF Live
<1>3. ChannelsOwned'
  <2>1. \A ch \in channels : ch.sub \in SubIds
    BY DEF TypeOK, ServerTypeOK, Channel
  <2> QED
    BY <1>1, <2>1 DEF Sharing, ChannelsOwned
<1>4. RejoinsNeeded' /\ OneTopicEach'
  BY <1>1 DEF Sharing, RejoinsNeeded, OneTopicEach
<1>5. JoinsOwed'
  BY DEF Sharing, JoinsOwed
<1>6. JoinedMeansFed'
  BY <1>1, <1>2 DEF Sharing, JoinedMeansFed
<1> QED
  BY <1>3, <1>4, <1>5, <1>6 DEF Sharing

\* No channel outlives its socket, and no rejoin is armed by losing it.
LEMMA SharingDown ==
  ASSUME Sharing, channels' = {}, socket' # "open", UNCHANGED subCount,
         \A i \in SubIds : /\ sub'[i].callbacks = sub[i].callbacks
                           /\ sub'[i].filter = sub[i].filter
                           /\ sub'[i].rejoinTimer => i \in Live' /\ ~sub'[i].joined
  PROVE  Sharing'
<1>1. ChannelsOwned' /\ JoinsOwed' /\ JoinedMeansFed'
  BY DEF ChannelsOwned, JoinsOwed, JoinedMeansFed, isConnected
<1>2. RejoinsNeeded'
  BY DEF RejoinsNeeded
<1>3. OneTopicEach'
  BY DEF Sharing, OneTopicEach
<1> QED
  BY <1>1, <1>2, <1>3 DEF Sharing

\* onopen joins every live topic afresh.
LEMMA SharingOpen ==
  ASSUME TypeOK, Ownership, Delivery, Sharing, HandleOpen
  PROVE  Sharing'
<1>a. /\ sub \in [SubIds -> Subscription] /\ Live \subseteq SubIds
      /\ subscriptions \in [Topics -> SubIds \cup {NoSub}]
  BY DEF TypeOK, SubscriptionsTypeOK, Live
<1>1. ASSUME NEW j \in SubIds
      PROVE  /\ sub'[j].topic = sub[j].topic /\ sub'[j].filter = sub[j].filter
             /\ sub'[j].callbacks = sub[j].callbacks
             /\ sub'[j].joinRef = IF j \in Live THEN RefAtOpen(j) ELSE sub[j].joinRef
             /\ sub'[j].joined = IF j \in Live THEN FALSE ELSE sub[j].joined
             /\ sub'[j].rejoinTimer = IF j \in Live THEN FALSE ELSE sub[j].rejoinTimer
  <2>1. sub'[j] = IF j \in Live THEN RejoinedAtOpen(j) ELSE sub[j]
    BY DEF HandleOpen
  <2>2. DOMAIN sub[j] = {"topic", "joinRef", "joined", "filter", "rejoinTimer",
                         "rejoinTries", "callbacks", "handlers"}
    BY <1>a DEF Subscription
  <2> QED
    BY <2>1, <2>2 DEF RejoinedAtOpen
<1>2. /\ channels' = {JoinOf(j, RefAtOpen(j), sub[j].filter) : j \in Live}
      /\ pendingJoins' = pendingJoins \cup {[ref |-> RefAtOpen(j), sub |-> j] : j \in Live}
      /\ UNCHANGED <<subscriptions, subCount>>
  BY DEF HandleOpen
<1>3. pendingJoins = {}
  BY DEF HandleOpen, Delivery, RepliesCorrelated
<1>4. Live' = Live
  <2>1. \A j \in SubIds : sub'[j].topic = sub[j].topic
    BY <1>1
  <2> QED
    BY <1>2, <2>1 DEF Live
<1>5. \A j \in Live : j \in SubIds /\ j <= subCount
  BY <1>a DEF Ownership, Standing, MapConsistent, Live, SubIds, NoSub, Subscription
<1> HIDE DEF Live
<1>6. \A ch \in channels' : \E j \in Live :
         /\ ch.sub = j /\ ch.ref = RefAtOpen(j) /\ ch.topic = sub[j].topic /\ ~ch.left
  BY <1>2 DEF JoinOf
<1>7. ChannelsOwned'
  <2>1. \A j \in Live : /\ sub'[j].topic = sub[j].topic /\ sub'[j].joinRef = RefAtOpen(j)
                        /\ j \in Live' /\ j <= subCount'
    BY <1>1, <1>2, <1>4, <1>5
  <2> HIDE DEF RefAtOpen
  <2> SUFFICES ASSUME NEW ch \in channels'
               PROVE  /\ ch.topic = sub'[ch.sub].topic /\ ch.sub <= subCount'
                      /\ ~ch.left /\ ch.sub \in Live' /\ ch.ref = sub'[ch.sub].joinRef
    BY DEF ChannelsOwned
  <2> QED
    BY <1>6, <2>1
<1>8. RejoinsNeeded'
  BY <1>1 DEF Sharing, RejoinsNeeded
<1>9. JoinsOwed'
  <2> SUFFICES ASSUME NEW p \in pendingJoins'
               PROVE  \E ch \in channels' : ch.ref = p.ref /\ ch.sub = p.sub /\ ~ch.up
    BY DEF JoinsOwed
  <2>1. PICK j \in Live : p = [ref |-> RefAtOpen(j), sub |-> j]
    BY <1>2, <1>3
  <2>2. JoinOf(j, RefAtOpen(j), sub[j].filter) \in channels'
    BY <1>2
  <2> QED
    BY <2>1, <2>2 DEF JoinOf
<1>10. OneTopicEach'
  BY <1>1, <1>2 DEF Sharing, OneTopicEach
<1>11. JoinedMeansFed'
  BY <1>1, <1>4, <1>5 DEF JoinedMeansFed
<1> QED
  BY <1>7, <1>8, <1>9, <1>10, <1>11 DEF Sharing

\* What subscriptions other than i need for Sharing, when i gets a new channel
\* or none.
LEMMA SharingJoin ==
  ASSUME TypeOK, Ownership, Delivery, Sharing,
         NEW i \in SubIds, NEW new, NEW J,
         \A j \in SubIds \ {i} : sub'[j] = sub[j] /\ (j \in Live' <=> j \in Live),
         \A j \in SubIds \ {i} : \A c \in sub[j].callbacks : told'[c] = told[c],
         \A ch \in channels : ch.sub # i,
         i \in Live', i <= subCount', subCount <= subCount', subCount' \in Nat,
         \A j \in SubIds \ {i} : j <= subCount' => j <= subCount,
         \A j \in SubIds \ {i} : sub'[i].callbacks \cap sub[j].callbacks = {},
         ~sub'[i].rejoinTimer, ~sub'[i].joined, sub'[i].filter = Events,
         \/ /\ isConnected
            /\ channels' = channels \cup {new} /\ J = {[ref |-> new.ref, sub |-> i]}
            /\ new.ref \in Nat /\ new.ref > refCounter
            /\ new.sub = i /\ new.topic = sub'[i].topic /\ ~new.up /\ ~new.left
            /\ new.ref = sub'[i].joinRef
         \/ ~isConnected /\ channels' = channels /\ J = {},
         pendingJoins' = pendingJoins \cup J,
         isConnected' => isConnected
  PROVE  Sharing'
<1>a. /\ refCounter \in Nat /\ subCount \in Nat
      /\ \A ch \in channels : ch.sub \in SubIds /\ ch.ref <= refCounter /\ ch.ref \in Nat
      /\ \A j \in SubIds : sub[j].joinRef \in Nat /\ sub[j].joinRef <= refCounter /\ j \in Nat
  <2>1. refCounter \in Nat /\ subCount \in 0..MaxSubs /\ sub \in [SubIds -> Subscription]
        /\ channels \subseteq Channel
    BY DEF TypeOK, SubscriptionsTypeOK, ServerTypeOK
  <2>2. \A ch \in channels : ch.sub \in SubIds /\ ch.ref \in 0..refCounter
    BY ONLY <2>1 DEF Channel, Refs
  <2>3. \A j \in SubIds : sub[j].joinRef \in 0..refCounter
    BY ONLY <2>1 DEF Subscription, Refs
  <2>4. \A j \in SubIds : j \in Nat
    BY DEF SubIds
  <2> QED
    BY ONLY <2>1, <2>2, <2>3, <2>4
<1>b. Live \subseteq SubIds /\ Live' \subseteq SubIds
  BY DEF Live
<1> HIDE DEF Live, isConnected
<1>1. ChannelsOwned'
  <2> SUFFICES ASSUME NEW ch \in channels'
               PROVE  /\ ch.topic = sub'[ch.sub].topic /\ ch.sub <= subCount'
                      /\ IF ch.left THEN ch.sub \notin Live'
                         ELSE ch.sub \in Live' /\ ch.ref = sub'[ch.sub].joinRef
    BY DEF ChannelsOwned
  <2>1. CASE ch \in channels
    <3>1. ch.sub \in SubIds \ {i}
      BY <1>a, <2>1
    <3>2. /\ ch.topic = sub[ch.sub].topic /\ ch.sub <= subCount
          /\ IF ch.left THEN ch.sub \notin Live
             ELSE ch.sub \in Live /\ ch.ref = sub[ch.sub].joinRef
      BY <2>1 DEF Sharing, ChannelsOwned
    <3>3. ch.sub <= subCount'
      BY <1>a, <3>1, <3>2
    <3> QED
      BY <3>1, <3>2, <3>3
  <2>2. CASE ch \notin channels
    BY <2>2
  <2> QED
    BY <2>1, <2>2
<1>2. RejoinsNeeded'
  <2> SUFFICES ASSUME NEW j \in SubIds, sub'[j].rejoinTimer
               PROVE  /\ j \in Live' /\ ~sub'[j].joined
                      /\ \A ch \in channels' : ch.ref # sub'[j].joinRef
    BY DEF RejoinsNeeded
  <2>1. j # i /\ sub'[j] = sub[j]
    OBVIOUS
  <2>2. j \in Live /\ ~sub[j].joined /\ \A ch \in channels : ch.ref # sub[j].joinRef
    BY <2>1 DEF Sharing, RejoinsNeeded
  <2> QED
    BY <1>a, <2>1, <2>2
<1>3. JoinsOwed'
  <2> SUFFICES ASSUME isConnected', NEW p \in pendingJoins'
               PROVE  \E ch \in channels' : ch.ref = p.ref /\ ch.sub = p.sub /\ ~ch.up
    BY DEF JoinsOwed
  <2>1. CASE p \in pendingJoins
    BY <2>1 DEF Sharing, JoinsOwed
  <2>2. CASE p \notin pendingJoins
    BY <2>2
  <2> QED
    BY <2>1, <2>2
<1>4. OneTopicEach'
  BY <1>a DEF Sharing, OneTopicEach
<1>5. JoinedMeansFed'
  <2> SUFFICES ASSUME NEW j \in Live', isConnected', sub'[j].joined
               PROVE  /\ \E ch \in channels' : ch.ref = sub'[j].joinRef /\ ch.up
                      /\ \A c \in sub'[j].callbacks : told'[c] = "ok"
    BY DEF JoinedMeansFed
  <2>1. j \in SubIds \ {i} /\ j \in Live /\ sub'[j] = sub[j]
    BY <1>b
  <2>2. /\ \E ch \in channels : ch.ref = sub[j].joinRef /\ ch.up
        /\ \A c \in sub[j].callbacks : told[c] = "ok"
    BY <2>1 DEF Sharing, JoinedMeansFed
  <2> QED
    BY <2>1, <2>2
<1> QED
  BY <1>1, <1>2, <1>3, <1>4, <1>5 DEF Sharing

\* A new subscription is for everything, and has a caller of its own.
LEMMA SharingNew ==
  ASSUME Requests \subseteq {Events}, TypeOK, Ownership, Delivery, Sharing,
         NEW c \in Callers, NEW t \in Topics, NEW w \in Requests, SubscribeNew(c, t, w)
  PROVE  Sharing'
<1> DEFINE i == subCount + 1
           r == refCounter + 1
           ref == IF isConnected THEN r ELSE NoRef
           fresh == [topic |-> t, joinRef |-> ref, joined |-> FALSE, filter |-> w,
                     rejoinTimer |-> FALSE, rejoinTries |-> 0, callbacks |-> {c},
                     handlers |-> {c}]
           new == [topic |-> t, sub |-> i, ref |-> r, filter |-> w,
                   up |-> FALSE, left |-> FALSE]
           J == IF isConnected THEN {[ref |-> r, sub |-> i]} ELSE {}
<1>a. /\ sub \in [SubIds -> Subscription] /\ subscriptions \in [Topics -> SubIds \cup {NoSub}]
      /\ refCounter \in Nat /\ subCount \in Nat /\ w = Events
      /\ told \in [Callers -> {"idle", "waiting", "ok", "error"}]
  BY DEF TypeOK, SubscriptionsTypeOK, CallersTypeOK
<1>b. i \in SubIds /\ i > subCount /\ i \in Nat /\ r \in Nat /\ r > refCounter
  BY <1>a, BoundsAssumption DEF SubscribeNew, TypeOK, SubscriptionsTypeOK, SubIds
<1>c. /\ fresh.topic = t /\ fresh.joinRef = ref /\ fresh.filter = w
      /\ fresh.callbacks = {c} /\ ~fresh.joined /\ ~fresh.rejoinTimer
      /\ new.ref = r /\ new.sub = i /\ new.topic = t /\ ~new.up /\ ~new.left
  OBVIOUS
<1>1. /\ told[c] = "idle" /\ subCount' = i /\ subscriptions[t] = NoSub
      /\ sub' = [sub EXCEPT ![i] = fresh]
      /\ subscriptions' = [subscriptions EXCEPT ![t] = i]
      /\ told' = [told EXCEPT ![c] = "waiting"]
      /\ ConnectIfNeeded
  BY Zenon DEF SubscribeNew
<1>2. /\ isConnected => channels' = channels \cup {new} /\
                        pendingJoins' = pendingJoins \cup {[ref |-> r, sub |-> i]}
      /\ ~isConnected => channels' = channels /\ pendingJoins' = pendingJoins
  BY Zenon DEF SubscribeNew
<1> HIDE DEF fresh, new
<1>3. pendingJoins' = pendingJoins \cup J
  BY <1>2
<1>4. \/ /\ isConnected
         /\ channels' = channels \cup {new} /\ J = {[ref |-> new.ref, sub |-> i]}
         /\ ref = r
      \/ ~isConnected /\ channels' = channels /\ J = {}
  BY <1>2, <1>c
<1> HIDE DEF i, r, ref, J
<1>5. /\ sub'[i] = fresh
      /\ \A j \in SubIds \ {i} : sub'[j] = sub[j]
  BY <1>1, <1>a, <1>b
<1>6. i \in Live'
  BY <1>1, <1>5, <1>a, <1>b, <1>c DEF Live
<1>7. \A j \in SubIds \ {i} : j \in Live' <=> j \in Live
  <2>1. \A j \in SubIds \ {i} : j # NoSub /\ sub[j].topic \in Topics
    BY <1>a DEF SubIds, NoSub, Subscription
  <2> QED
    BY <1>1, <1>5, <1>a, <2>1 DEF Live
<1>8. \A j \in SubIds : c \notin sub[j].callbacks /\ sub[j].callbacks \subseteq Callers
  BY <1>1, <1>a DEF Delivery, CallersCovered, Subscription
<1>9. \A j \in SubIds \ {i} : \A d \in sub[j].callbacks : told'[d] = told[d]
  BY <1>1, <1>8, <1>a
<1>10. \A ch \in channels : ch.sub # i
  <2>1. \A ch \in channels : ch.sub <= subCount /\ ch.sub \in Nat
    BY DEF Sharing, ChannelsOwned, TypeOK, ServerTypeOK, Channel, SubIds
  <2> QED
    BY <1>a, <1>b, <2>1
<1>11. \A j \in SubIds \ {i} : j <= subCount' => j <= subCount
  <2>1. i = subCount + 1
    BY DEF i
  <2> QED
    BY <1>1, <1>a, <2>1 DEF SubIds
<1>12. \A j \in SubIds \ {i} : sub'[i].callbacks \cap sub[j].callbacks = {}
  BY <1>5, <1>8, <1>c
<1>13. isConnected' => isConnected
  BY <1>1 DEF ConnectIfNeeded, isConnected
<1>14. subCount <= subCount' /\ i <= subCount' /\ subCount' \in Nat
  BY <1>1, <1>a, <1>b
<1> QED
  BY <1>3, <1>4, <1>5, <1>6, <1>7, <1>9, <1>10, <1>11, <1>12, <1>13, <1>14, <1>a, <1>b,
     <1>c, SharingJoin

\* A topic is joined again only where its last channel has died.
LEMMA SharingRejoin ==
  ASSUME TypeOK, Ownership, Delivery, Sharing, NEW i \in SubIds, RejoinTimeout(i)
  PROVE  Sharing'
<1> DEFINE r == refCounter + 1
           rejoined == [sub[i] EXCEPT !.rejoinTimer = FALSE, !.joinRef = r]
           idle == [sub[i] EXCEPT !.rejoinTimer = FALSE]
           new == JoinOf(i, r, sub[i].filter)
           J == IF isConnected THEN {[ref |-> r, sub |-> i]} ELSE {}
<1>a. /\ sub \in [SubIds -> Subscription] /\ subscriptions \in [Topics -> SubIds \cup {NoSub}]
      /\ refCounter \in Nat /\ subCount \in Nat /\ r \in Nat /\ r > refCounter
  BY DEF TypeOK, SubscriptionsTypeOK
<1>b. /\ i \in Live /\ ~sub[i].joined /\ sub[i].rejoinTimer
      /\ \A ch \in channels : ch.ref # sub[i].joinRef
  BY DEF RejoinTimeout, Sharing, RejoinsNeeded
<1>c. subscriptions[sub[i].topic] = i /\ i # NoSub /\ i <= subCount /\ sub[i].topic \in Topics
  BY <1>a, <1>b DEF Live, SubIds, NoSub, Ownership, Standing, MapConsistent, Subscription
<1>1. /\ isConnected => /\ sub' = [sub EXCEPT ![i].rejoinTimer = FALSE, ![i].joinRef = r]
                        /\ pendingJoins' = pendingJoins \cup {[ref |-> r, sub |-> i]}
                        /\ channels' = channels \cup {new}
      /\ ~isConnected => /\ sub' = [sub EXCEPT ![i].rejoinTimer = FALSE]
                         /\ UNCHANGED <<pendingJoins, channels>>
  BY <1>c, Zenon DEF RejoinTimeout
<1>2. UNCHANGED <<subscriptions, subCount, told, socket>>
  BY DEF RejoinTimeout, callerVars, connVars
<1>3. /\ rejoined.topic = sub[i].topic /\ idle.topic = sub[i].topic
      /\ rejoined.filter = sub[i].filter /\ idle.filter = sub[i].filter
      /\ rejoined.callbacks = sub[i].callbacks /\ idle.callbacks = sub[i].callbacks
      /\ ~rejoined.joined /\ ~idle.joined /\ ~rejoined.rejoinTimer /\ ~idle.rejoinTimer
      /\ rejoined.joinRef = r
  BY <1>a, <1>b DEF Subscription
<1>4. /\ new.ref = r /\ new.sub = i /\ new.topic = sub[i].topic /\ ~new.up /\ ~new.left
  BY DEF JoinOf
<1>5. /\ isConnected => sub' = [sub EXCEPT ![i] = rejoined]
      /\ ~isConnected => sub' = [sub EXCEPT ![i] = idle]
  BY <1>1, <1>a
<1>6. pendingJoins' = pendingJoins \cup J
  BY <1>1
<1>7. \/ /\ isConnected
         /\ channels' = channels \cup {new} /\ J = {[ref |-> new.ref, sub |-> i]}
      \/ ~isConnected /\ channels' = channels /\ J = {}
  BY <1>1, <1>4
<1> HIDE DEF r, rejoined, idle, new, J
<1>8. /\ sub'[i].topic = sub[i].topic /\ sub'[i].filter = sub[i].filter
      /\ sub'[i].callbacks = sub[i].callbacks
      /\ ~sub'[i].joined /\ ~sub'[i].rejoinTimer
      /\ isConnected => sub'[i].joinRef = r
      /\ \A j \in SubIds \ {i} : sub'[j] = sub[j]
  BY <1>3, <1>5, <1>a
<1>9. /\ \A j \in SubIds \ {i} : j \in Live' <=> j \in Live
      /\ i \in Live'
  BY <1>2, <1>8, <1>b DEF Live
<1>10. \A ch \in channels : ch.sub # i
  BY <1>b DEF Sharing, ChannelsOwned
<1>11. /\ sub'[i].filter = Events
       /\ \A j \in SubIds \ {i} : sub'[i].callbacks \cap sub[j].callbacks = {}
  BY <1>8, <1>c DEF Sharing, OneTopicEach
<1>12. isConnected' => isConnected
  BY <1>2 DEF isConnected
<1>13. subCount <= subCount' /\ i <= subCount' /\ subCount' \in Nat
  BY <1>2, <1>a, <1>c
<1> QED
  BY <1>2, <1>4, <1>6, <1>7, <1>8, <1>9, <1>10, <1>11, <1>12, <1>13, <1>a, <1>c, SharingJoin

\* Another caller shares the topic; a filter for everything is never widened.
LEMMA SharingShared ==
  ASSUME Requests \subseteq {Events}, TypeOK, Ownership, Delivery, Sharing,
         NEW c \in Callers, NEW t \in Topics, NEW w \in Requests, SubscribeShared(c, t, w)
  PROVE  Sharing'
<1> DEFINE i == subscriptions[t]
           s == [sub[i] EXCEPT !.callbacks = @ \cup {c}, !.handlers = @ \cup {c},
                               !.filter = sub[i].filter \cup w]
           outcome == IF sub[i].joined THEN "ok" ELSE "waiting"
<1>a. /\ sub \in [SubIds -> Subscription] /\ subscriptions \in [Topics -> SubIds \cup {NoSub}]
      /\ told \in [Callers -> {"idle", "waiting", "ok", "error"}]
      /\ channels \subseteq Channel
  BY DEF TypeOK, SubscriptionsTypeOK, CallersTypeOK, ServerTypeOK
<1>b. i \in SubIds /\ i <= subCount /\ told[c] = "idle" /\ w = Events
  BY <1>a DEF SubscribeShared, Ownership, Standing, MapConsistent
<1>c. sub[i].filter = Events
  BY <1>b DEF Sharing, OneTopicEach
<1>1. ~WidensOnline(i, w)
  BY <1>b, <1>c DEF WidensOnline
<1>2. /\ sub' = [sub EXCEPT ![i] = s]
      /\ told' = [told EXCEPT ![c] = outcome]
      /\ UNCHANGED <<pendingJoins, channels, subscriptions, subCount>>
      /\ ConnectIfNeeded
  BY <1>1, Zenon DEF SubscribeShared
<1>3. /\ s.topic = sub[i].topic /\ s.joinRef = sub[i].joinRef /\ s.joined = sub[i].joined
      /\ s.filter = Events /\ s.rejoinTimer = sub[i].rejoinTimer
      /\ s.callbacks = sub[i].callbacks \cup {c}
  BY <1>a, <1>b, <1>c DEF Subscription
<1>4. isConnected' => isConnected
  BY <1>2 DEF ConnectIfNeeded, isConnected
<1> HIDE DEF i, s
<1>5. \A j \in SubIds :
        /\ sub'[j].topic = sub[j].topic /\ sub'[j].joinRef = sub[j].joinRef
        /\ sub'[j].joined = sub[j].joined /\ sub'[j].filter = sub[j].filter
        /\ sub'[j].rejoinTimer = sub[j].rejoinTimer
        /\ sub'[j].callbacks = IF j = i THEN sub[i].callbacks \cup {c} ELSE sub[j].callbacks
  BY <1>2, <1>3, <1>a, <1>c
<1>6. \A j \in SubIds : c \notin sub[j].callbacks /\ sub[j].callbacks \subseteq Callers
  BY <1>a, <1>b DEF Delivery, CallersCovered, Subscription
<1>7. Live' = Live /\ Live \subseteq SubIds
  BY <1>2, <1>5 DEF Live
<1> HIDE DEF Live
<1>8. ChannelsOwned'
  <2>1. \A ch \in channels : ch.sub \in SubIds
    BY <1>a DEF Channel
  <2> QED
    BY <1>2, <1>5, <1>7, <2>1 DEF Sharing, ChannelsOwned
<1>9. RejoinsNeeded'
  BY <1>2, <1>5, <1>7 DEF Sharing, RejoinsNeeded
<1>10. JoinsOwed'
  BY <1>2, <1>4 DEF Sharing, JoinsOwed
<1>11. OneTopicEach'
  BY <1>2, <1>5, <1>6 DEF Sharing, OneTopicEach
<1>12. JoinedMeansFed'
  <2> SUFFICES ASSUME NEW j \in Live', isConnected', sub'[j].joined
               PROVE  /\ \E ch \in channels' : ch.ref = sub'[j].joinRef /\ ch.up
                      /\ \A d \in sub'[j].callbacks : told'[d] = "ok"
    BY DEF JoinedMeansFed
  <2>1. j \in Live /\ j \in SubIds /\ sub[j].joined
    BY <1>5, <1>7
  <2>2. /\ \E ch \in channels : ch.ref = sub[j].joinRef /\ ch.up
        /\ \A d \in sub[j].callbacks : told[d] = "ok"
    BY <1>4, <2>1 DEF Sharing, JoinedMeansFed
  <2>3. \A d \in Callers : told'[d] = IF d = c THEN outcome ELSE told[d]
    BY <1>2, <1>a
  <2>4. j = i => outcome = "ok"
    BY <2>1
  <2> QED
    BY <1>2, <1>5, <1>6, <2>1, <2>2, <2>3, <2>4
<1> QED
  BY <1>8, <1>9, <1>10, <1>11, <1>12 DEF Sharing

\* A caller whose onSubscribed threw shares a topic that is joined.
LEMMA SharingInterrupted ==
  ASSUME TypeOK, Ownership, Delivery, Sharing,
         NEW c \in Callers, NEW t \in Topics, SubscribeInterrupted(c, t)
  PROVE  Sharing'
<1> DEFINE i == subscriptions[t]
           s == [sub[i] EXCEPT !.callbacks = @ \cup {c}]
<1>a. /\ sub \in [SubIds -> Subscription] /\ subscriptions \in [Topics -> SubIds \cup {NoSub}]
      /\ told \in [Callers -> {"idle", "waiting", "ok", "error"}]
      /\ channels \subseteq Channel
  BY DEF TypeOK, SubscriptionsTypeOK, CallersTypeOK, ServerTypeOK
<1>b. i \in SubIds /\ told[c] = "idle"
  BY <1>a DEF SubscribeInterrupted
<1>2. /\ sub' = [sub EXCEPT ![i] = s]
      /\ told' = [told EXCEPT ![c] = "ok"]
      /\ UNCHANGED <<pendingJoins, channels, subscriptions, subCount>>
      /\ ConnectIfNeeded
  BY DEF SubscribeInterrupted, replyVars, serverVars
<1>3. /\ s.topic = sub[i].topic /\ s.joinRef = sub[i].joinRef /\ s.joined = sub[i].joined
      /\ s.filter = sub[i].filter /\ s.rejoinTimer = sub[i].rejoinTimer
      /\ s.callbacks = sub[i].callbacks \cup {c}
  BY <1>a, <1>b DEF Subscription
<1>4. isConnected' => isConnected
  BY <1>2 DEF ConnectIfNeeded, isConnected
<1> HIDE DEF i, s
<1>5. \A j \in SubIds :
        /\ sub'[j].topic = sub[j].topic /\ sub'[j].joinRef = sub[j].joinRef
        /\ sub'[j].joined = sub[j].joined /\ sub'[j].filter = sub[j].filter
        /\ sub'[j].rejoinTimer = sub[j].rejoinTimer
        /\ sub'[j].callbacks = IF j = i THEN sub[i].callbacks \cup {c} ELSE sub[j].callbacks
  BY <1>2, <1>3, <1>a
<1>6. \A j \in SubIds : c \notin sub[j].callbacks /\ sub[j].callbacks \subseteq Callers
  BY <1>a, <1>b DEF Delivery, CallersCovered, Subscription
<1>7. Live' = Live /\ Live \subseteq SubIds
  BY <1>2, <1>5 DEF Live
<1> HIDE DEF Live
<1>8. ChannelsOwned'
  <2>1. \A ch \in channels : ch.sub \in SubIds
    BY <1>a DEF Channel
  <2> QED
    BY <1>2, <1>5, <1>7, <2>1 DEF Sharing, ChannelsOwned
<1>9. RejoinsNeeded'
  BY <1>2, <1>5, <1>7 DEF Sharing, RejoinsNeeded
<1>10. JoinsOwed'
  BY <1>2, <1>4 DEF Sharing, JoinsOwed
<1>11. OneTopicEach'
  BY <1>2, <1>5, <1>6 DEF Sharing, OneTopicEach
<1>12. JoinedMeansFed'
  <2> SUFFICES ASSUME NEW j \in Live', isConnected', sub'[j].joined
               PROVE  /\ \E ch \in channels' : ch.ref = sub'[j].joinRef /\ ch.up
                      /\ \A d \in sub'[j].callbacks : told'[d] = "ok"
    BY DEF JoinedMeansFed
  <2>1. j \in Live /\ j \in SubIds /\ sub[j].joined
    BY <1>5, <1>7
  <2>2. /\ \E ch \in channels : ch.ref = sub[j].joinRef /\ ch.up
        /\ \A d \in sub[j].callbacks : told[d] = "ok"
    BY <1>4, <2>1 DEF Sharing, JoinedMeansFed
  <2>3. \A d \in Callers : told'[d] = IF d = c THEN "ok" ELSE told[d]
    BY <1>2, <1>a
  <2> QED
    BY <1>2, <1>5, <1>6, <2>1, <2>2, <2>3
<1> QED
  BY <1>8, <1>9, <1>10, <1>11, <1>12 DEF Sharing

\* Leaving a topic leaves its channel.
LEMMA SharingLeave ==
  ASSUME TypeOK, Ownership, Delivery, Sharing,
         NEW i \in Live, NEW H, LeaveTopic(i, [sub[i] EXCEPT !.handlers = H])
  PROVE  Sharing'
<1> DEFINE s == [[sub[i] EXCEPT !.handlers = H] EXCEPT !.rejoinTimer = FALSE]
           ref == sub[i].joinRef
           marked(ch) == IF ch.ref = ref THEN [ch EXCEPT !.left = TRUE] ELSE ch
<1>a. /\ sub \in [SubIds -> Subscription] /\ subscriptions \in [Topics -> SubIds \cup {NoSub}]
      /\ channels \subseteq Channel /\ i \in SubIds
  BY DEF TypeOK, SubscriptionsTypeOK, ServerTypeOK, Live
<1>1. /\ sub' = [sub EXCEPT ![i] = s]
      /\ subscriptions' = [subscriptions EXCEPT ![sub[i].topic] = NoSub]
      /\ UNCHANGED <<subCount, pendingJoins, told, socket>>
  BY Zenon DEF LeaveTopic, callerVars, connVars
<1>2. /\ s.topic = sub[i].topic /\ s.joinRef = ref /\ s.joined = sub[i].joined
      /\ s.filter = sub[i].filter /\ ~s.rejoinTimer /\ s.callbacks = sub[i].callbacks
  BY <1>a DEF Subscription
<1>3. channels' = {marked(ch) : ch \in channels}
  <2>1. CASE isConnected
    <3>1. ref # NoRef
      BY <2>1 DEF Delivery, OpenIsJoined
    <3>2. channels' = MarkLeft(ref)
      BY <2>1, <3>1, Zenon DEF LeaveTopic
    <3> QED
      BY <3>2 DEF MarkLeft
  <2>2. CASE ~isConnected
    <3>1. channels = {} /\ channels' = {}
      BY <2>2 DEF LeaveTopic, serverVars, Ownership, Standing, SocketOwnsWire, isConnected
    <3> QED
      BY <3>1
  <2> QED
    BY <2>1, <2>2
<1>4. \A ch \in channels :
        /\ Like(marked(ch), ch) /\ marked(ch).up = ch.up
        /\ marked(ch).left = (ch.left \/ ch.ref = ref)
  BY <1>a DEF Channel, Like
<1> HIDE DEF s, marked, ref
<1>5. \A j \in SubIds :
        /\ sub'[j].topic = sub[j].topic /\ sub'[j].joinRef = sub[j].joinRef
        /\ sub'[j].joined = sub[j].joined /\ sub'[j].filter = sub[j].filter
        /\ sub'[j].rejoinTimer => sub[j].rejoinTimer /\ j # i
        /\ sub'[j].callbacks = sub[j].callbacks
  BY <1>1, <1>2, <1>a DEF ref
<1>6. subscriptions[sub[i].topic] = i /\ \A j \in SubIds : sub[j].topic \in Topics /\ j # NoSub
  BY <1>a DEF Live, SubIds, NoSub, Subscription
<1>7. \A j \in SubIds : j \in Live' <=> j \in Live /\ j # i
  BY <1>1, <1>5, <1>6, <1>a DEF Live
<1>b. Live \subseteq SubIds /\ Live' \subseteq SubIds
  BY DEF Live
<1> HIDE DEF Live
<1>8. \A ch \in channels' : \E o \in channels :
        /\ Like(ch, o) /\ ch.up = o.up /\ ch.left = (o.left \/ o.ref = ref)
  BY <1>3, <1>4
<1>9. \A o \in channels : \E ch \in channels' : Like(ch, o) /\ ch.up = o.up
  BY <1>3, <1>4
<1>10. ChannelsOwned'
  <2> SUFFICES ASSUME NEW ch \in channels'
               PROVE  /\ ch.topic = sub'[ch.sub].topic /\ ch.sub <= subCount'
                      /\ IF ch.left THEN ch.sub \notin Live'
                         ELSE ch.sub \in Live' /\ ch.ref = sub'[ch.sub].joinRef
    BY DEF ChannelsOwned
  <2>1. PICK o \in channels : Like(ch, o) /\ ch.left = (o.left \/ o.ref = ref)
    BY <1>8
  <2>2. /\ o.topic = sub[o.sub].topic /\ o.sub <= subCount /\ o.sub \in SubIds
        /\ IF o.left THEN o.sub \notin Live ELSE o.sub \in Live /\ o.ref = sub[o.sub].joinRef
    BY <1>a DEF Sharing, ChannelsOwned, Channel
  <2>3. o.ref = ref => o.sub = i
    BY <1>a DEF Delivery, ChannelsMatch, ref
  <2>4. ~o.left /\ o.sub = i => o.ref = ref
    BY <2>2 DEF ref
  <2>5. /\ ch.topic = o.topic /\ ch.sub = o.sub /\ ch.ref = o.ref
        /\ sub'[o.sub].topic = sub[o.sub].topic /\ sub'[o.sub].joinRef = sub[o.sub].joinRef
        /\ o.sub \in Live' <=> o.sub \in Live /\ o.sub # i
        /\ subCount' = subCount
    BY <1>1, <1>5, <1>7, <2>1, <2>2 DEF Like
  <2>6. ch.topic = sub'[ch.sub].topic /\ ch.sub <= subCount'
    BY <2>2, <2>5
  <2>7. CASE ch.left
    BY <2>1, <2>2, <2>3, <2>5, <2>6, <2>7
  <2>8. CASE ~ch.left
    <3>1. ~o.left /\ o.ref # ref
      BY <2>1, <2>8
    <3> QED
      BY <2>2, <2>4, <2>5, <2>6, <2>8, <3>1
  <2> QED
    BY <2>7, <2>8
<1>11. RejoinsNeeded'
  <2> SUFFICES ASSUME NEW j \in SubIds, sub'[j].rejoinTimer
               PROVE  /\ j \in Live' /\ ~sub'[j].joined
                      /\ \A ch \in channels' : ch.ref # sub'[j].joinRef
    BY DEF RejoinsNeeded
  <2>1. /\ j # i /\ j \in Live /\ ~sub[j].joined
        /\ \A ch \in channels : ch.ref # sub[j].joinRef
    BY <1>5 DEF Sharing, RejoinsNeeded
  <2> QED
    BY <1>5, <1>7, <1>8, <2>1 DEF Like
<1>12. JoinsOwed'
  <2> SUFFICES ASSUME isConnected', NEW p \in pendingJoins'
               PROVE  \E ch \in channels' : ch.ref = p.ref /\ ch.sub = p.sub /\ ~ch.up
    BY DEF JoinsOwed
  <2>1. PICK o \in channels : o.ref = p.ref /\ o.sub = p.sub /\ ~o.up
    BY <1>1 DEF Sharing, JoinsOwed, isConnected
  <2> QED
    BY <1>9, <2>1 DEF Like
<1>13. OneTopicEach'
  BY <1>1, <1>5 DEF Sharing, OneTopicEach
<1>14. JoinedMeansFed'
  <2> SUFFICES ASSUME NEW j \in Live', isConnected', sub'[j].joined
               PROVE  /\ \E ch \in channels' : ch.ref = sub'[j].joinRef /\ ch.up
                      /\ \A d \in sub'[j].callbacks : told'[d] = "ok"
    BY DEF JoinedMeansFed
  <2>1. j \in SubIds /\ j \in Live /\ sub[j].joined
    BY <1>5, <1>7, <1>b
  <2>2. PICK o \in channels : o.ref = sub[j].joinRef /\ o.up
    BY <1>1, <2>1 DEF Sharing, JoinedMeansFed, isConnected
  <2>3. \A d \in sub[j].callbacks : told[d] = "ok"
    BY <1>1, <2>1 DEF Sharing, JoinedMeansFed, isConnected
  <2> QED
    BY <1>1, <1>5, <1>9, <2>1, <2>2, <2>3 DEF Like
<1> QED
  BY <1>10, <1>11, <1>12, <1>13, <1>14 DEF Sharing

\* The channel of a live subscription's pending join is the one it joined last,
\* and until that is up the subscription does not count as joined.
LEMMA PendingNotJoined ==
  ASSUME TypeOK, Ownership, Delivery, Sharing,
         NEW ch \in channels, ~ch.up, ch.sub \in Live
  PROVE  isConnected /\ ~ch.left /\ ch.ref = sub[ch.sub].joinRef /\ ~sub[ch.sub].joined
<1>1. isConnected
  BY DEF Ownership, Standing, SocketOwnsWire, isConnected
<1>2. ~ch.left /\ ch.ref = sub[ch.sub].joinRef
  BY DEF Sharing, ChannelsOwned
<1>3. ~sub[ch.sub].joined
  BY <1>1, <1>2 DEF Sharing, JoinedMeansFed, Delivery, RefsUnique
<1> QED
  BY <1>1, <1>2, <1>3

\* A loop over callbacks that nothing escapes from reaches them all.
LEMMA AllReached ==
  ASSUME ~safeInvokeThrows, NEW callers
  PROVE  Reached(callers) = {callers}
BY DEF Reached

\* The server answers a join: its subscription is fed and its callers are told,
\* or it is not and they are told that.
LEMMA SharingReply ==
  ASSUME ~safeInvokeThrows, TypeOK, Ownership, Delivery, Sharing,
         NEW ch \in channels, NEW status \in JoinStatuses, JoinReply(ch, status)
  PROVE  Sharing'
<1> DEFINE i == ch.sub
           waiting == {p \in pendingJoins : p.ref = ch.ref}
           answered == [ch EXCEPT !.up = TRUE]
           outcome == JoinOutcome(i, status)
<1>a. /\ sub \in [SubIds -> Subscription] /\ channels \subseteq Channel /\ i \in SubIds
      /\ told \in [Callers -> {"idle", "waiting", "ok", "error"}]
      /\ status \in {"ok", "error"}
  BY ChoicesAssumption
     DEF TypeOK, SubscriptionsTypeOK, CallersTypeOK, ServerTypeOK, Channel
<1>b. ~ch.up
  BY DEF JoinReply
<1>1. /\ channels' = (channels \ {ch}) \cup (IF status = "ok" THEN {answered} ELSE {})
      /\ pendingJoins' = pendingJoins \ waiting
      /\ UNCHANGED <<subscriptions, subCount, socket>>
  BY Zenon DEF JoinReply, Proven
<1>2. \/ UNCHANGED <<sub, told>>
      \/ /\ told' = [c \in Callers |-> IF c \in sub[i].callbacks THEN status ELSE told[c]]
         /\ sub' = [sub EXCEPT ![i] = outcome]
  <2>1. \/ UNCHANGED <<sub, told>>
        \/ /\ \E called \in Reached(sub[i].callbacks) : Tell(called, status)
           /\ sub' = [sub EXCEPT ![i] = outcome]
    BY Zenon DEF JoinReply
  <2> QED
    BY <2>1, AllReached DEF Tell
<1>3. Like(answered, ch) /\ answered.up /\ answered.left = ch.left
  BY <1>a DEF Channel, Like
<1>4. /\ outcome.topic = sub[i].topic /\ outcome.joinRef = sub[i].joinRef
      /\ outcome.filter = sub[i].filter /\ outcome.rejoinTimer = sub[i].rejoinTimer
      /\ outcome.callbacks = sub[i].callbacks
      /\ outcome.joined = (sub[i].joined \/ status = "ok")
  BY <1>a DEF JoinOutcome, Subscription
<1> HIDE DEF answered, outcome, waiting
<1>5. \A j \in SubIds :
        /\ sub'[j].topic = sub[j].topic /\ sub'[j].joinRef = sub[j].joinRef
        /\ sub'[j].filter = sub[j].filter /\ sub'[j].rejoinTimer = sub[j].rejoinTimer
        /\ sub'[j].callbacks = sub[j].callbacks
        /\ j # i => sub'[j].joined = sub[j].joined
        /\ sub'[j].joined => sub[j].joined \/ status = "ok"
  BY <1>2, <1>4, <1>a
<1>6. Live' = Live /\ Live \subseteq SubIds
  BY <1>1, <1>5 DEF Live
<1> HIDE DEF Live
<1>7. \A o \in channels' : \E q \in channels : Like(o, q) /\ o.left = q.left
  BY <1>1, <1>3 DEF Like
<1>8. \A q \in channels : q # ch => q \in channels'
  BY <1>1
<1>9. ChannelsOwned'
  <2> SUFFICES ASSUME NEW o \in channels'
               PROVE  /\ o.topic = sub'[o.sub].topic /\ o.sub <= subCount'
                      /\ IF o.left THEN o.sub \notin Live'
                         ELSE o.sub \in Live' /\ o.ref = sub'[o.sub].joinRef
    BY DEF ChannelsOwned
  <2>1. PICK q \in channels : Like(o, q) /\ o.left = q.left
    BY <1>7
  <2>2. /\ q.topic = sub[q.sub].topic /\ q.sub <= subCount /\ q.sub \in SubIds
        /\ IF q.left THEN q.sub \notin Live ELSE q.sub \in Live /\ q.ref = sub[q.sub].joinRef
    BY <1>a DEF Sharing, ChannelsOwned, Channel
  <2>3. /\ sub'[q.sub].topic = sub[q.sub].topic /\ sub'[q.sub].joinRef = sub[q.sub].joinRef
        /\ o.topic = q.topic /\ o.sub = q.sub /\ o.ref = q.ref
    BY <1>5, <2>1, <2>2 DEF Like
  <2> QED
    BY <1>1, <1>6, <2>1, <2>2, <2>3
<1>10. RejoinsNeeded'
  <2> SUFFICES ASSUME NEW j \in SubIds, sub'[j].rejoinTimer
               PROVE  /\ j \in Live' /\ ~sub'[j].joined
                      /\ \A o \in channels' : o.ref # sub'[j].joinRef
    BY DEF RejoinsNeeded
  <2>1. /\ j \in Live /\ ~sub[j].joined
        /\ \A q \in channels : q.ref # sub[j].joinRef
    BY <1>5 DEF Sharing, RejoinsNeeded
  <2>2. j # i
    BY <1>b, <2>1, PendingNotJoined
  <2> QED
    BY <1>5, <1>6, <1>7, <2>1, <2>2 DEF Like
<1>11. JoinsOwed'
  <2> SUFFICES ASSUME isConnected', NEW p \in pendingJoins'
               PROVE  \E o \in channels' : o.ref = p.ref /\ o.sub = p.sub /\ ~o.up
    BY DEF JoinsOwed
  <2>1. p \in pendingJoins /\ p.ref # ch.ref
    BY <1>1 DEF waiting
  <2>2. PICK q \in channels : q.ref = p.ref /\ q.sub = p.sub /\ ~q.up
    BY <1>1, <2>1 DEF Sharing, JoinsOwed, isConnected
  <2> QED
    BY <1>8, <2>1, <2>2
<1>12. OneTopicEach'
  BY <1>1, <1>5 DEF Sharing, OneTopicEach
<1>13. JoinedMeansFed'
  <2> SUFFICES ASSUME NEW j \in Live', isConnected', sub'[j].joined
               PROVE  /\ \E o \in channels' : o.ref = sub'[j].joinRef /\ o.up
                      /\ \A c \in sub'[j].callbacks : told'[c] = "ok"
    BY DEF JoinedMeansFed
  <2>a. j \in Live /\ j \in SubIds /\ sub[j].callbacks \subseteq Callers
    BY <1>6, <1>a DEF Subscription
  <2>1. CASE j = i
    <3>1. ~sub[i].joined /\ ch.ref = sub[i].joinRef
      BY <1>b, <2>a, <2>1, PendingNotJoined
    <3>2. status = "ok" /\ ~UNCHANGED sub
      BY <1>5, <2>a, <2>1, <3>1
    <3>3. answered \in channels'
      BY <1>1, <3>2
    <3>4. \A c \in Callers : told'[c] = IF c \in sub[i].callbacks THEN "ok" ELSE told[c]
      BY <1>2, <3>2
    <3> QED
      BY <1>3, <1>5, <2>a, <2>1, <3>1, <3>3, <3>4 DEF Like
  <2>2. CASE j # i
    <3>1. sub[j].joined
      BY <1>5, <2>a, <2>2
    <3>2. /\ \E q \in channels : q.ref = sub[j].joinRef /\ q.up
          /\ \A c \in sub[j].callbacks : told[c] = "ok"
      BY <1>1, <2>a, <3>1 DEF Sharing, JoinedMeansFed, isConnected
    <3>3. \A c \in sub[j].callbacks : c \notin sub[i].callbacks
      BY <1>a, <2>a, <2>2 DEF Sharing, OneTopicEach
    <3>4. \A c \in sub[j].callbacks : told'[c] = told[c]
      BY <1>2, <2>a, <3>3
    <3> QED
      BY <1>5, <1>8, <1>b, <2>a, <3>2, <3>4
  <2> QED
    BY <2>1, <2>2
<1> QED
  BY <1>9, <1>10, <1>11, <1>12, <1>13 DEF Sharing

\* A join that timed out was not answered, so nobody counted on it.
LEMMA SharingTimeout ==
  ASSUME ~safeInvokeThrows, TypeOK, Ownership, Delivery, Sharing, NEW p \in pendingJoins, JoinTimeout(p)
  PROVE  Sharing'
<1>a. /\ sub \in [SubIds -> Subscription] /\ p.sub \in SubIds
      /\ channels \subseteq Channel
  BY DEF TypeOK, SubscriptionsTypeOK, RepliesTypeOK, ServerTypeOK, PendingReply
<1>1. /\ pendingJoins' = pendingJoins \ {p}
      /\ told' = [c \in Callers |-> IF c \in sub[p.sub].callbacks THEN "error" ELSE told[c]]
      /\ UNCHANGED <<subscriptions, sub, subCount, channels, socket>>
  <2>1. /\ pendingJoins' = pendingJoins \ {p}
        /\ \E called \in Reached(sub[p.sub].callbacks) : Tell(called, "error")
        /\ UNCHANGED <<subscriptions, sub, subCount, channels, socket>>
    BY Zenon DEF JoinTimeout, subVars, serverVars, connVars
  <2> QED
    BY <2>1, AllReached DEF Tell
<1>2. Live' = Live /\ Live \subseteq SubIds
  BY <1>1 DEF Live
<1> HIDE DEF Live
<1>3. ChannelsOwned' /\ RejoinsNeeded' /\ OneTopicEach'
  BY <1>1, <1>2 DEF Sharing, ChannelsOwned, RejoinsNeeded, OneTopicEach
<1>4. JoinsOwed'
  BY <1>1 DEF Sharing, JoinsOwed, isConnected
<1>5. JoinedMeansFed'
  <2> SUFFICES ASSUME NEW j \in Live, isConnected, sub[j].joined
               PROVE  /\ \E o \in channels : o.ref = sub[j].joinRef /\ o.up
                      /\ \A c \in sub[j].callbacks : told'[c] = "ok"
    BY <1>1, <1>2 DEF JoinedMeansFed, isConnected
  <2>1. /\ \E o \in channels : o.ref = sub[j].joinRef /\ o.up
        /\ \A c \in sub[j].callbacks : told[c] = "ok"
    BY DEF Sharing, JoinedMeansFed
  <2>2. PICK ch \in channels : ch.sub = p.sub /\ ~ch.up
    BY DEF Sharing, JoinsOwed
  <2>3. j # p.sub
    BY <2>2, PendingNotJoined
  <2>4. \A c \in sub[j].callbacks : c \notin sub[p.sub].callbacks /\ c \in Callers
    BY <1>a, <1>2, <2>3 DEF Sharing, OneTopicEach, Subscription
  <2> QED
    BY <1>1, <2>1, <2>4
<1> QED
  BY <1>3, <1>4, <1>5 DEF Sharing

\* A channel that dies leaves no live subscription joined on it, and only the
\* live subscription it belonged to may be due to rejoin.
LEMMA SharingDead ==
  ASSUME TypeOK, Ownership, Delivery, Sharing, NEW ch \in channels, ch.up,
         channels' = channels \ {ch},
         UNCHANGED <<subscriptions, subCount, pendingJoins, told, socket>>,
         \A j \in SubIds :
           /\ sub'[j].topic = sub[j].topic /\ sub'[j].joinRef = sub[j].joinRef
           /\ sub'[j].filter = sub[j].filter /\ sub'[j].callbacks = sub[j].callbacks
           /\ sub'[j].joined => sub[j].joined /\ (j \in Live => sub[j].joinRef # ch.ref)
           /\ sub'[j].rejoinTimer =>
                \/ sub[j].rejoinTimer
                \/ j \in Live /\ ~sub'[j].joined /\ sub[j].joinRef = ch.ref
  PROVE  Sharing'
<1>a. \A o \in channels : o.sub \in SubIds
  BY DEF TypeOK, ServerTypeOK, Channel
<1>1. Live' = Live /\ Live \subseteq SubIds
  BY DEF Live
<1> HIDE DEF Live
<1>2. ChannelsOwned'
  BY <1>a, <1>1 DEF Sharing, ChannelsOwned
<1>3. RejoinsNeeded'
  BY <1>1 DEF Sharing, RejoinsNeeded, Delivery, RefsUnique
<1>4. JoinsOwed'
  BY DEF Sharing, JoinsOwed, isConnected
<1>5. OneTopicEach'
  BY DEF Sharing, OneTopicEach
<1>6. JoinedMeansFed'
  <2> SUFFICES ASSUME NEW j \in Live, isConnected, sub'[j].joined
               PROVE  /\ \E o \in channels' : o.ref = sub'[j].joinRef /\ o.up
                      /\ \A c \in sub'[j].callbacks : told'[c] = "ok"
    BY <1>1 DEF JoinedMeansFed, isConnected
  <2>1. j \in SubIds /\ sub[j].joined /\ sub[j].joinRef # ch.ref
    BY <1>1
  <2>2. /\ \E o \in channels : o.ref = sub[j].joinRef /\ o.up
        /\ \A c \in sub[j].callbacks : told[c] = "ok"
    BY <2>1 DEF Sharing, JoinedMeansFed
  <2> QED
    BY <2>1, <2>2
<1> QED
  BY <1>2, <1>3, <1>4, <1>5, <1>6 DEF Sharing

LEMMA SharingChannelDown ==
  ASSUME TypeOK, Ownership, Delivery, Sharing, NEW ch \in channels,
         \/ ChannelDownIgnored(ch)
         \/ \E reaction : reaction # "disconnect" /\ ChannelDown(ch, reaction)
  PROVE  Sharing'
<1>a. /\ sub \in [SubIds -> Subscription] /\ channels \subseteq Channel
      /\ subscriptions \in [Topics -> SubIds \cup {NoSub}] /\ isConnected
  BY DEF TypeOK, SubscriptionsTypeOK, ServerTypeOK, Ownership, Standing, SocketOwnsWire, isConnected
<1>1. CASE ChannelDownIgnored(ch)
  <2>1. /\ ch.up /\ channels' = channels \ {ch}
        /\ UNCHANGED <<subscriptions, sub, subCount, pendingJoins, told, socket>>
    BY <1>1, Zenon DEF ChannelDownIgnored, ChannelEnds, subVars, replyVars, callerVars, connVars
  <2>2. ASSUME NEW j \in Live, sub[j].joinRef = ch.ref
        PROVE  FALSE
    <3>1. ch.sub = j /\ j \in SubIds /\ j # NoSub
      BY <2>2 DEF Delivery, ChannelsMatch, Live, SubIds, NoSub
    <3>2. subscriptions[ch.topic] = j
      BY <3>1 DEF Sharing, ChannelsOwned, Live
    <3> QED
      BY <1>1, <2>2, <3>1, <3>2 DEF ChannelDownIgnored, Stale
  <2> QED
    BY <2>1, <2>2, SharingDead
<1>2. ASSUME NEW reaction, reaction # "disconnect", ChannelDown(ch, reaction)
      PROVE  Sharing'
  <2> DEFINE i == subscriptions[ch.topic]
             down == [sub[i] EXCEPT !.joined = FALSE]
  <2>1. i \in SubIds /\ i # NoSub
    BY <1>a, <1>2 DEF ChannelDown, Channel
  <2>2. sub[i].topic = ch.topic /\ i \in Live
    BY <1>a, <2>1 DEF Ownership, Standing, MapConsistent, Channel, Live
  <2>3. sub[i].joinRef = ch.ref
    BY <1>a, <1>2, <2>1, <2>2 DEF ChannelDown, Stale, Delivery, ChannelsMatch, OpenIsJoined
  <2>4. /\ ch.up /\ channels' = channels \ {ch}
        /\ UNCHANGED <<subscriptions, subCount, pendingJoins, told, socket>>
        /\ sub' = [sub EXCEPT ![i] = down] \/ sub' = [sub EXCEPT ![i] = scheduleRejoin(down)]
    BY <1>2, Zenon DEF ChannelDown, ChannelEnds, replyVars, callerVars, connVars
  <2>5. /\ ~down.joined /\ ~scheduleRejoin(down).joined
        /\ down.topic = sub[i].topic /\ scheduleRejoin(down).topic = sub[i].topic
        /\ down.joinRef = sub[i].joinRef /\ scheduleRejoin(down).joinRef = sub[i].joinRef
        /\ down.filter = sub[i].filter /\ scheduleRejoin(down).filter = sub[i].filter
        /\ down.callbacks = sub[i].callbacks /\ scheduleRejoin(down).callbacks = sub[i].callbacks
    BY <1>a, <2>1 DEF scheduleRejoin, Subscription
  <2> HIDE DEF down, i
  <2>6. /\ ~sub'[i].joined /\ sub'[i].topic = sub[i].topic
        /\ sub'[i].joinRef = sub[i].joinRef /\ sub'[i].filter = sub[i].filter
        /\ sub'[i].callbacks = sub[i].callbacks
        /\ \A j \in SubIds \ {i} : sub'[j] = sub[j]
    BY <1>a, <2>1, <2>4, <2>5
  <2>7. ASSUME NEW j \in SubIds \ {i}
        PROVE  sub[j].joinRef # ch.ref
    BY <2>1, <2>3 DEF Delivery, ChannelsMatch
  <2>8. ASSUME NEW j \in SubIds
        PROVE  /\ sub'[j].topic = sub[j].topic /\ sub'[j].joinRef = sub[j].joinRef
               /\ sub'[j].filter = sub[j].filter /\ sub'[j].callbacks = sub[j].callbacks
               /\ sub'[j].joined => sub[j].joined /\ (j \in Live => sub[j].joinRef # ch.ref)
               /\ sub'[j].rejoinTimer =>
                    \/ sub[j].rejoinTimer
                    \/ j \in Live /\ ~sub'[j].joined /\ sub[j].joinRef = ch.ref
    BY <2>2, <2>3, <2>6, <2>7
  <2> QED
    BY <2>4, <2>8, SharingDead
<1> QED
  BY <1>1, <1>2

\* The topic is left, or only a handler goes.
LEMMA SharingRemove ==
  ASSUME TypeOK, Ownership, Delivery, Sharing,
         NEW c \in Callers, NEW i \in SubIds, RemoveHandler(c, i)
  PROVE  Sharing'
<1> DEFINE H == sub[i].handlers \ {c}
           s == [sub[i] EXCEPT !.handlers = H]
<1>1. CASE LeaveTopic(i, s)
  <2>1. i \in Live
    BY DEF RemoveHandler
  <2> QED
    BY <1>1, <2>1, SharingLeave
<1>2. CASE ~LeaveTopic(i, s)
  <2>1. /\ sub' = [sub EXCEPT ![i] = s]
        /\ UNCHANGED <<subscriptions, subCount, pendingJoins, told, channels, socket>>
    BY <1>2, Zenon DEF RemoveHandler, replyVars, callerVars, serverVars, connVars
  <2>2. sub \in [SubIds -> Subscription]
    BY DEF TypeOK, SubscriptionsTypeOK
  <2>3. Same(s, sub[i]) /\ \A j \in SubIds : Same(sub[j], sub[j])
    BY <2>2 DEF Same, Subscription
  <2> HIDE DEF s
  <2>4. \A j \in SubIds : Same(sub'[j], sub[j])
    BY <2>1, <2>2, <2>3
  <2> QED
    BY <2>1, <2>4, SharingQuiet DEF isConnected
<1> QED
  BY <1>1, <1>2

LEMMA SharingStep ==
  ASSUME Requests \subseteq {Events}, "disconnect" \notin ErrorReactions,
         ~safeInvokeThrows, TypeOK, Ownership, Delivery, Sharing, [Contained]_vars
  PROVE  Sharing'
<1>a. sub \in [SubIds -> Subscription] /\ MapConsistent
      /\ subscriptions \in [Topics -> SubIds \cup {NoSub}]
  BY DEF TypeOK, SubscriptionsTypeOK, Ownership, Standing
<1>b. \A i \in SubIds : sub[i].rejoinTimer => i \in Live /\ ~sub[i].joined
  BY DEF Sharing, RejoinsNeeded
<1>1. ASSUME UNCHANGED <<subVars, pendingJoins, told, channels>>, isConnected' => isConnected
      PROVE  Sharing'
  BY <1>1, SharingQuiet DEF subVars, Same
<1>2. ASSUME \/ LoseSocket
             \/ channels' = {} /\ socket' = "closing",
             UNCHANGED subVars
      PROVE  Sharing'
  <2>1. Live' = Live
    BY <1>2 DEF Live, subVars
  <2> QED
    BY <1>2, <1>b, <2>1, SharingDown DEF LoseSocket, subVars
<1>3. ASSUME ConnectIfNeeded
      PROVE  isConnected' => isConnected
  BY <1>3 DEF ConnectIfNeeded, isConnected
<1>4. ASSUME Disconnect
      PROVE  Sharing'
  <2>1. /\ channels' = {} /\ socket' = "none" /\ UNCHANGED subCount
        /\ sub' = WithoutRejoinTimers
    BY <1>4 DEF Disconnect, DropEverything, LoseSocket
  <2>2. ASSUME NEW i \in SubIds
        PROVE  /\ sub'[i].callbacks = sub[i].callbacks /\ sub'[i].filter = sub[i].filter
               /\ ~sub'[i].rejoinTimer
    BY <1>a, <1>b, <2>1 DEF WithoutRejoinTimers, Subscription
  <2> QED
    BY <2>1, <2>2, SharingDown
<1>5. ASSUME Connect \/ ReconnectTimeout
      PROVE  Sharing'
  BY <1>1, <1>3, <1>5, Zenon DEF Connect, ReconnectTimeout, replyVars, callerVars, serverVars
<1>6. ASSUME SendHeartbeat \/ HeartbeatReply \/ UNCHANGED vars
      PROVE  Sharing'
  <2>1. UNCHANGED <<subVars, pendingJoins, told, channels, socket>>
    BY <1>6, Zenon
       DEF SendHeartbeat, HeartbeatReply, Proven, vars, replyVars, callerVars, serverVars, connVars
  <2> QED
    BY <1>1, <2>1 DEF isConnected
<1>7. ASSUME SocketDrop \/ HandleClose
      PROVE  Sharing'
  <2>1. CASE SocketDrop
    <3>1. channels' = {} /\ socket' = "closing" /\ UNCHANGED subVars
      BY <2>1 DEF SocketDrop
    <3> QED
      BY <1>2, <3>1, Zenon
  <2>2. CASE HandleClose
    <3>1. LoseSocket /\ UNCHANGED subVars
      BY <2>2, Zenon DEF HandleClose
    <3> QED
      BY <1>2, <3>1, Zenon
  <2> QED
    BY <1>7, <2>1, <2>2
<1>8. ASSUME NEW reaction \in ErrorReactions, HeartbeatTimeout(reaction)
      PROVE  Sharing'
  <2>1. CASE reaction = "return"
    <3>1. LoseSocket /\ UNCHANGED subVars
      BY <1>8, <2>1, Zenon DEF HeartbeatTimeout
    <3> QED
      BY <1>2, <3>1, Zenon
  <2>2. CASE reaction = "throw"
    <3>1. UNCHANGED <<subVars, pendingJoins, told, channels, socket>>
      BY <1>8, <2>2 DEF HeartbeatTimeout, replyVars, callerVars, serverVars, connVars
    <3> QED
      BY <1>1, <3>1 DEF isConnected
  <2> QED
    BY <1>8, <2>1, <2>2 DEF HeartbeatTimeout
<1>9. ASSUME NEW t \in Topics, Unsubscribe(t)
      PROVE  Sharing'
  <2> DEFINE i == subscriptions[t]
  <2>1. i \in Live
    BY <1>a, <1>9 DEF Unsubscribe, MapConsistent, Live
  <2>2. sub[i] = [sub[i] EXCEPT !.handlers = sub[i].handlers]
    BY <1>a, <2>1 DEF Live, Subscription
  <2>3. LeaveTopic(i, [sub[i] EXCEPT !.handlers = sub[i].handlers])
    BY <1>9, <2>2 DEF Unsubscribe
  <2> QED
    BY <2>1, <2>3, SharingLeave
<1>10. ASSUME NEW l, LeaveReply(l) \/ LeaveTimeout(l)
       PROVE  Sharing'
  <2>1. UNCHANGED <<subVars, pendingJoins, told, channels, socket>>
    BY <1>10, Zenon DEF LeaveReply, LeaveTimeout, Proven, callerVars, serverVars, connVars
  <2> QED
    BY <1>1, <2>1 DEF isConnected
<1>11. ASSUME NEW ch, NEW e, NEW r, Dispatch(ch, e, r)
       PROVE  Sharing'
  <2>1. UNCHANGED <<subVars, pendingJoins, told, channels, socket>>
    BY <1>11, Zenon DEF Dispatch, replyVars, serverVars, connVars
  <2> QED
    BY <1>1, <2>1 DEF isConnected
<1>12. ASSUME NEW ch \in channels, NEW reaction \in ErrorReactions, ChannelDown(ch, reaction)
       PROVE  Sharing'
  BY <1>12, SharingChannelDown
<1>13. ASSUME Consumer
       PROVE  Sharing'
  BY <1>4, <1>5, <1>9, <1>13, SharingNew, SharingShared, SharingInterrupted,
     SharingRemove, Zenon DEF Consumer
<1>14. ASSUME Timers
       PROVE  Sharing'
  BY <1>5, <1>6, <1>8, <1>10, <1>14, SharingRejoin, SharingTimeout, Zenon DEF Timers
<1>15. ASSUME SocketEvents
       PROVE  Sharing'
  BY <1>7, <1>15, SharingOpen, Zenon DEF SocketEvents
<1>16. ASSUME Server
       PROVE  Sharing'
  BY <1>6, <1>10, <1>11, <1>12, <1>16, SharingReply, SharingChannelDown, Zenon DEF Server
<1> QED
  BY <1>6, <1>13, <1>14, <1>15, <1>16, Zenon DEF Contained

\* Sharing is an invariant where no caller names event types, no error handler
\* disconnects and no exception ends a loop over callbacks; without the first two
\* a rejoin timer outlives what it was armed for, and the topic is joined twice,
\* and without the last a caller is never told.
THEOREM SharingInvariant ==
  ASSUME Requests \subseteq {Events}, "disconnect" \notin ErrorReactions, ~safeInvokeThrows
  PROVE  Spec => []Sharing
<1>1. Init => Sharing
  <2> SUFFICES ASSUME Init PROVE Sharing
    OBVIOUS
  <2>1. Unused.callbacks = {} /\ ~Unused.rejoinTimer
    BY DEF Unused
  <2>2. \A i \in SubIds : sub[i] = Unused /\ ~(i <= subCount)
    BY DEF Init, SubIds
  <2>3. ChannelsOwned /\ JoinsOwed /\ JoinedMeansFed
    BY DEF Init, ChannelsOwned, JoinsOwed, JoinedMeansFed, isConnected
  <2> QED
    BY <2>1, <2>2, <2>3 DEF Sharing, RejoinsNeeded, OneTopicEach
<1>2. TypeOK /\ Ownership /\ Delivery /\ Sharing /\ [Next]_vars => Sharing'
  BY SharingStep, ContainedSteps
<1> QED
  BY <1>1, <1>2, TypeCorrect, OwnershipInvariant, DeliveryInvariant, PTL DEF Spec

\* Of the joins of a topic that the server holds, the client has left all but
\* one (phoenix.ts:88), under the assumptions of SharingInvariant.
THEOREM JoinedOnceHolds ==
  ASSUME Requests \subseteq {Events}, "disconnect" \notin ErrorReactions, ~safeInvokeThrows
  PROVE  Spec => []JoinedOnce
<1>1. Delivery /\ Sharing => JoinedOnce
  <2> SUFFICES ASSUME RefsUnique, ChannelsOwned, NEW ch \in channels, NEW other \in channels,
                      ch.topic = other.topic, ~ch.left, ~other.left
               PROVE  ch = other
    BY DEF Delivery, Sharing, JoinedOnce
  <2>1. /\ ch.sub \in Live /\ ch.topic = sub[ch.sub].topic /\ ch.ref = sub[ch.sub].joinRef
        /\ other.sub \in Live /\ other.topic = sub[other.sub].topic
        /\ other.ref = sub[other.sub].joinRef
    BY DEF ChannelsOwned
  <2>2. ch.sub = other.sub
    BY <2>1 DEF Live
  <2> QED
    BY <2>1, <2>2 DEF RefsUnique
<1> QED
  BY <1>1, DeliveryInvariant, SharingInvariant, PTL

\* A topic that counts as joined on an open socket is one the server feeds, and
\* its callers were told so (phoenix.ts:419-437), under the same assumptions.
THEOREM JoinedMeansFedHolds ==
  ASSUME Requests \subseteq {Events}, "disconnect" \notin ErrorReactions, ~safeInvokeThrows
  PROVE  Spec => []JoinedMeansFed
<1>1. Sharing => JoinedMeansFed
  BY DEF Sharing
<1> QED
  BY <1>1, SharingInvariant, PTL

\* Off the air nothing becomes joined and no join is sent.
Settles == /\ pendingJoins' \subseteq pendingJoins
           /\ \A i \in Live' : sub'[i].joined => i \in Live /\ sub[i].joined

\* While the socket is not open, no reply stays outstanding for a subscription that
\* has become joined.
LEMMA SettledOffline ==
  ASSUME TypeOK, Ownership, [Contained]_vars, ~isConnected'
  PROVE  pendingJoins' = {} \/ Settles
<1>a. sub \in [SubIds -> Subscription] /\ MapConsistent
      /\ subscriptions \in [Topics -> SubIds \cup {NoSub}]
  BY DEF TypeOK, SubscriptionsTypeOK, Ownership, Standing
<1>b. NoSub \notin SubIds
  BY DEF NoSub, SubIds
<1>c. ASSUME isConnected, UNCHANGED socket
      PROVE  FALSE
  BY <1>c DEF isConnected
<1>d. channels # {} \/ leaves # {} => isConnected
  BY DEF Ownership, Standing, SocketOwnsWire, isConnected
<1>e. ConnectIfNeeded => ~isConnected
  BY DEF ConnectIfNeeded, isConnected
<1>1. ASSUME UNCHANGED <<subVars, pendingJoins>>
      PROVE  Settles
  BY <1>1 DEF Settles, Live, subVars
<1>2. ASSUME clearPendingReplies
      PROVE  pendingJoins' = {}
  BY <1>2 DEF clearPendingReplies
<1>3. ASSUME Connect \/ ReconnectTimeout \/ SocketDrop \/ SendHeartbeat \/ UNCHANGED vars
      PROVE  Settles
  BY <1>1, <1>3, Zenon DEF Connect, ReconnectTimeout, SocketDrop, SendHeartbeat, vars, replyVars
<1>4. ASSUME Disconnect \/ HandleClose
      PROVE  pendingJoins' = {}
  BY <1>2, <1>4, Zenon DEF Disconnect, DropEverything, HandleClose
<1>5. ASSUME NEW reaction, HeartbeatTimeout(reaction)
      PROVE  pendingJoins' = {} \/ Settles
  BY <1>1, <1>2, <1>5, Zenon DEF HeartbeatTimeout, DropEverything, replyVars
<1>6. ~HandleOpen
  BY DEF HandleOpen, isConnected
<1>7. ASSUME NEW ch \in channels
      PROVE  /\ \A status : ~JoinReply(ch, status)
             /\ ~ChannelDownIgnored(ch)
             /\ \A e, r : ~Dispatch(ch, e, r)
             /\ \A reaction : ChannelDown(ch, reaction) => pendingJoins' = {}
  <2>1. isConnected /\ socket' # socket
    BY <1>c, <1>d, <1>7
  <2>2. ~UNCHANGED connVars /\ ~Proven
    BY <2>1 DEF connVars, Proven
  <2> QED
    BY <1>2, <2>2, Zenon DEF JoinReply, ChannelDownIgnored, Dispatch, ChannelDown, DropEverything
<1>8. ASSUME NEW l \in leaves
      PROVE  ~LeaveReply(l)
  <2>1. isConnected /\ socket' # socket
    BY <1>c, <1>d, <1>8
  <2> QED
    BY <2>1 DEF LeaveReply, Proven
<1>9. ~HeartbeatReply
  BY DEF HeartbeatReply, Proven, isConnected
<1>10. ASSUME NEW p, JoinTimeout(p) \/ LeaveTimeout(p)
       PROVE  Settles
  <2>1. UNCHANGED subVars /\ pendingJoins' \subseteq pendingJoins
    BY <1>10 DEF JoinTimeout, LeaveTimeout
  <2> QED
    BY <2>1 DEF Settles, Live, subVars
<1>11. ASSUME NEW c, NEW t \in Topics, NEW w, SubscribeNew(c, t, w)
       PROVE  Settles
  <2> DEFINE k == subCount + 1
  <2>1. UNCHANGED pendingJoins
    BY <1>e, <1>11 DEF SubscribeNew
  <2>2. /\ subscriptions' = [subscriptions EXCEPT ![t] = k]
        /\ \E x : x.joined = FALSE /\ x.topic = t /\ sub' = [sub EXCEPT ![k] = x]
    BY <1>11 DEF SubscribeNew
  <2> HIDE DEF k
  <2>3. ASSUME NEW i \in SubIds, i \in Live', sub'[i].joined
        PROVE  i \in Live /\ sub[i].joined
    <3>1. i # k
      BY <1>a, <2>2, <2>3
    <3>2. sub'[i] = sub[i] /\ subscriptions'[sub[i].topic] = i
      BY <1>a, <2>2, <2>3, <3>1 DEF Live
    <3>3. subscriptions[sub[i].topic] = i
      BY <1>a, <2>2, <3>1, <3>2 DEF Subscription
    <3> QED
      BY <2>3, <3>2, <3>3 DEF Live
  <2> QED
    BY <2>1, <2>3 DEF Settles, Live
<1>12. ASSUME NEW c, NEW t \in Topics, NEW w, SubscribeShared(c, t, w)
       PROVE  Settles
  <2> DEFINE k == subscriptions[t]
  <2>1. ~isConnected
    BY <1>e, <1>12 DEF SubscribeShared
  <2>2. UNCHANGED <<pendingJoins, subscriptions>>
    BY <1>12, <2>1 DEF SubscribeShared, WidensOnline
  <2>3. /\ k \in SubIds
        /\ sub' = [sub EXCEPT ![k] = [sub[k] EXCEPT !.callbacks = @ \cup {c}, !.handlers = @ \cup {c},
                                                    !.filter = sub[k].filter \cup w]]
    BY <1>a, <1>12, <2>1 DEF SubscribeShared, WidensOnline
  <2> HIDE DEF k
  <2>4. \A i \in SubIds : sub'[i].joined = sub[i].joined /\ sub'[i].topic = sub[i].topic
    BY <1>a, <2>3 DEF Subscription
  <2> QED
    BY <2>2, <2>4 DEF Settles, Live
<1>i. ASSUME NEW c \in Callers, NEW t \in Topics, SubscribeInterrupted(c, t)
      PROVE  Settles
  <2> DEFINE k == subscriptions[t]
  <2>2. UNCHANGED <<pendingJoins, subscriptions>>
    BY <1>i DEF SubscribeInterrupted, replyVars
  <2>3. k \in SubIds /\ sub' = [sub EXCEPT ![k] = [sub[k] EXCEPT !.callbacks = @ \cup {c}]]
    BY <1>a, <1>i DEF SubscribeInterrupted
  <2> HIDE DEF k
  <2>4. \A i \in SubIds : sub'[i].joined = sub[i].joined /\ sub'[i].topic = sub[i].topic
    BY <1>a, <2>3 DEF Subscription
  <2> QED
    BY <2>2, <2>4 DEF Settles, Live
<1>13. ASSUME NEW i \in Live, NEW s, s.joined = sub[i].joined, s.topic = sub[i].topic,
              DOMAIN s = DOMAIN sub[i], LeaveTopic(i, s)
       PROVE  Settles
  <2>1. /\ UNCHANGED pendingJoins /\ subscriptions' = [subscriptions EXCEPT ![sub[i].topic] = NoSub]
        /\ sub' = [sub EXCEPT ![i] = [s EXCEPT !.rejoinTimer = FALSE]]
    BY <1>13 DEF LeaveTopic
  <2>2. \A j \in SubIds : sub'[j].joined = sub[j].joined /\ sub'[j].topic = sub[j].topic
    BY <1>a, <1>13, <2>1 DEF Subscription
  <2>3. \A j \in SubIds : sub[j].topic \in Topics
    BY <1>a DEF Subscription
  <2>4. Live' \subseteq Live
    BY <1>a, <1>b, <2>1, <2>2, <2>3 DEF Live
  <2> QED
    BY <2>1, <2>2, <2>4 DEF Settles, Live
<1>14. ASSUME NEW t \in Topics, Unsubscribe(t)
       PROVE  Settles
  <2>1. subscriptions[t] \in Live
    BY <1>a, <1>14 DEF Unsubscribe, MapConsistent, Live
  <2> QED
    BY <1>13, <1>14, <2>1 DEF Unsubscribe
<1>15. ASSUME NEW c, NEW i \in SubIds, RemoveHandler(c, i)
       PROVE  Settles
  <2> DEFINE s == [sub[i] EXCEPT !.handlers = @ \ {c}]
  <2>1. i \in Live /\ s.joined = sub[i].joined /\ s.topic = sub[i].topic /\ DOMAIN s = DOMAIN sub[i]
    BY <1>a, <1>15 DEF RemoveHandler, Subscription
  <2>2. CASE s.handlers = {}
    <3>1. LeaveTopic(i, s)
      BY <1>15, <2>2 DEF RemoveHandler
    <3> HIDE DEF s
    <3> QED
      BY <1>13, <2>1, <3>1
  <2>3. CASE s.handlers # {}
    <3>1. UNCHANGED <<subscriptions, replyVars>> /\ sub' = [sub EXCEPT ![i] = s]
      BY <1>15, <2>3 DEF RemoveHandler
    <3> HIDE DEF s
    <3> QED
      BY <1>a, <2>1, <3>1 DEF Settles, Live, replyVars
  <2> QED
    BY <2>2, <2>3
<1>16. ASSUME NEW i \in SubIds, RejoinTimeout(i)
       PROVE  Settles
  <2>1. UNCHANGED <<socket, subscriptions>>
    BY <1>16 DEF RejoinTimeout, connVars
  <2>2. ~isConnected
    BY <1>c, <2>1
  <2>3. UNCHANGED pendingJoins /\ sub' = [sub EXCEPT ![i].rejoinTimer = FALSE]
    BY <1>16, <2>2 DEF RejoinTimeout
  <2>4. \A j \in SubIds : sub'[j].joined = sub[j].joined /\ sub'[j].topic = sub[j].topic
    BY <1>a, <2>3 DEF Subscription
  <2> QED
    BY <2>1, <2>3, <2>4 DEF Settles, Live
<1>17. Consumer => pendingJoins' = {} \/ Settles
  BY <1>i, <1>3, <1>4, <1>11, <1>12, <1>14, <1>15, Zenon DEF Consumer
<1>18. Timers => pendingJoins' = {} \/ Settles
  BY <1>3, <1>5, <1>10, <1>16, Zenon DEF Timers
<1>19. SocketEvents => pendingJoins' = {} \/ Settles
  BY <1>3, <1>4, <1>6, Zenon DEF SocketEvents
<1>20. Server => pendingJoins' = {} \/ Settles
  BY <1>7, <1>8, <1>9, Zenon DEF Server
<1> QED
  BY <1>3, <1>17, <1>18, <1>19, <1>20, Zenon DEF Contained

\* On the air a topic counts as joined when the server feeds its latest join, and
\* that join has been answered.
LEMMA SettledOnline ==
  ASSUME TypeOK, Delivery, Sharing, isConnected
  PROVE  SettledHasNoReplyLeft
<1> SUFFICES ASSUME NEW i \in Live, sub[i].joined, NEW p \in pendingJoins, p.sub = i
             PROVE  FALSE
  BY DEF SettledHasNoReplyLeft
<1>1. PICK ch \in channels : ch.ref = sub[i].joinRef /\ ch.up
  BY DEF Sharing, JoinedMeansFed
<1>2. PICK other \in channels : other.ref = p.ref /\ other.sub = i /\ ~other.up
  BY DEF Sharing, JoinsOwed
<1>3. other.ref = sub[i].joinRef
  BY <1>2 DEF Sharing, ChannelsOwned
<1>4. other = ch
  BY <1>1, <1>3 DEF Delivery, RefsUnique
<1> QED
  BY <1>1, <1>2, <1>4

\* A subscription counted as joined has no reply left to fire (phoenix.ts:422),
\* under the same assumptions.
THEOREM SettledHasNoReplyLeftHolds ==
  ASSUME Requests \subseteq {Events}, "disconnect" \notin ErrorReactions, ~safeInvokeThrows
  PROVE  Spec => []SettledHasNoReplyLeft
<1>1. Init => SettledHasNoReplyLeft
  BY DEF Init, SettledHasNoReplyLeft
<1>2. TypeOK /\ Delivery /\ Sharing => (isConnected => SettledHasNoReplyLeft)
  BY SettledOnline
<1>3. ASSUME TypeOK, Ownership, SettledHasNoReplyLeft, [Next]_vars,
             isConnected' => SettledHasNoReplyLeft'
      PROVE  SettledHasNoReplyLeft'
  <2>1. CASE isConnected'
    BY <1>3, <2>1
  <2>2. CASE ~isConnected'
    <3>1. pendingJoins' = {} \/ Settles
      BY <1>3, <2>2, SettledOffline, ContainedSteps
    <3> QED
      BY <1>3, <3>1 DEF SettledHasNoReplyLeft, Settles
  <2> QED
    BY <2>1, <2>2
<1> QED
  BY <1>1, <1>2, <1>3, TypeCorrect, OwnershipInvariant, DeliveryInvariant, SharingInvariant, PTL
     DEF Spec

\* Every live topic has a join ref on an open socket, which unsubscribeTopic
\* relies on when it writes the leave (phoenix.ts:595-599).
THEOREM OpenIsJoinedHolds == Spec => []OpenIsJoined
<1>1. Delivery => OpenIsJoined
  BY DEF Delivery
<1> QED
  BY <1>1, DeliveryInvariant, PTL
=============================================================================
