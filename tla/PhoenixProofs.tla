----------------------------- MODULE PhoenixProofs -----------------------------
(***************************************************************************)
(* Theorems about PhoenixTransport, for every set of topics, callers and   *)
(* events and every bound.  Those that need every teardown to run to its   *)
(* end assume ~safeInvokeThrows: the callbacks do not throw, or the error  *)
(* handlers safeInvoke reports to do not.                                  *)
(***************************************************************************)
EXTENDS PhoenixGuarantees, FiniteSetTheorems, TLAPS

\* The refs handleOpen gives out lie in the range it moves the counter over.
LEMMA RefAtOpenType ==
  ASSUME TypeOK
  PROVE  /\ Cardinality(Live) \in Nat
         /\ \A i \in SubIds : RefAtOpen(i) \in refCounter..(refCounter + Cardinality(Live))
<1>1. IsFiniteSet(SubIds)
  BY FS_Interval, BoundsAssumption DEF SubIds
<1>2. IsFiniteSet(Live)
  BY <1>1, FS_Subset DEF Live
<1>3. Cardinality(Live) \in Nat
  BY <1>2, FS_CardinalityType
<1>4. ASSUME NEW i \in SubIds
      PROVE  RefAtOpen(i) \in refCounter..(refCounter + Cardinality(Live))
  <2> DEFINE S == {j \in Live : j <= i}
  <2>1. S \in SUBSET Live
    OBVIOUS
  <2>2. IsFiniteSet(S) /\ Cardinality(S) <= Cardinality(Live)
    BY <1>2, <2>1, FS_Subset
  <2>3. Cardinality(S) \in Nat
    BY <2>2, FS_CardinalityType
  <2> HIDE DEF S
  <2>4. refCounter + Cardinality(S) \in refCounter..(refCounter + Cardinality(Live))
    BY <1>3, <2>2, <2>3 DEF TypeOK, SubscriptionsTypeOK
  <2> QED
    BY <2>4 DEF RefAtOpen, S
<1> QED
  BY <1>3, <1>4

\* What was well typed stays so when the ref counter grows.
LEMMA TypesGrow ==
  ASSUME TypeOK, refCounter' \in Nat, refCounter' >= refCounter
  PROVE  /\ Subscription \subseteq Subscription'
         /\ PendingReply \subseteq PendingReply'
         /\ Channel \subseteq Channel'
         /\ Leave \subseteq Leave'
<1>1. Refs \subseteq Refs'
  BY SMT DEF TypeOK, SubscriptionsTypeOK, Refs
<1> QED
  BY <1>1 DEF Subscription, PendingReply, Channel, Leave

LEMMA TypeInit == Init => TypeOK
<1> SUFFICES ASSUME Init PROVE TypeOK
  OBVIOUS
<1>1. Unused \in Subscription
  BY BoundsAssumption DEF Init, Unused, Subscription, Refs, NoRef
<1>2. ConnectionTypeOK
  BY DEF Init, ConnectionTypeOK, SocketStates
<1>3. SubscriptionsTypeOK
  BY <1>1, BoundsAssumption DEF Init, SubscriptionsTypeOK, SubIds, NoSub
<1>4. RepliesTypeOK /\ CallersTypeOK /\ ServerTypeOK
  BY BoundsAssumption DEF Init, RepliesTypeOK, CallersTypeOK, ServerTypeOK
<1> QED
  BY <1>2, <1>3, <1>4 DEF TypeOK

\* The ref counter only ever grows.
LEMMA RefsOnlyGrow ==
  ASSUME TypeOK, [Contained]_vars
  PROVE  refCounter' \in Nat /\ refCounter' >= refCounter
<1> USE DEF TypeOK, SubscriptionsTypeOK
<1>1. CASE HandleOpen
  BY <1>1, RefAtOpenType DEF HandleOpen
<1>2. ASSUME NEW c \in Callers, NEW t \in Topics, NEW w \in Requests,
             SubscribeNew(c, t, w) \/ SubscribeShared(c, t, w)
      PROVE  refCounter' \in Nat /\ refCounter' >= refCounter
  BY <1>2 DEF SubscribeNew, SubscribeShared
<1>3. ASSUME NEW i, NEW s, LeaveTopic(i, s)
      PROVE  refCounter' \in Nat /\ refCounter' >= refCounter
  BY <1>3 DEF LeaveTopic
<1>4. ASSUME NEW i \in SubIds, RejoinTimeout(i)
      PROVE  refCounter' \in Nat /\ refCounter' >= refCounter
  BY <1>4 DEF RejoinTimeout
<1>5. ASSUME NEW t \in Topics, Unsubscribe(t)
      PROVE  refCounter' \in Nat /\ refCounter' >= refCounter
  BY <1>3, <1>5 DEF Unsubscribe
<1>6. ASSUME NEW c \in Callers, NEW i \in SubIds, RemoveHandler(c, i)
      PROVE  refCounter' \in Nat /\ refCounter' >= refCounter
  BY <1>3, <1>6 DEF RemoveHandler
<1>7. CASE Connect \/ Disconnect \/ ReconnectTimeout \/ SendHeartbeat \/ HeartbeatReply
  BY <1>7 DEF Connect, Disconnect, DropEverything, ReconnectTimeout, SendHeartbeat,
              HeartbeatReply
<1>8. CASE SocketDrop \/ HandleClose \/ UNCHANGED vars
  BY <1>8 DEF SocketDrop, HandleClose, vars
<1>9. ASSUME NEW reaction, HeartbeatTimeout(reaction)
      PROVE  refCounter' \in Nat /\ refCounter' >= refCounter
  <2>1. UNCHANGED refCounter
    BY <1>9 DEF HeartbeatTimeout, DropEverything
  <2> QED
    BY <2>1
<1>10. ASSUME NEW p, JoinTimeout(p) \/ LeaveTimeout(p)
       PROVE  refCounter' \in Nat /\ refCounter' >= refCounter
  BY <1>10 DEF JoinTimeout, LeaveTimeout
<1>11. ASSUME NEW ch, NEW x, NEW r,
              JoinReply(ch, x) \/ ChannelDown(ch, x) \/ Dispatch(ch, x, r)
       PROVE  refCounter' \in Nat /\ refCounter' >= refCounter
  <2>1. UNCHANGED refCounter
    BY <1>11 DEF JoinReply, ChannelDown, Dispatch, DropEverything
  <2> QED
    BY <2>1
<1>12. ASSUME NEW ch, LeaveReply(ch) \/ ChannelDownIgnored(ch)
       PROVE  refCounter' \in Nat /\ refCounter' >= refCounter
  BY <1>12 DEF LeaveReply, ChannelDownIgnored
<1>i. ASSUME NEW c \in Callers, NEW t \in Topics, SubscribeInterrupted(c, t)
      PROVE  refCounter' \in Nat /\ refCounter' >= refCounter
  BY <1>i DEF SubscribeInterrupted
<1> QED
  BY <1>i, <1>1, <1>2, <1>4, <1>5, <1>6, <1>7, <1>8, <1>9, <1>10, <1>11, <1>12
     DEF Contained, Consumer, Timers, SocketEvents, Server

LEMMA ConnectionType ==
  ASSUME TypeOK, [Contained]_vars
  PROVE  ConnectionTypeOK'
<1> USE DEF TypeOK, ConnectionTypeOK, SocketStates, connVars, hbVars
<1>1. CASE Connect \/ ReconnectTimeout
  BY <1>1 DEF Connect, ReconnectTimeout, ConnectIfNeeded
<1>2. CASE Disconnect
  BY <1>2 DEF Disconnect, DropEverything, clearReconnectTimer, stopHeartbeat,
              LoseSocket
<1>3. CASE HandleOpen \/ SocketDrop
  BY <1>3 DEF HandleOpen, SocketDrop, backoffAtOpen
<1>4. CASE HandleClose
  <2>1. reconnectTries' \in Nat
    BY <1>4 DEF HandleClose, scheduleReconnect
  <2> QED
    BY <1>4, <2>1, Zenon DEF HandleClose, stopHeartbeat, LoseSocket, scheduleReconnect
<1>5. CASE SendHeartbeat \/ HeartbeatReply
  <2>1. reconnectTries' \in Nat
    BY <1>5 DEF SendHeartbeat, HeartbeatReply, Proven
  <2> QED
    BY <1>5, <2>1, Zenon DEF SendHeartbeat, HeartbeatReply, Proven
<1>6. ASSUME NEW reaction, HeartbeatTimeout(reaction)
      PROVE  ConnectionTypeOK'
  <2>1. reconnectTries' = reconnectTries \/ reconnectTries' = reconnectTries + 1
    BY <1>6, Zenon DEF HeartbeatTimeout, scheduleReconnect
  <2>2. reconnectTries' \in Nat
    BY <2>1
  <2> QED
    BY <1>6, <2>2, Zenon DEF HeartbeatTimeout, DropEverything, stopHeartbeat,
                             LoseSocket, scheduleReconnect
<1>7. ASSUME NEW c, NEW t, NEW w, SubscribeNew(c, t, w) \/ SubscribeShared(c, t, w)
      PROVE  ConnectionTypeOK'
  BY <1>7 DEF SubscribeNew, SubscribeShared, ConnectIfNeeded
<1>8. ASSUME NEW i, NEW s, LeaveTopic(i, s)
      PROVE  ConnectionTypeOK'
  BY <1>8 DEF LeaveTopic
<1>9. ASSUME NEW t, Unsubscribe(t)
      PROVE  ConnectionTypeOK'
  BY <1>8, <1>9 DEF Unsubscribe
<1>10. ASSUME NEW c, NEW i, RemoveHandler(c, i)
       PROVE  ConnectionTypeOK'
  BY <1>8, <1>10 DEF RemoveHandler
<1>11. ASSUME NEW x, RejoinTimeout(x) \/ JoinTimeout(x) \/ LeaveTimeout(x)
       PROVE  ConnectionTypeOK'
  BY <1>11 DEF RejoinTimeout, JoinTimeout, LeaveTimeout
<1>12. ASSUME NEW ch, NEW x, NEW r, JoinReply(ch, x) \/ Dispatch(ch, x, r)
       PROVE  ConnectionTypeOK'
  <2>1. reconnectTries' \in Nat
    BY <1>12 DEF JoinReply, Dispatch, Proven
  <2> QED
    BY <1>12, <2>1, Zenon DEF JoinReply, Dispatch, Proven
<1>13. ASSUME NEW x, LeaveReply(x) \/ ChannelDownIgnored(x)
       PROVE  ConnectionTypeOK'
  <2>1. reconnectTries' \in Nat
    BY <1>13 DEF LeaveReply, ChannelDownIgnored, Proven
  <2> QED
    BY <1>13, <2>1, Zenon DEF LeaveReply, ChannelDownIgnored, Proven
<1>14. ASSUME NEW ch, NEW reaction, ChannelDown(ch, reaction)
       PROVE  ConnectionTypeOK'
  <2>1. CASE reaction \in {"return", "throw"}
    BY <1>14, <2>1 DEF ChannelDown
  <2>2. CASE reaction = "disconnect"
    BY <1>14, <2>2 DEF ChannelDown, DropEverything, stopHeartbeat, LoseSocket,
                       clearReconnectTimer
  <2> QED
    BY <1>14, <2>1, <2>2 DEF ChannelDown
<1>15. CASE UNCHANGED vars
  BY <1>15 DEF vars
<1>i. ASSUME NEW c \in Callers, NEW t \in Topics, SubscribeInterrupted(c, t)
      PROVE  ConnectionTypeOK'
  BY <1>i DEF SubscribeInterrupted, ConnectIfNeeded
<1> QED
  BY <1>i, <1>1, <1>2, <1>3, <1>4, <1>5, <1>6, <1>7, <1>9, <1>10, <1>11, <1>12, <1>13,
     <1>14, <1>15 DEF Contained, Consumer, Timers, SocketEvents, Server

LEMMA SubscriptionsType ==
  ASSUME TypeOK, [Contained]_vars
  PROVE  SubscriptionsTypeOK'
<1>1. /\ refCounter' \in Nat /\ refCounter' >= refCounter
      /\ Subscription \subseteq Subscription'
      /\ Refs \subseteq Refs' /\ refCounter' \in Refs'
  <2>1. refCounter' \in Nat /\ refCounter' >= refCounter
    BY RefsOnlyGrow
  <2> QED
    BY <2>1, TypesGrow, SMT DEF TypeOK, SubscriptionsTypeOK, Refs
<1>2. sub \in [SubIds -> Subscription'] /\ sub \in [SubIds -> Subscription]
  BY <1>1 DEF TypeOK, SubscriptionsTypeOK
<1>3. subscriptions \in [Topics -> SubIds \cup {NoSub}] /\ subCount \in 0..MaxSubs
  BY DEF TypeOK, SubscriptionsTypeOK
<1> DEFINE SubsOK == /\ subscriptions' \in [Topics -> SubIds \cup {NoSub}]
                     /\ sub' \in [SubIds -> Subscription']
                     /\ subCount' \in 0..MaxSubs
<1>4. SUFFICES SubsOK
  BY <1>1 DEF SubscriptionsTypeOK
<1>5. ASSUME UNCHANGED subVars
      PROVE  SubsOK
  BY <1>2, <1>3, <1>5 DEF subVars
<1>6. WithoutRejoinTimers \in [SubIds -> Subscription']
  BY <1>2 DEF WithoutRejoinTimers, Subscription
<1>7. ASSUME DropEverything
      PROVE  subscriptions' \in [Topics -> SubIds \cup {NoSub}] /\ subCount' \in 0..MaxSubs
  BY <1>3, <1>7 DEF DropEverything
<1>8. CASE Disconnect
  BY <1>6, <1>7, <1>8 DEF Disconnect
<1>9. CASE HandleOpen
  <2>1. ASSUME NEW i \in SubIds
        PROVE  RejoinedAtOpen(i) \in Subscription'
    <3>1. RefAtOpen(i) \in Refs'
      BY <1>9, <1>1, RefAtOpenType DEF HandleOpen, Refs, TypeOK, SubscriptionsTypeOK
    <3> QED
      BY <1>2, <3>1 DEF RejoinedAtOpen, Subscription
  <2> QED
    BY <1>2, <1>3, <1>9, <2>1 DEF HandleOpen
<1>10. ASSUME NEW c \in Callers, NEW t \in Topics, NEW w \in Requests, SubscribeNew(c, t, w)
       PROVE  SubsOK
  <2> DEFINE fresh == [topic |-> t, joinRef |-> IF isConnected THEN refCounter + 1 ELSE NoRef,
                       joined |-> FALSE, filter |-> w, rejoinTimer |-> FALSE,
                       rejoinTries |-> 0, callbacks |-> {c}, handlers |-> {c}]
  <2>1. (IF isConnected THEN refCounter + 1 ELSE NoRef) \in Refs'
    BY <1>1, <1>10 DEF SubscribeNew, Refs, NoRef
  <2>2. fresh \in Subscription'
    BY <1>1, <2>1, RequestsAssumption DEF Subscription
  <2>3. subCount + 1 \in SubIds /\ subCount + 1 \in 0..MaxSubs
    BY <1>3, <1>10, BoundsAssumption DEF SubscribeNew, SubIds
  <2>4. sub' = [sub EXCEPT ![subCount + 1] = fresh]
    BY <1>10 DEF SubscribeNew
  <2> QED
    BY <1>2, <1>3, <1>10, <2>2, <2>3, <2>4 DEF SubscribeNew
<1>11. ASSUME NEW c \in Callers, NEW t \in Topics, NEW w \in Requests, SubscribeShared(c, t, w)
       PROVE  SubsOK
  <2> DEFINE i == subscriptions[t]
             r == IF sub[i].joinRef = NoRef THEN refCounter + 1 ELSE refCounter + 2
             shared == [sub[i] EXCEPT !.callbacks = @ \cup {c}, !.handlers = @ \cup {c},
                                      !.filter = sub[i].filter \cup w]
  <2>1. i \in SubIds
    BY <1>3, <1>11 DEF SubscribeShared
  <2>2. shared \in Subscription'
    <3>1. sub[i] \in Subscription'
      BY <1>2, <2>1
    <3>2. /\ sub[i].filter \cup w \in SUBSET Events
          /\ sub[i].callbacks \cup {c} \in SUBSET Callers
          /\ sub[i].handlers \cup {c} \in SUBSET Callers
      BY <3>1, RequestsAssumption DEF Subscription
    <3> QED
      BY <3>1, <3>2 DEF Subscription
  <2>3. CASE WidensOnline(i, w)
    <3>1. refCounter' = r /\ sub' = [sub EXCEPT ![i] = [shared EXCEPT !.joined = FALSE, !.joinRef = r]]
      BY <1>11, <2>3 DEF SubscribeShared
    <3>2. [shared EXCEPT !.joined = FALSE, !.joinRef = r] \in Subscription'
      BY <1>1, <2>2, <3>1 DEF Subscription
    <3> QED
      BY <1>2, <1>3, <1>11, <2>1, <3>1, <3>2 DEF SubscribeShared
  <2>4. CASE ~WidensOnline(i, w)
    <3>1. sub' = [sub EXCEPT ![i] = shared]
      BY <1>11, <2>4 DEF SubscribeShared
    <3> QED
      BY <1>2, <1>3, <1>11, <2>1, <2>2, <3>1 DEF SubscribeShared
  <2> QED
    BY <2>3, <2>4
<1>12. ASSUME NEW i \in SubIds, NEW s \in Subscription, LeaveTopic(i, s)
       PROVE  SubsOK
  <2>1. [s EXCEPT !.rejoinTimer = FALSE] \in Subscription'
    BY <1>1 DEF Subscription
  <2> QED
    BY <1>2, <1>3, <1>12, <2>1 DEF LeaveTopic
<1>13. ASSUME NEW t \in Topics, Unsubscribe(t)
       PROVE  SubsOK
  BY <1>2, <1>3, <1>12, <1>13 DEF Unsubscribe
<1>14. ASSUME NEW c \in Callers, NEW i \in SubIds, RemoveHandler(c, i)
       PROVE  SubsOK
  <2>1. [sub[i] EXCEPT !.handlers = @ \ {c}] \in Subscription
    BY <1>2 DEF Subscription
  <2> QED
    BY <1>1, <1>2, <1>3, <1>12, <1>14, <2>1 DEF RemoveHandler
<1>15. ASSUME NEW i \in SubIds, RejoinTimeout(i)
       PROVE  SubsOK
  <2>1. [sub[i] EXCEPT !.rejoinTimer = FALSE] \in Subscription'
    BY <1>1, <1>2 DEF Subscription
  <2>2. ASSUME refCounter' = refCounter + 1
        PROVE  [sub[i] EXCEPT !.rejoinTimer = FALSE, !.joinRef = refCounter + 1] \in Subscription'
    BY <1>1, <1>2, <2>2 DEF Subscription
  <2> QED
    BY <1>2, <1>3, <1>15, <2>1, <2>2 DEF RejoinTimeout
<1>16. ASSUME NEW ch \in channels, NEW status \in JoinStatuses, JoinReply(ch, status)
       PROVE  SubsOK
  <2>1. ch.sub \in SubIds
    BY DEF TypeOK, ServerTypeOK, Channel
  <2>2. JoinOutcome(ch.sub, status) \in Subscription'
    BY <1>2, <2>1 DEF JoinOutcome, Subscription
  <2> QED
    BY <1>2, <1>3, <1>16, <2>1, <2>2 DEF JoinReply
<1>17. ASSUME NEW ch \in channels, NEW reaction, ChannelDown(ch, reaction)
       PROVE  SubsOK
  <2> DEFINE i == subscriptions[ch.topic]
             down == [sub[i] EXCEPT !.joined = FALSE]
  <2>1. i \in SubIds
    BY <1>3, <1>17 DEF ChannelDown, TypeOK, ServerTypeOK, Channel
  <2>2. down \in Subscription' /\ scheduleRejoin(down) \in Subscription'
    <3>1. down \in Subscription'
      BY <1>2, <2>1 DEF Subscription
    <3>2. ASSUME NEW s \in Subscription'
          PROVE  scheduleRejoin(s) \in Subscription'
      <4>1. s.rejoinTries + 1 \in Nat
        BY DEF Subscription
      <4>2. scheduleRejoin(s) =
              [s EXCEPT !.rejoinTimer = TRUE, !.rejoinTries = s.rejoinTries + 1]
        BY DEF scheduleRejoin
      <4> QED
        BY <4>1, <4>2, Zenon DEF Subscription
    <3> QED
      BY <3>1, <3>2
  <2>3. CASE reaction = "disconnect"
    BY <1>6, <1>7, <1>17, <2>1, <2>2, <2>3 DEF ChannelDown
  <2>4. CASE reaction # "disconnect"
    BY <1>2, <1>3, <1>17, <2>1, <2>2, <2>4 DEF ChannelDown
  <2> QED
    BY <2>3, <2>4
<1>18. ASSUME NEW reaction, HeartbeatTimeout(reaction)
       PROVE  SubsOK
  <2>1. CASE reaction = "disconnect"
    BY <1>6, <1>7, <1>18, <2>1 DEF HeartbeatTimeout
  <2>2. CASE reaction # "disconnect"
    BY <1>5, <1>18, <2>2 DEF HeartbeatTimeout
  <2> QED
    BY <2>1, <2>2
<1>19. CASE \/ Connect \/ ReconnectTimeout \/ SendHeartbeat \/ HeartbeatReply
            \/ SocketDrop \/ HandleClose \/ UNCHANGED vars
  BY <1>5, <1>19 DEF Connect, ReconnectTimeout, SendHeartbeat, HeartbeatReply,
                     SocketDrop, HandleClose, vars
<1>20. ASSUME NEW x, \/ JoinTimeout(x) \/ LeaveTimeout(x) \/ LeaveReply(x)
                     \/ ChannelDownIgnored(x)
                     \/ \E e \in Events, r \in {x.ref, NoRef} : Dispatch(x, e, r)
       PROVE  SubsOK
  BY <1>5, <1>20 DEF JoinTimeout, LeaveTimeout, LeaveReply, ChannelDownIgnored, Dispatch
<1>i. ASSUME NEW c \in Callers, NEW t \in Topics, SubscribeInterrupted(c, t)
      PROVE  SubsOK
  <2> DEFINE i == subscriptions[t]
  <2>1. i \in SubIds /\ sub[i] \in Subscription'
    BY <1>2, <1>3, <1>i DEF SubscribeInterrupted
  <2>2. [sub[i] EXCEPT !.callbacks = @ \cup {c}] \in Subscription'
    BY <2>1 DEF Subscription
  <2>3. sub' = [sub EXCEPT ![i] = [sub[i] EXCEPT !.callbacks = @ \cup {c}]]
    BY <1>i DEF SubscribeInterrupted
  <2> QED
    BY <1>2, <1>3, <1>i, <2>1, <2>2, <2>3 DEF SubscribeInterrupted
<1> QED
  BY <1>i, <1>8, <1>9, <1>10, <1>11, <1>13, <1>14, <1>15, <1>16, <1>17, <1>18, <1>19, <1>20
     DEF Contained, Consumer, Timers, SocketEvents, Server

LEMMA RepliesType ==
  ASSUME TypeOK, [Contained]_vars
  PROVE  RepliesTypeOK'
<1>1. refCounter' \in Nat /\ refCounter' >= refCounter
  BY RefsOnlyGrow
<1>2. PendingReply \subseteq PendingReply'
  BY <1>1, TypesGrow
<1>3. /\ pendingJoins \subseteq PendingReply' /\ pendingLeaves \subseteq PendingReply'
      /\ pendingUnsubscribes \subseteq SubIds
      /\ unsub \in [SubIds -> {"no", "waiting", "done"}]
  BY <1>2 DEF TypeOK, RepliesTypeOK
<1>4. ASSUME UNCHANGED <<pendingLeaves, pendingUnsubscribes, unsub>>,
             pendingJoins' \subseteq PendingReply'
      PROVE  RepliesTypeOK'
  BY <1>3, <1>4 DEF RepliesTypeOK
<1>5. ASSUME UNCHANGED replyVars
      PROVE  RepliesTypeOK'
  BY <1>3, <1>5 DEF RepliesTypeOK, replyVars
<1>6. ASSUME clearPendingReplies
      PROVE  RepliesTypeOK'
  BY <1>3, <1>6 DEF RepliesTypeOK, clearPendingReplies
<1>7. ASSUME NEW r \in 1..refCounter', NEW i \in SubIds
      PROVE  [ref |-> r, sub |-> i] \in PendingReply'
  BY <1>1, <1>7 DEF PendingReply, Refs
<1>8. refCounter \in Nat /\ subCount \in 0..MaxSubs
      /\ subscriptions \in [Topics -> SubIds \cup {NoSub}]
  BY DEF TypeOK, SubscriptionsTypeOK
<1>9. CASE HandleOpen
  <2>1. ASSUME NEW i \in SubIds
        PROVE  [ref |-> RefAtOpen(i), sub |-> i] \in PendingReply'
    BY <1>1, <1>8, <1>9, RefAtOpenType DEF HandleOpen, PendingReply, Refs
  <2>2. {[ref |-> RefAtOpen(i), sub |-> i] : i \in Live} \subseteq PendingReply'
    BY <2>1 DEF Live
  <2> QED
    BY <1>3, <1>4, <1>9, <2>2 DEF HandleOpen
<1>10. ASSUME NEW c \in Callers, NEW t \in Topics, NEW w \in Requests,
              SubscribeNew(c, t, w)
       PROVE  RepliesTypeOK'
  <2>1. subCount + 1 \in SubIds
    BY <1>8, <1>10, BoundsAssumption DEF SubscribeNew, SubIds
  <2>2. CASE isConnected
    <3>1. [ref |-> refCounter + 1, sub |-> subCount + 1] \in PendingReply'
      BY <1>7, <1>8, <1>10, <2>1, <2>2 DEF SubscribeNew
    <3> QED
      BY <1>3, <1>4, <1>10, <2>2, <3>1 DEF SubscribeNew
  <2>3. CASE ~isConnected
    BY <1>3, <1>4, <1>10, <2>3 DEF SubscribeNew
  <2> QED
    BY <2>2, <2>3
<1>11. ASSUME NEW c \in Callers, NEW t \in Topics, NEW w \in Requests,
              SubscribeShared(c, t, w)
       PROVE  RepliesTypeOK'
  <2> DEFINE i == subscriptions[t]
             r == IF sub[i].joinRef = NoRef THEN refCounter + 1 ELSE refCounter + 2
  <2>1. i \in SubIds
    BY <1>8, <1>11 DEF SubscribeShared
  <2>2. CASE WidensOnline(i, w)
    <3>1. refCounter' = r /\ pendingJoins' = pendingJoins \cup {[ref |-> r, sub |-> i]}
      BY <1>11, <2>2 DEF SubscribeShared
    <3>2. [ref |-> r, sub |-> i] \in PendingReply'
      BY <1>7, <1>8, <2>1, <3>1
    <3> QED
      BY <1>3, <1>4, <1>11, <3>1, <3>2 DEF SubscribeShared
  <2>3. CASE ~WidensOnline(i, w)
    BY <1>3, <1>4, <1>11, <2>3 DEF SubscribeShared
  <2> QED
    BY <2>2, <2>3
<1>12. ASSUME NEW i \in SubIds, NEW s, LeaveTopic(i, s)
       PROVE  RepliesTypeOK'
  <2>1. CASE isConnected /\ sub[i].joinRef # NoRef
    <3>1. refCounter' = refCounter + 1
      BY <1>12, <2>1 DEF LeaveTopic
    <3>2. [ref |-> refCounter + 1, sub |-> i] \in PendingReply'
      BY <1>7, <1>8, <3>1
    <3> QED
      BY <1>3, <1>12, <2>1, <3>2 DEF LeaveTopic, RepliesTypeOK
  <2>2. CASE ~(isConnected /\ sub[i].joinRef # NoRef)
    BY <1>3, <1>12, <2>2 DEF LeaveTopic, RepliesTypeOK
  <2> QED
    BY <2>1, <2>2
<1>13. ASSUME NEW t \in Topics, Unsubscribe(t)
       PROVE  RepliesTypeOK'
  BY <1>8, <1>12, <1>13 DEF Unsubscribe
<1>14. ASSUME NEW c \in Callers, NEW i \in SubIds, RemoveHandler(c, i)
       PROVE  RepliesTypeOK'
  BY <1>5, <1>12, <1>14 DEF RemoveHandler
<1>15. ASSUME NEW i \in SubIds, RejoinTimeout(i)
       PROVE  RepliesTypeOK'
  <2>1. CASE refCounter' = refCounter + 1
    <3>1. [ref |-> refCounter + 1, sub |-> i] \in PendingReply'
      BY <1>7, <1>8, <2>1
    <3> QED
      BY <1>3, <1>4, <1>15, <3>1 DEF RejoinTimeout
  <2>2. CASE UNCHANGED pendingJoins
    BY <1>3, <1>4, <1>15, <2>2 DEF RejoinTimeout
  <2> QED
    BY <1>15, <2>1, <2>2 DEF RejoinTimeout
<1>16. ASSUME NEW x, NEW y, JoinReply(x, y) \/ JoinTimeout(x)
       PROVE  RepliesTypeOK'
  BY <1>3, <1>4, <1>16 DEF JoinReply, JoinTimeout
<1>17. ASSUME NEW x, LeaveReply(x) \/ LeaveTimeout(x)
       PROVE  RepliesTypeOK'
  BY <1>3, <1>17 DEF LeaveReply, LeaveTimeout, RepliesTypeOK
<1>18. ASSUME NEW reaction, HeartbeatTimeout(reaction)
       PROVE  RepliesTypeOK'
  BY <1>5, <1>6, <1>18 DEF HeartbeatTimeout, DropEverything
<1>19. ASSUME NEW ch, NEW reaction, ChannelDown(ch, reaction)
       PROVE  RepliesTypeOK'
  BY <1>5, <1>6, <1>19 DEF ChannelDown, DropEverything
<1>20. CASE Disconnect \/ HandleClose
  BY <1>6, <1>20 DEF Disconnect, DropEverything, HandleClose
<1>21. CASE \/ Connect \/ ReconnectTimeout \/ SendHeartbeat \/ HeartbeatReply
            \/ SocketDrop \/ UNCHANGED vars
  BY <1>5, <1>21 DEF Connect, ReconnectTimeout, SendHeartbeat, HeartbeatReply,
                     SocketDrop, vars
<1>22. ASSUME NEW x, ChannelDownIgnored(x)
                     \/ \E e \in Events, r \in {x.ref, NoRef} : Dispatch(x, e, r)
       PROVE  RepliesTypeOK'
  BY <1>5, <1>22 DEF ChannelDownIgnored, Dispatch
<1>i. ASSUME NEW c \in Callers, NEW t \in Topics, SubscribeInterrupted(c, t)
      PROVE  RepliesTypeOK'
  BY <1>5, <1>i DEF SubscribeInterrupted
<1> QED
  BY <1>i, <1>9, <1>10, <1>11, <1>13, <1>14, <1>15, <1>16, <1>17, <1>18, <1>19, <1>20,
     <1>21, <1>22 DEF Contained, Consumer, Timers, SocketEvents, Server

LEMMA CallersType ==
  ASSUME TypeOK, [Contained]_vars
  PROVE  CallersTypeOK'
<1>1. /\ told \in [Callers -> {"idle", "waiting", "ok", "error"}]
      /\ wants \in [Callers -> SUBSET Events]
      /\ heard \in [Callers -> SUBSET SubIds]
  BY DEF TypeOK, CallersTypeOK
<1>2. ASSUME UNCHANGED callerVars
      PROVE  CallersTypeOK'
  BY <1>1, <1>2 DEF callerVars, CallersTypeOK
<1>3. ASSUME NEW c \in Callers, NEW t \in Topics, NEW w \in Requests,
             SubscribeNew(c, t, w) \/ SubscribeShared(c, t, w)
      PROVE  CallersTypeOK'
  BY <1>1, <1>3, RequestsAssumption DEF SubscribeNew, SubscribeShared, CallersTypeOK
<1>4. ASSUME NEW S, NEW outcome \in {"ok", "error"}, Tell(S, outcome),
             UNCHANGED <<wants, heard>>
      PROVE  CallersTypeOK'
  BY <1>1, <1>4 DEF Tell, CallersTypeOK
<1>5. ASSUME NEW ch \in channels, NEW status \in JoinStatuses, JoinReply(ch, status)
      PROVE  CallersTypeOK'
  BY <1>2, <1>4, <1>5, ChoicesAssumption DEF JoinReply, callerVars
<1>6. ASSUME NEW p \in pendingJoins, JoinTimeout(p)
      PROVE  CallersTypeOK'
  BY <1>4, <1>6 DEF JoinTimeout
<1>7. ASSUME NEW ch \in channels, NEW e \in Events, NEW r, Dispatch(ch, e, r)
      PROVE  CallersTypeOK'
  <2>1. ch.sub \in SubIds
    BY DEF TypeOK, ServerTypeOK, Channel
  <2> QED
    BY <1>1, <1>7, <2>1 DEF Dispatch, CallersTypeOK
<1>8. ASSUME NEW i, NEW s, LeaveTopic(i, s)
      PROVE  CallersTypeOK'
  BY <1>2, <1>8 DEF LeaveTopic
<1>9. ASSUME NEW t, Unsubscribe(t)
      PROVE  CallersTypeOK'
  BY <1>8, <1>9 DEF Unsubscribe
<1>10. ASSUME NEW c, NEW i, RemoveHandler(c, i)
       PROVE  CallersTypeOK'
  BY <1>2, <1>8, <1>10 DEF RemoveHandler
<1>11. ASSUME NEW reaction, HeartbeatTimeout(reaction)
       PROVE  CallersTypeOK'
  BY <1>2, <1>11 DEF HeartbeatTimeout, DropEverything
<1>12. ASSUME NEW ch, NEW reaction, ChannelDown(ch, reaction)
       PROVE  CallersTypeOK'
  BY <1>2, <1>12 DEF ChannelDown, DropEverything
<1>13. CASE \/ Connect \/ Disconnect \/ ReconnectTimeout \/ SendHeartbeat
            \/ HeartbeatReply \/ HandleOpen \/ SocketDrop \/ HandleClose
            \/ UNCHANGED vars
  BY <1>2, <1>13 DEF Connect, Disconnect, DropEverything, ReconnectTimeout,
     SendHeartbeat, HeartbeatReply, HandleOpen, SocketDrop, HandleClose, vars
<1>14. ASSUME NEW x, \/ RejoinTimeout(x) \/ LeaveTimeout(x) \/ LeaveReply(x)
                     \/ ChannelDownIgnored(x)
       PROVE  CallersTypeOK'
  BY <1>2, <1>14 DEF RejoinTimeout, LeaveTimeout, LeaveReply, ChannelDownIgnored
<1>i. ASSUME NEW c \in Callers, NEW t \in Topics, SubscribeInterrupted(c, t)
      PROVE  CallersTypeOK'
  BY <1>1, <1>i DEF SubscribeInterrupted, CallersTypeOK
<1> QED
  BY <1>i, <1>3, <1>5, <1>6, <1>7, <1>9, <1>10, <1>11, <1>12, <1>13, <1>14
     DEF Contained, Consumer, Timers, SocketEvents, Server

LEMMA ServerType ==
  ASSUME TypeOK, [Contained]_vars
  PROVE  ServerTypeOK'
<1>1. /\ refCounter' \in Nat /\ refCounter' >= refCounter
      /\ refCounter \in Nat /\ subCount \in 0..MaxSubs
      /\ subscriptions \in [Topics -> SubIds \cup {NoSub}]
      /\ sub \in [SubIds -> Subscription]
  BY RefsOnlyGrow DEF TypeOK, SubscriptionsTypeOK
<1>2. Channel \subseteq Channel' /\ Leave \subseteq Leave' /\ Refs \subseteq Refs'
  BY <1>1, TypesGrow, SMT DEF Refs
<1>3. /\ channels \subseteq Channel' /\ leaves \subseteq Leave' /\ faults \in 0..MaxFaults
  BY <1>2 DEF TypeOK, ServerTypeOK
<1>4. ASSUME channels' \subseteq Channel', leaves' \subseteq Leave',
             faults' = faults \/ Fault
      PROVE  ServerTypeOK'
  BY <1>3, <1>4, BoundsAssumption DEF ServerTypeOK, Fault
<1>5. ASSUME UNCHANGED serverVars, faults' = faults \/ Fault
      PROVE  ServerTypeOK'
  BY <1>3, <1>4, <1>5 DEF serverVars
<1>6. ASSUME NEW i \in SubIds, NEW r \in Refs', NEW f \in SUBSET Events
      PROVE  JoinOf(i, r, f) \in Channel'
  <2>1. sub[i].topic \in Topics
    BY <1>1 DEF Subscription
  <2> QED
    BY <2>1 DEF JoinOf, Channel
<1>7. ASSUME NEW i \in SubIds
      PROVE  sub[i].filter \in SUBSET Events /\ sub[i].joinRef \in Refs'
  BY <1>1, <1>2 DEF Subscription
<1>8. ASSUME NEW r
      PROVE  MarkLeft(r) \subseteq Channel'
  <2>1. ASSUME NEW ch \in Channel'
        PROVE  [ch EXCEPT !.left = TRUE] \in Channel'
    BY DEF Channel
  <2> QED
    BY <1>3, <2>1 DEF MarkLeft
<1>9. CASE HandleOpen
  <2>1. ASSUME NEW i \in SubIds
        PROVE  JoinOf(i, RefAtOpen(i), sub[i].filter) \in Channel'
    <3>1. RefAtOpen(i) \in Refs'
      BY <1>1, <1>9, RefAtOpenType DEF HandleOpen, Refs
    <3> QED
      BY <1>6, <1>7, <3>1
  <2>2. channels' \subseteq Channel'
    BY <1>9, <2>1 DEF HandleOpen, Live
  <2> QED
    BY <1>3, <1>4, <1>9, <2>2 DEF HandleOpen
<1>10. ASSUME NEW c \in Callers, NEW t \in Topics, NEW w \in Requests,
              SubscribeNew(c, t, w)
       PROVE  ServerTypeOK'
  <2> DEFINE ch == [topic |-> t, sub |-> subCount + 1, ref |-> refCounter + 1,
                    filter |-> w, up |-> FALSE, left |-> FALSE]
  <2>1. subCount + 1 \in SubIds
    BY <1>1, <1>10, BoundsAssumption DEF SubscribeNew, SubIds
  <2>2. CASE isConnected
    <3>1. refCounter + 1 \in Refs'
      BY <1>1, <1>10, <2>2 DEF SubscribeNew, Refs
    <3>2. ch \in Channel'
      BY <2>1, <3>1, RequestsAssumption DEF Channel
    <3> QED
      BY <1>3, <1>4, <1>10, <2>2, <3>2 DEF SubscribeNew
  <2>3. CASE ~isConnected
    BY <1>3, <1>4, <1>10, <2>3 DEF SubscribeNew
  <2> QED
    BY <2>2, <2>3
<1>11. ASSUME NEW c \in Callers, NEW t \in Topics, NEW w \in Requests,
              SubscribeShared(c, t, w)
       PROVE  ServerTypeOK'
  <2> DEFINE i == subscriptions[t]
             r == IF sub[i].joinRef = NoRef THEN refCounter + 1 ELSE refCounter + 2
             leave == [ref |-> refCounter + 1, joinRef |-> sub[i].joinRef]
  <2>1. i \in SubIds
    BY <1>1, <1>11 DEF SubscribeShared
  <2>2. CASE WidensOnline(i, w)
    <3>1. refCounter' = r
      BY <1>11, <2>2 DEF SubscribeShared
    <3>2. r \in Refs' /\ refCounter + 1 \in Refs'
      BY <1>1, <3>1 DEF Refs
    <3>3. JoinOf(i, r, sub[i].filter \cup w) \in Channel'
      BY <1>6, <1>7, <2>1, <3>2, RequestsAssumption
    <3>4. leave \in Leave'
      BY <1>7, <2>1, <3>2 DEF Leave
    <3>5. /\ channels' = MarkLeft(sub[i].joinRef) \cup {JoinOf(i, r, sub[i].filter \cup w)}
          /\ leaves' \in {leaves, leaves \cup {leave}}
          /\ UNCHANGED faults
      BY <1>11, <2>2 DEF SubscribeShared
    <3> QED
      BY <1>3, <1>4, <1>8, <3>3, <3>4, <3>5
  <2>3. CASE ~WidensOnline(i, w)
    BY <1>3, <1>4, <1>11, <2>3 DEF SubscribeShared
  <2> QED
    BY <2>2, <2>3
<1>12. ASSUME NEW i \in SubIds, NEW s, LeaveTopic(i, s)
       PROVE  ServerTypeOK'
  <2>1. CASE isConnected /\ sub[i].joinRef # NoRef
    <3>1. refCounter + 1 \in Refs'
      BY <1>1, <1>12, <2>1 DEF LeaveTopic, Refs
    <3>2. [ref |-> refCounter + 1, joinRef |-> sub[i].joinRef] \in Leave'
      BY <1>7, <3>1 DEF Leave
    <3> QED
      BY <1>3, <1>4, <1>8, <1>12, <2>1, <3>2 DEF LeaveTopic
  <2>2. CASE ~(isConnected /\ sub[i].joinRef # NoRef)
    BY <1>5, <1>12, <2>2 DEF LeaveTopic
  <2> QED
    BY <2>1, <2>2
<1>13. ASSUME NEW t \in Topics, Unsubscribe(t)
       PROVE  ServerTypeOK'
  BY <1>1, <1>12, <1>13 DEF Unsubscribe
<1>14. ASSUME NEW c \in Callers, NEW i \in SubIds, RemoveHandler(c, i)
       PROVE  ServerTypeOK'
  BY <1>5, <1>12, <1>14 DEF RemoveHandler
<1>15. ASSUME NEW i \in SubIds, RejoinTimeout(i)
       PROVE  ServerTypeOK'
  <2>1. CASE isConnected /\ subscriptions[sub[i].topic] # NoSub
    <3>1. refCounter + 1 \in Refs'
      BY <1>1, <1>15, <2>1 DEF RejoinTimeout, Refs
    <3>2. JoinOf(i, refCounter + 1, sub[i].filter) \in Channel'
      BY <1>6, <1>7, <3>1
    <3> QED
      BY <1>3, <1>4, <1>15, <2>1, <3>2 DEF RejoinTimeout
  <2>2. CASE ~(isConnected /\ subscriptions[sub[i].topic] # NoSub)
    BY <1>3, <1>4, <1>15, <2>2 DEF RejoinTimeout
  <2> QED
    BY <2>1, <2>2
<1>16. ASSUME NEW ch \in channels, NEW status, JoinReply(ch, status)
       PROVE  ServerTypeOK'
  <2>1. [ch EXCEPT !.up = TRUE] \in Channel'
    BY <1>3 DEF Channel
  <2> QED
    BY <1>3, <1>4, <1>16, <2>1 DEF JoinReply
<1>17. ASSUME NEW ch, NEW reaction, ChannelDown(ch, reaction)
       PROVE  ServerTypeOK'
  BY <1>3, <1>4, <1>17 DEF ChannelDown, ChannelEnds, DropEverything, LoseSocket
<1>18. ASSUME NEW reaction, HeartbeatTimeout(reaction)
       PROVE  ServerTypeOK'
  BY <1>3, <1>4, <1>18 DEF HeartbeatTimeout, DropEverything, LoseSocket, serverVars
<1>19. CASE Disconnect \/ HandleClose \/ SocketDrop
  BY <1>3, <1>4, <1>19 DEF Disconnect, HandleClose, SocketDrop, DropEverything, LoseSocket
<1>20. CASE Connect \/ ReconnectTimeout \/ SendHeartbeat \/ HeartbeatReply \/ UNCHANGED vars
  BY <1>5, <1>20 DEF Connect, ReconnectTimeout, SendHeartbeat, HeartbeatReply, vars
<1>21. ASSUME NEW x, \/ JoinTimeout(x) \/ LeaveTimeout(x)
                     \/ \E e \in Events, r \in {x.ref, NoRef} : Dispatch(x, e, r)
       PROVE  ServerTypeOK'
  BY <1>5, <1>21 DEF JoinTimeout, LeaveTimeout, Dispatch
<1>22. ASSUME NEW x, LeaveReply(x) \/ ChannelDownIgnored(x)
       PROVE  ServerTypeOK'
  BY <1>3, <1>4, <1>22 DEF LeaveReply, ChannelDownIgnored, ChannelEnds
<1>i. ASSUME NEW c \in Callers, NEW t \in Topics, SubscribeInterrupted(c, t)
      PROVE  ServerTypeOK'
  BY <1>5, <1>i DEF SubscribeInterrupted
<1> QED
  BY <1>i, <1>9, <1>10, <1>11, <1>13, <1>14, <1>15, <1>16, <1>17, <1>18, <1>19, <1>20,
     <1>21, <1>22 DEF Contained, Consumer, Timers, SocketEvents, Server

\* A teardown that an exception ends leaves everything well typed.
LEMMA TypeAborted ==
  ASSUME TypeOK, Aborted
  PROVE  TypeOK'
<1>1. PICK last \in pendingLeaves :
        DisconnectAborted(last) \/ HandleCloseAborted(last) \/ HeartbeatTimeoutAborted(last)
  BY DEF Aborted
<1>2. /\ UNCHANGED <<refCounter, subVars, callerVars>>
      /\ drainAborted(last) /\ stopHeartbeat
      /\ reconnectTimer' \in {reconnectTimer, FALSE} /\ UNCHANGED reconnectTries
  BY <1>1, Zenon DEF DisconnectAborted, HandleCloseAborted, HeartbeatTimeoutAborted,
                     clearReconnectTimer
<1>3. SubscriptionsTypeOK' /\ CallersTypeOK'
  BY <1>2 DEF TypeOK, SubscriptionsTypeOK, CallersTypeOK, subVars, callerVars, Subscription, Refs
<1>4. RepliesTypeOK'
  BY <1>2 DEF TypeOK, RepliesTypeOK, drainAborted
<1>5. ConnectionTypeOK'
  <2>1. /\ socket' \in {socket, "closed", "none"}
        /\ disconnectedIntentionally' \in {disconnectedIntentionally, TRUE}
        /\ connectionProven' \in {connectionProven, FALSE}
    BY <1>1, Zenon DEF DisconnectAborted, HandleCloseAborted, HeartbeatTimeoutAborted,
                       LoseSocket
  <2> QED
    BY <1>2, <2>1 DEF TypeOK, ConnectionTypeOK, SocketStates, stopHeartbeat
<1>6. ServerTypeOK'
  <2>1. channels' \in {channels, {}} /\ leaves' \in {leaves, {}} /\ (faults' = faults \/ Fault)
    BY <1>1, Zenon DEF DisconnectAborted, HandleCloseAborted, HeartbeatTimeoutAborted,
                       LoseSocket, serverVars
  <2>2. faults' \in 0..MaxFaults
    BY <2>1, BoundsAssumption DEF TypeOK, ServerTypeOK, Fault
  <2>3. Channel' = Channel /\ Leave' = Leave
    BY <1>2 DEF Channel, Leave, Refs
  <2> QED
    BY <2>1, <2>2, <2>3 DEF TypeOK, ServerTypeOK
<1> QED
  BY <1>3, <1>4, <1>5, <1>6 DEF TypeOK

\* Every behaviour of the transport is well typed, and it uses no ref that
\* nextRef has not handed out.
THEOREM TypeCorrect == Spec => []TypeOK
<1>1. TypeOK /\ [Contained]_vars => TypeOK'
  BY ConnectionType, SubscriptionsType, RepliesType, CallersType, ServerType DEF TypeOK
<1>2. TypeOK /\ [Next]_vars => TypeOK'
  BY <1>1, TypeAborted DEF Next
<1> QED
  BY TypeInit, <1>2, PTL DEF Spec

-----------------------------------------------------------------------------
(* Who owes what: the inductive invariant                                  *)

LEMMA OwnershipInit == Init => Ownership
  BY DEF Init, Ownership, Standing, SocketOwnsWire, SocketGone, NeverStranded,
         OpenSocketIsWatched, MapConsistent, LeavesOwed, WaitingOwed, NoSub

\* Steps that leave the socket, its timers and the reconnect timer alone.
LEMMA QuietSteps ==
  ASSUME [Contained]_vars
  PROVE  \/ UNCHANGED <<socket, disconnectedIntentionally, reconnectTimer, hbVars>>
         \/ Connect \/ Disconnect \/ ReconnectTimeout
         \/ HandleOpen \/ SocketDrop \/ HandleClose \/ SendHeartbeat \/ HeartbeatReply
         \/ \E reaction \in ErrorReactions : HeartbeatTimeout(reaction)
         \/ ConnectIfNeeded /\ UNCHANGED <<reconnectTimer, hbVars>>
         \/ DropEverything /\ reconnectTimer' = FALSE
<1> DEFINE Quiet == UNCHANGED <<socket, disconnectedIntentionally, reconnectTimer, hbVars>>
<1>1. ASSUME UNCHANGED <<connVars, hbVars>>
      PROVE  Quiet
  BY <1>1 DEF connVars
<1>2. ASSUME UNCHANGED <<socket, disconnectedIntentionally, reconnectTimer>>, UNCHANGED hbVars
      PROVE  Quiet
  BY <1>2
<1> HIDE DEF Quiet
<1>3. ASSUME NEW c, NEW t, NEW w, SubscribeNew(c, t, w) \/ SubscribeShared(c, t, w)
      PROVE  ConnectIfNeeded /\ UNCHANGED <<reconnectTimer, hbVars>>
  <2>1. CASE SubscribeNew(c, t, w)
    BY <2>1, Zenon DEF SubscribeNew
  <2>2. CASE SubscribeShared(c, t, w)
    BY <2>2, Zenon DEF SubscribeShared
  <2> QED
    BY <1>3, <2>1, <2>2
<1>i. ASSUME NEW c \in Callers, NEW t \in Topics, SubscribeInterrupted(c, t)
      PROVE  ConnectIfNeeded /\ UNCHANGED <<reconnectTimer, hbVars>>
  BY <1>i, Zenon DEF SubscribeInterrupted
<1>4. ASSUME NEW i, NEW s, LeaveTopic(i, s)
      PROVE  Quiet
  BY <1>1, <1>4, Zenon DEF LeaveTopic
<1>5. ASSUME NEW t, Unsubscribe(t)
      PROVE  Quiet
  BY <1>4, <1>5 DEF Unsubscribe
<1>6. ASSUME NEW c, NEW i, RemoveHandler(c, i)
      PROVE  Quiet
  BY <1>1, <1>4, <1>6, Zenon DEF RemoveHandler
<1>7. ASSUME NEW i, RejoinTimeout(i)
      PROVE  Quiet
  BY <1>1, <1>7, Zenon DEF RejoinTimeout
<1>8. ASSUME NEW p, JoinTimeout(p) \/ LeaveTimeout(p)
      PROVE  Quiet
  BY <1>1, <1>8, Zenon DEF JoinTimeout, LeaveTimeout
<1>9. ASSUME NEW ch, NEW x, JoinReply(ch, x)
      PROVE  Quiet
  BY <1>2, <1>9, Zenon DEF JoinReply, Proven
<1>10. ASSUME NEW l, LeaveReply(l)
      PROVE  Quiet
  BY <1>2, <1>10, Zenon DEF LeaveReply, Proven
<1>11. ASSUME NEW ch, NEW e, NEW r, ChannelDownIgnored(ch) \/ Dispatch(ch, e, r)
       PROVE  Quiet
  BY <1>1, <1>11, Zenon DEF ChannelDownIgnored, Dispatch
<1>12. ASSUME NEW ch, NEW reaction, ChannelDown(ch, reaction)
       PROVE  Quiet \/ (DropEverything /\ reconnectTimer' = FALSE)
  BY <1>1, <1>12, Zenon DEF ChannelDown, clearReconnectTimer
<1>13. ASSUME UNCHANGED vars
       PROVE  Quiet
  <2>1. UNCHANGED <<connVars, hbVars>>
    BY <1>13 DEF vars
  <2> QED
    BY <1>1, <2>1
<1>14. CASE Consumer
  BY <1>i, <1>3, <1>5, <1>6, <1>14, Zenon DEF Consumer, Quiet
<1>15. CASE Timers
  BY <1>7, <1>8, <1>15, Zenon DEF Timers, Quiet
<1>16. CASE SocketEvents
  BY <1>16, Zenon DEF SocketEvents
<1>17. CASE Server
  BY <1>9, <1>10, <1>11, <1>12, <1>17, Zenon DEF Server, Quiet
<1> QED
  BY <1>13, <1>14, <1>15, <1>16, <1>17, Zenon DEF Contained, Quiet

LEMMA WatchedStep ==
  ASSUME Ownership, [Contained]_vars
  PROVE  OpenSocketIsWatched'
<1> USE DEF Ownership, OpenSocketIsWatched
<1>1. CASE UNCHANGED <<socket, disconnectedIntentionally, reconnectTimer, hbVars>>
  BY <1>1 DEF hbVars
<1>2. ASSUME ConnectIfNeeded, UNCHANGED hbVars
      PROVE  OpenSocketIsWatched'
  <2>1. socket' = socket \/ (socket = "none" /\ socket' = "connecting")
    BY <1>2, Zenon DEF ConnectIfNeeded
  <2> QED
    BY <1>2, <2>1 DEF hbVars
<1>3. CASE Connect \/ ReconnectTimeout
  BY <1>2, <1>3, Zenon DEF Connect, ReconnectTimeout
<1>4. ASSUME stopHeartbeat, LoseSocket
      PROVE  OpenSocketIsWatched'
  BY <1>4 DEF stopHeartbeat, LoseSocket
<1>5. CASE Disconnect \/ HandleClose \/ DropEverything
  BY <1>4, <1>5, Zenon DEF Disconnect, HandleClose, DropEverything
<1>6. CASE HandleOpen
  BY <1>6 DEF HandleOpen
<1>7. CASE SocketDrop
  <2>1. socket' = "closing" /\ UNCHANGED <<heartbeatTimer, pendingHeartbeat>>
    BY <1>7, Zenon DEF SocketDrop, hbVars
  <2>2. socket \in {"connecting", "open"}
    BY <1>7, Zenon DEF SocketDrop
  <2> QED
    BY <2>1, <2>2
<1>8. CASE SendHeartbeat
  <2>1. UNCHANGED <<socket, heartbeatTimer>> /\ heartbeatTimer
    BY <1>8, Zenon DEF SendHeartbeat, connVars
  <2> QED
    BY <2>1
<1>9. CASE HeartbeatReply
  <2>1. UNCHANGED <<socket, heartbeatTimer>> /\ ~pendingHeartbeat'
    BY <1>9, Zenon DEF HeartbeatReply, Proven
  <2> QED
    BY <2>1
<1>10. ASSUME NEW reaction, HeartbeatTimeout(reaction)
       PROVE  OpenSocketIsWatched'
  <2>1. \/ stopHeartbeat /\ LoseSocket
        \/ ~pendingHeartbeat' /\ UNCHANGED <<socket, heartbeatTimer>>
    BY <1>10, Zenon DEF HeartbeatTimeout, DropEverything, connVars
  <2> QED
    BY <1>4, <2>1
<1> QED
  BY <1>1, <1>2, <1>3, <1>5, <1>6, <1>7, <1>8, <1>9, <1>10, QuietSteps, Zenon

LEMMA SocketOwnsWireStep ==
  ASSUME Standing, [Contained]_vars
  PROVE  SocketOwnsWire'
<1> USE DEF Standing, SocketOwnsWire
<1>1. ASSUME LoseSocket
      PROVE  SocketOwnsWire'
  BY <1>1 DEF LoseSocket
<1>2. ASSUME ConnectIfNeeded, UNCHANGED leaves, isConnected \/ UNCHANGED channels
      PROVE  SocketOwnsWire'
  BY <1>2 DEF ConnectIfNeeded, isConnected
<1>3. ASSUME UNCHANGED <<socket, disconnectedIntentionally>>,
             isConnected \/ UNCHANGED serverVars
      PROVE  SocketOwnsWire'
  BY <1>3 DEF isConnected, serverVars
<1>4. ASSUME UNCHANGED <<socket, disconnectedIntentionally>>, socket = "open"
      PROVE  SocketOwnsWire'
  BY <1>4
<1>5. ASSUME UNCHANGED connVars, UNCHANGED serverVars
      PROVE  SocketOwnsWire'
  BY <1>3, <1>5 DEF connVars
<1>6. ASSUME UNCHANGED connVars, isConnected
      PROVE  SocketOwnsWire'
  BY <1>3, <1>6 DEF connVars
<1>7. CASE Connect \/ ReconnectTimeout
  BY <1>2, <1>7, Zenon DEF Connect, ReconnectTimeout, serverVars
<1>8. CASE Disconnect \/ HandleClose
  BY <1>1, <1>8, Zenon DEF Disconnect, DropEverything, HandleClose
<1>9. CASE SocketDrop
  <2>1. socket # "none" /\ socket' = "closing" /\ channels' = {} /\ leaves' = {}
    BY <1>9 DEF SocketDrop
  <2>2. UNCHANGED disconnectedIntentionally
    BY <1>9, Zenon DEF SocketDrop
  <2> QED
    BY <2>1, <2>2
<1>10. CASE HandleOpen
  BY <1>10 DEF HandleOpen
<1>11. CASE SendHeartbeat
  BY <1>5, <1>11, Zenon DEF SendHeartbeat
<1>12. ASSUME NEW reaction, HeartbeatTimeout(reaction)
       PROVE  SocketOwnsWire'
  BY <1>1, <1>5, <1>12, Zenon DEF HeartbeatTimeout, DropEverything
<1>13. ASSUME NEW c, NEW t, NEW w, SubscribeNew(c, t, w)
       PROVE  SocketOwnsWire'
  BY <1>2, <1>13, Zenon DEF SubscribeNew
<1>i. ASSUME NEW c \in Callers, NEW t \in Topics, SubscribeInterrupted(c, t)
      PROVE  SocketOwnsWire'
  BY <1>2, <1>i, Zenon DEF SubscribeInterrupted, serverVars
<1>14. ASSUME NEW c, NEW t, NEW w, SubscribeShared(c, t, w)
       PROVE  SocketOwnsWire'
  <2>1. CASE isConnected
    <3>1. UNCHANGED <<socket, disconnectedIntentionally>>
      BY <1>14, <2>1 DEF SubscribeShared, ConnectIfNeeded, isConnected
    <3> QED
      BY <1>3, <2>1, <3>1
  <2>2. CASE ~isConnected
    BY <1>2, <1>14, <2>2, Zenon DEF SubscribeShared, WidensOnline
  <2> QED
    BY <2>1, <2>2
<1>15. ASSUME NEW i, NEW s, LeaveTopic(i, s)
       PROVE  SocketOwnsWire'
  BY <1>5, <1>6, <1>15, Zenon DEF LeaveTopic
<1>16. ASSUME NEW t, Unsubscribe(t)
       PROVE  SocketOwnsWire'
  BY <1>15, <1>16 DEF Unsubscribe
<1>17. ASSUME NEW c, NEW i, RemoveHandler(c, i)
       PROVE  SocketOwnsWire'
  BY <1>5, <1>15, <1>17, Zenon DEF RemoveHandler
<1>18. ASSUME NEW i, RejoinTimeout(i)
       PROVE  SocketOwnsWire'
  BY <1>5, <1>6, <1>18, Zenon DEF RejoinTimeout, serverVars
<1>19. ASSUME NEW p, JoinTimeout(p) \/ LeaveTimeout(p)
       PROVE  SocketOwnsWire'
  BY <1>5, <1>19, Zenon DEF JoinTimeout, LeaveTimeout
<1>20. ASSUME NEW ch, NEW e, NEW r, Dispatch(ch, e, r)
       PROVE  SocketOwnsWire'
  BY <1>5, <1>20, Zenon DEF Dispatch
<1>21. CASE HeartbeatReply
  BY <1>4, <1>21, Zenon DEF HeartbeatReply, Proven, isConnected
<1>22. ASSUME NEW ch \in channels, NEW x, JoinReply(ch, x)
       PROVE  SocketOwnsWire'
  BY <1>4, <1>22, Zenon DEF JoinReply, Proven
<1>23. ASSUME NEW l \in leaves, LeaveReply(l)
       PROVE  SocketOwnsWire'
  BY <1>4, <1>23, Zenon DEF LeaveReply, Proven
<1>24. ASSUME NEW ch \in channels, ChannelDownIgnored(ch)
       PROVE  SocketOwnsWire'
  BY <1>6, <1>24, Zenon DEF ChannelDownIgnored, isConnected
<1>25. ASSUME NEW ch \in channels, NEW reaction, ChannelDown(ch, reaction)
       PROVE  SocketOwnsWire'
  BY <1>1, <1>6, <1>25, Zenon DEF ChannelDown, DropEverything, isConnected
<1>26. CASE UNCHANGED vars
  BY <1>5, <1>26 DEF vars
<1>27. CASE Consumer
  BY <1>i, <1>7, <1>8, <1>13, <1>14, <1>16, <1>17, <1>27, Zenon DEF Consumer
<1>28. CASE Timers
  BY <1>7, <1>11, <1>12, <1>18, <1>19, <1>28, Zenon DEF Timers
<1>29. CASE SocketEvents
  BY <1>8, <1>9, <1>10, <1>29, Zenon DEF SocketEvents
<1>30. CASE Server
  BY <1>20, <1>21, <1>22, <1>23, <1>24, <1>25, <1>30, Zenon DEF Server
<1> QED
  BY <1>26, <1>27, <1>28, <1>29, <1>30, Zenon DEF Contained

\* How a step may change the subscriptions: it creates one, gives one up, or
\* leaves every topic where it is or drops it.
LEMMA SubscriptionSteps ==
  ASSUME TypeOK, MapConsistent, [Contained]_vars
  PROVE  \/ \E c \in Callers, t \in Topics, w \in Requests : SubscribeNew(c, t, w)
         \/ \E i \in Live, s \in Subscription :
               s.topic = sub[i].topic /\ LeaveTopic(i, s)
         \/ /\ UNCHANGED subCount
            /\ \A t \in Topics : subscriptions'[t] \in {subscriptions[t], NoSub}
            /\ \A i \in SubIds : sub'[i].topic = sub[i].topic
<1> DEFINE Same == /\ UNCHANGED subCount
                   /\ \A t \in Topics : subscriptions'[t] \in {subscriptions[t], NoSub}
                   /\ \A i \in SubIds : sub'[i].topic = sub[i].topic
<1>a. /\ subscriptions \in [Topics -> SubIds \cup {NoSub}]
      /\ sub \in [SubIds -> Subscription]
  BY DEF TypeOK, SubscriptionsTypeOK
<1>b. ASSUME NEW i \in SubIds
      PROVE  DOMAIN sub[i] = {"topic", "joinRef", "joined", "filter", "rejoinTimer",
                              "rejoinTries", "callbacks", "handlers"}
  BY <1>a DEF Subscription
<1>1. ASSUME UNCHANGED subVars
      PROVE  Same
  BY <1>1 DEF subVars
<1>2. ASSUME subscriptions' = [t \in Topics |-> NoSub] \/ UNCHANGED subscriptions,
             UNCHANGED subCount,
             \A i \in SubIds : sub'[i].topic = sub[i].topic
      PROVE  Same
  BY <1>2
<1> HIDE DEF Same
<1>3. \A i \in SubIds : WithoutRejoinTimers[i].topic = sub[i].topic
  BY <1>a, <1>b DEF WithoutRejoinTimers
<1>4. CASE Disconnect
  BY <1>2, <1>3, <1>4, Zenon DEF Disconnect, DropEverything
<1>5. ASSUME NEW reaction, HeartbeatTimeout(reaction)
      PROVE  Same
  <2>1. \/ UNCHANGED subVars
        \/ /\ subscriptions' = [t \in Topics |-> NoSub]
           /\ UNCHANGED subCount
           /\ sub' = WithoutRejoinTimers
    BY <1>5, Zenon DEF HeartbeatTimeout, DropEverything
  <2> QED
    BY <1>1, <1>2, <1>3, <2>1
<1>6. ASSUME \/ Connect \/ ReconnectTimeout \/ SendHeartbeat
             \/ SocketDrop \/ HandleClose \/ HeartbeatReply
      PROVE  Same
  <2>1. CASE Connect \/ ReconnectTimeout
    BY <1>1, <2>1, Zenon DEF Connect, ReconnectTimeout
  <2>2. CASE SendHeartbeat \/ HeartbeatReply
    BY <1>1, <2>2, Zenon DEF SendHeartbeat, HeartbeatReply
  <2>3. CASE SocketDrop \/ HandleClose
    BY <1>1, <2>3, Zenon DEF SocketDrop, HandleClose
  <2> QED
    BY <1>6, <2>1, <2>2, <2>3
<1>7. CASE HandleOpen
  <2>1. \A i \in SubIds : sub'[i].topic = sub[i].topic
    BY <1>a, <1>b, <1>7 DEF HandleOpen, RejoinedAtOpen
  <2> QED
    BY <1>2, <1>7, <2>1, Zenon DEF HandleOpen
<1>8. ASSUME NEW c, NEW t \in Topics, NEW w, SubscribeShared(c, t, w)
      PROVE  Same
  <2>1. subscriptions[t] \in SubIds
    BY <1>a, <1>8 DEF SubscribeShared
  <2> DEFINE i == subscriptions[t]
             s == [sub[i] EXCEPT !.callbacks = @ \cup {c}, !.handlers = @ \cup {c},
                                 !.filter = sub[i].filter \cup w]
             r == IF sub[i].joinRef = NoRef THEN refCounter + 1 ELSE refCounter + 2
             rejoined == [s EXCEPT !.joined = FALSE, !.joinRef = r]
  <2>3. s.topic = sub[i].topic /\ rejoined.topic = sub[i].topic
    BY <1>a, <1>b, <2>1
  <2> HIDE DEF rejoined
  <2>4. sub' = [sub EXCEPT ![i] = s] \/ sub' = [sub EXCEPT ![i] = rejoined]
    BY <1>8, Zenon DEF SubscribeShared, rejoined
  <2>2. \A j \in SubIds : sub'[j].topic = sub[j].topic
    <3> HIDE DEF i, s
    <3> QED
      BY <1>a, <2>1, <2>3, <2>4
  <2> QED
    BY <1>2, <1>8, <2>2, Zenon DEF SubscribeShared
<1>i. ASSUME NEW c \in Callers, NEW t \in Topics, SubscribeInterrupted(c, t)
      PROVE  Same
  <2>1. subscriptions[t] \in SubIds
    BY <1>a, <1>i DEF SubscribeInterrupted
  <2> DEFINE i == subscriptions[t]
             s == [sub[i] EXCEPT !.callbacks = @ \cup {c}]
  <2>2. s.topic = sub[i].topic
    BY <1>a, <1>b, <2>1
  <2>3. sub' = [sub EXCEPT ![i] = s]
    BY <1>i DEF SubscribeInterrupted
  <2>4. \A j \in SubIds : sub'[j].topic = sub[j].topic
    <3> HIDE DEF i, s
    <3> QED
      BY <1>a, <2>1, <2>2, <2>3
  <2> QED
    BY <1>2, <1>i, <2>4, Zenon DEF SubscribeInterrupted
<1>9. ASSUME NEW t \in Topics, Unsubscribe(t)
      PROVE  \E i \in Live, s \in Subscription : s.topic = sub[i].topic /\ LeaveTopic(i, s)
  <2>1. subscriptions[t] \in Live
    BY <1>a, <1>9 DEF Unsubscribe, MapConsistent, Live
  <2> QED
    BY <1>a, <1>9, <2>1 DEF Unsubscribe, Live
<1>10. ASSUME NEW c \in Callers, NEW i \in SubIds, RemoveHandler(c, i)
       PROVE  \/ Same
              \/ \E j \in Live, s \in Subscription : s.topic = sub[j].topic /\ LeaveTopic(j, s)
  <2> DEFINE s == [sub[i] EXCEPT !.handlers = @ \ {c}]
  <2>1. s \in Subscription /\ s.topic = sub[i].topic
    BY <1>a DEF Subscription
  <2>2. i \in Live
    BY <1>10 DEF RemoveHandler
  <2>3. CASE s.handlers = {}
    BY <1>10, <2>1, <2>2, <2>3, Zenon DEF RemoveHandler
  <2>4. CASE s.handlers # {}
    <3>1. UNCHANGED <<subscriptions, subCount>> /\ sub' = [sub EXCEPT ![i] = s]
      BY <1>10, <2>4, Zenon DEF RemoveHandler
    <3>2. \A j \in SubIds : sub'[j].topic = sub[j].topic
      BY <1>a, <2>1, <3>1
    <3> QED
      BY <1>2, <3>1, <3>2
  <2> QED
    BY <2>3, <2>4
<1>11. ASSUME NEW i \in SubIds, RejoinTimeout(i)
       PROVE  Same
  <2>1. \A j \in SubIds : sub'[j].topic = sub[j].topic
    BY <1>a, <1>b, <1>11 DEF RejoinTimeout
  <2> QED
    BY <1>2, <1>11, <2>1, Zenon DEF RejoinTimeout
<1>12. ASSUME NEW p, JoinTimeout(p) \/ LeaveTimeout(p)
       PROVE  Same
  BY <1>1, <1>12, Zenon DEF JoinTimeout, LeaveTimeout
<1>13. ASSUME NEW ch, NEW x, JoinReply(ch, x)
       PROVE  Same
  <2>1. \A j \in SubIds : JoinOutcome(j, x).topic = sub[j].topic
    BY <1>a, <1>b DEF JoinOutcome
  <2>2. UNCHANGED sub \/ sub' = [sub EXCEPT ![ch.sub] = JoinOutcome(ch.sub, x)]
    BY <1>13, Zenon DEF JoinReply
  <2>3. \A j \in SubIds : sub'[j].topic = sub[j].topic
    BY <1>a, <2>1, <2>2
  <2> QED
    BY <1>2, <1>13, <2>3, Zenon DEF JoinReply
<1>14. ASSUME NEW l, LeaveReply(l) \/ ChannelDownIgnored(l)
       PROVE  Same
  BY <1>1, <1>14, Zenon DEF LeaveReply, ChannelDownIgnored
<1>15. ASSUME NEW ch, NEW e, NEW r, Dispatch(ch, e, r)
       PROVE  Same
  BY <1>1, <1>15, Zenon DEF Dispatch
<1>16. ASSUME NEW ch \in channels, NEW reaction, ChannelDown(ch, reaction)
       PROVE  Same
  <2> DEFINE i == subscriptions[ch.topic]
             down == [sub[i] EXCEPT !.joined = FALSE]
  <2>1. ch.topic \in Topics /\ i \in SubIds
    BY <1>a, <1>16 DEF ChannelDown, TypeOK, ServerTypeOK, Channel
  <2>2. down.topic = sub[i].topic /\ scheduleRejoin(down).topic = sub[i].topic
    BY <1>a, <1>b, <2>1 DEF scheduleRejoin
  <2> HIDE DEF down
  <2>3. \/ sub' = [sub EXCEPT ![i] = down]
        \/ sub' = [sub EXCEPT ![i] = scheduleRejoin(down)]
        \/ sub' = [WithoutRejoinTimers EXCEPT ![i] = scheduleRejoin(down)]
    BY <1>16, Zenon DEF ChannelDown, down
  <2>4. WithoutRejoinTimers \in [SubIds -> {WithoutRejoinTimers[j] : j \in SubIds}]
    BY DEF WithoutRejoinTimers
  <2>5. \A j \in SubIds : sub'[j].topic = sub[j].topic
    <3> HIDE DEF i
    <3> QED
      BY <1>3, <1>a, <2>1, <2>2, <2>3, <2>4
  <2> QED
    BY <1>2, <1>16, <2>5, Zenon DEF ChannelDown, DropEverything
<1>17. ASSUME UNCHANGED vars
       PROVE  Same
  <2>1. UNCHANGED subVars
    BY <1>17 DEF vars
  <2> QED
    BY <1>1, <2>1
<1>18. CASE Consumer
  BY <1>i, <1>4, <1>6, <1>8, <1>9, <1>10, <1>18, Zenon DEF Consumer, Same
<1>19. CASE Timers
  BY <1>5, <1>6, <1>11, <1>12, <1>19, Zenon DEF Timers, Same
<1>20. CASE SocketEvents
  BY <1>6, <1>7, <1>20, Zenon DEF SocketEvents, Same
<1>21. CASE Server
  BY <1>6, <1>13, <1>14, <1>15, <1>16, <1>21, Zenon DEF Server, Same
<1> QED
  BY <1>17, <1>18, <1>19, <1>20, <1>21, Zenon DEF Contained, Same

\* How a step may change who waits for a leave: a topic is left, one leave is
\* answered or times out, or all of them are settled with their socket.
LEMMA ReplySteps ==
  ASSUME TypeOK, MapConsistent, [Contained]_vars
  PROVE  \/ \E i \in Live, s \in Subscription :
               s.topic = sub[i].topic /\ LeaveTopic(i, s)
         \/ \E l \in leaves : LeaveReply(l)
         \/ \E p \in pendingLeaves : LeaveTimeout(p)
         \/ clearPendingReplies
         \/ UNCHANGED <<pendingLeaves, pendingUnsubscribes, unsub>>
<1> DEFINE Same == UNCHANGED <<pendingLeaves, pendingUnsubscribes, unsub>>
<1>1. ASSUME UNCHANGED replyVars
      PROVE  Same
  BY <1>1 DEF replyVars
<1>2. ASSUME UNCHANGED <<pendingLeaves, pendingUnsubscribes, unsub>>
      PROVE  Same
  BY <1>2
<1> HIDE DEF Same
<1>3. CASE Disconnect \/ HandleClose
  BY <1>3, Zenon DEF Disconnect, DropEverything, HandleClose
<1>4. ASSUME NEW reaction, HeartbeatTimeout(reaction)
      PROVE  Same \/ clearPendingReplies
  BY <1>1, <1>4, Zenon DEF HeartbeatTimeout, DropEverything
<1>5. ASSUME Connect \/ ReconnectTimeout
      PROVE  Same
  BY <1>1, <1>5, Zenon DEF Connect, ReconnectTimeout
<1>6. ASSUME SendHeartbeat \/ HeartbeatReply
      PROVE  Same
  BY <1>1, <1>6, Zenon DEF SendHeartbeat, HeartbeatReply
<1>7. ASSUME SocketDrop
      PROVE  Same
  BY <1>1, <1>7, Zenon DEF SocketDrop
<1>8. ASSUME HandleOpen
      PROVE  Same
  BY <1>2, <1>8, Zenon DEF HandleOpen
<1>9. ASSUME NEW c, NEW t, NEW w, SubscribeNew(c, t, w)
      PROVE  Same
  BY <1>2, <1>9, Zenon DEF SubscribeNew
<1>10. ASSUME NEW c, NEW t, NEW w, SubscribeShared(c, t, w)
       PROVE  Same
  BY <1>2, <1>10, Zenon DEF SubscribeShared
<1>i. ASSUME NEW c \in Callers, NEW t \in Topics, SubscribeInterrupted(c, t)
      PROVE  Same
  BY <1>1, <1>i, Zenon DEF SubscribeInterrupted
<1>11. ASSUME NEW t \in Topics, Unsubscribe(t)
        PROVE  \E i \in Live, s \in Subscription :
                s.topic = sub[i].topic /\ LeaveTopic(i, s)
  BY <1>11 DEF Unsubscribe, MapConsistent, Live, TypeOK, SubscriptionsTypeOK
<1>12. ASSUME NEW c \in Callers, NEW i \in SubIds, RemoveHandler(c, i)
       PROVE  \/ Same
              \/ \E j \in Live, s \in Subscription :
                    s.topic = sub[j].topic /\ LeaveTopic(j, s)
  <2> DEFINE s == [sub[i] EXCEPT !.handlers = @ \ {c}]
  <2>1. s \in Subscription /\ s.topic = sub[i].topic
    BY DEF Subscription, TypeOK, SubscriptionsTypeOK
  <2> QED
    BY <1>1, <1>12, <2>1, Zenon DEF RemoveHandler
<1>13. ASSUME NEW i, RejoinTimeout(i)
       PROVE  Same
  BY <1>2, <1>13, Zenon DEF RejoinTimeout
<1>14. ASSUME NEW p, JoinTimeout(p)
       PROVE  Same
  BY <1>2, <1>14, Zenon DEF JoinTimeout
<1>15. ASSUME NEW ch, NEW x, JoinReply(ch, x)
       PROVE  Same
  BY <1>2, <1>15, Zenon DEF JoinReply
<1>16. ASSUME NEW ch, NEW e, NEW r, ChannelDownIgnored(ch) \/ Dispatch(ch, e, r)
       PROVE  Same
  BY <1>1, <1>16, Zenon DEF ChannelDownIgnored, Dispatch
<1>17. ASSUME NEW ch, NEW reaction, ChannelDown(ch, reaction)
       PROVE  Same \/ clearPendingReplies
  BY <1>1, <1>17, Zenon DEF ChannelDown, DropEverything
<1>18. ASSUME UNCHANGED vars
       PROVE  Same
  <2>1. UNCHANGED replyVars
    BY <1>18 DEF vars
  <2> QED
    BY <1>1, <2>1
<1>19. CASE Consumer
  BY <1>i, <1>3, <1>5, <1>9, <1>10, <1>11, <1>12, <1>19, Zenon DEF Consumer, Same
<1>20. CASE Timers
  BY <1>4, <1>5, <1>6, <1>13, <1>14, <1>20, Zenon DEF Timers, Same
<1>21. CASE SocketEvents
  BY <1>3, <1>7, <1>8, <1>21, Zenon DEF SocketEvents, Same
<1>22. CASE Server
  BY <1>6, <1>15, <1>16, <1>17, <1>22, Zenon DEF Server, Same
<1> QED
  BY <1>18, <1>19, <1>20, <1>21, <1>22, Zenon DEF Contained, Same

\* Nobody who holds a topic was asked to unsubscribe it: a step settles only
\* what is waiting.
LEMMA MapConsistentStep ==
  ASSUME TypeOK, Standing, [Contained]_vars
  PROVE  MapConsistent'
<1>a. /\ subscriptions \in [Topics -> SubIds \cup {NoSub}]
      /\ sub \in [SubIds -> Subscription]
      /\ subCount \in 0..MaxSubs
      /\ unsub \in [SubIds -> {"no", "waiting", "done"}]
      /\ MaxSubs \in Nat
  BY BoundsAssumption DEF TypeOK, SubscriptionsTypeOK, RepliesTypeOK
<1>b. /\ MapConsistent
      /\ \A i \in pendingUnsubscribes : unsub[i] = "waiting"
      /\ \A p \in pendingLeaves : p.sub \in pendingUnsubscribes
  BY DEF Standing, LeavesOwed
<1>1. ASSUME NEW c \in Callers, NEW t \in Topics, NEW w \in Requests, SubscribeNew(c, t, w)
      PROVE  MapConsistent'
  <2> DEFINE i == subCount + 1
  <2>1. PICK s : s.topic = t /\ sub' = [sub EXCEPT ![i] = s]
    BY <1>1 DEF SubscribeNew
  <2>2. /\ i \in SubIds
        /\ subCount' = i
        /\ subscriptions' = [subscriptions EXCEPT ![t] = i]
        /\ UNCHANGED unsub
    BY <1>1, <1>a DEF SubscribeNew, SubIds
  <2>3. \A x \in Topics : subscriptions[x] # NoSub => subscriptions[x] # i
    BY <1>a, <1>b DEF MapConsistent, SubIds
  <2>4. unsub[i] = "no"
    BY <1>a, <1>b, <2>2 DEF MapConsistent, SubIds
  <2>5. ASSUME NEW x \in Topics, subscriptions'[x] # NoSub
        PROVE  /\ sub'[subscriptions'[x]].topic = x
               /\ subscriptions'[x] <= subCount'
               /\ unsub'[subscriptions'[x]] = "no"
    <3>1. CASE x = t
      BY <1>a, <2>1, <2>2, <2>4, <3>1 DEF SubIds
    <3>2. CASE x # t
      BY <1>a, <1>b, <2>1, <2>2, <2>3, <2>5, <3>2 DEF MapConsistent, SubIds
    <3> QED
      BY <3>1, <3>2
  <2>6. \A j \in SubIds : j > subCount' => unsub'[j] = "no"
    BY <1>a, <1>b, <2>2 DEF MapConsistent, SubIds
  <2> QED
    BY <2>5, <2>6 DEF MapConsistent
<1>2. ASSUME NEW i \in Live, NEW s \in Subscription, s.topic = sub[i].topic,
             LeaveTopic(i, s)
      PROVE  MapConsistent'
  <2>1. i \in SubIds /\ subscriptions[sub[i].topic] = i
    BY DEF Live
  <2>2. i # NoSub /\ sub[i].topic \in Topics
    BY <1>a, <2>1 DEF SubIds, NoSub, Subscription
  <2>3. /\ subscriptions' = [subscriptions EXCEPT ![sub[i].topic] = NoSub]
        /\ UNCHANGED subCount
        /\ \A j \in SubIds : j # i => unsub'[j] = unsub[j]
    BY <1>a, <1>2, <2>1 DEF LeaveTopic
  <2>4. \A j \in SubIds : sub'[j].topic = sub[j].topic
    <3>1. sub' = [sub EXCEPT ![i] = [s EXCEPT !.rejoinTimer = FALSE]]
      BY <1>2, Zenon DEF LeaveTopic
    <3>2. [s EXCEPT !.rejoinTimer = FALSE].topic = sub[i].topic
      BY <1>2 DEF Subscription
    <3> QED
      BY <1>a, <2>1, <3>1, <3>2
  <2>5. \A x \in Topics : subscriptions'[x] # NoSub =>
           subscriptions'[x] = subscriptions[x] /\ subscriptions[x] # i
    BY <1>a, <1>b, <2>1, <2>2, <2>3 DEF MapConsistent
  <2>6. i <= subCount
    BY <1>b, <2>1, <2>2 DEF MapConsistent
  <2> QED
    BY <1>a, <1>b, <2>3, <2>4, <2>5, <2>6 DEF MapConsistent, SubIds
<1>3. ASSUME UNCHANGED subCount,
             \A t \in Topics : subscriptions'[t] \in {subscriptions[t], NoSub},
             \A i \in SubIds : sub'[i].topic = sub[i].topic,
             \A i \in SubIds : unsub[i] = "no" => unsub'[i] = "no"
      PROVE  MapConsistent'
  BY <1>3, <1>a, <1>b DEF MapConsistent, SubIds
<1>4. CASE \E l \in leaves : LeaveReply(l)
  <2>1. PICK l \in leaves : LeaveReply(l)
    BY <1>4
  <2>2. \A i \in SubIds : unsub[i] = "no" => unsub'[i] = "no"
    BY <1>a, <1>b, <2>1 DEF LeaveReply
  <2>3. UNCHANGED subVars
    BY <2>1, Zenon DEF LeaveReply
  <2> QED
    BY <1>3, <2>2, <2>3 DEF subVars
<1>5. CASE \E p \in pendingLeaves : LeaveTimeout(p)
  <2>1. PICK p \in pendingLeaves : LeaveTimeout(p)
    BY <1>5
  <2>2. \A i \in SubIds : unsub[i] = "no" => unsub'[i] = "no"
    BY <1>a, <1>b, <2>1 DEF LeaveTimeout
  <2>3. UNCHANGED subVars
    BY <2>1, Zenon DEF LeaveTimeout
  <2> QED
    BY <1>3, <2>2, <2>3 DEF subVars
<1>6. ASSUME clearPendingReplies
      PROVE  \A i \in SubIds : unsub[i] = "no" => unsub'[i] = "no"
  BY <1>6, <1>a, <1>b DEF clearPendingReplies
<1>7. ASSUME UNCHANGED <<pendingLeaves, pendingUnsubscribes, unsub>>
      PROVE  \A i \in SubIds : unsub[i] = "no" => unsub'[i] = "no"
  BY <1>7
<1>8. ASSUME ~MapConsistent'
      PROVE  /\ UNCHANGED subCount
             /\ \A t \in Topics : subscriptions'[t] \in {subscriptions[t], NoSub}
             /\ \A i \in SubIds : sub'[i].topic = sub[i].topic
  BY <1>1, <1>2, <1>8, <1>b, SubscriptionSteps, Zenon
<1>9. ASSUME ~MapConsistent'
      PROVE  \A i \in SubIds : unsub[i] = "no" => unsub'[i] = "no"
  BY <1>2, <1>4, <1>5, <1>6, <1>7, <1>9, <1>b, ReplySteps, Zenon
<1> QED
  BY <1>3, <1>8, <1>9

\* A socket that is there goes only together with everything that waits for it.
LEMMA SocketSteps ==
  ASSUME [Contained]_vars, ~clearPendingReplies, socket \notin {"none", "connecting"}
  PROVE  socket' = "closing" \/ UNCHANGED socket
<1>1. CASE UNCHANGED <<socket, disconnectedIntentionally, reconnectTimer, hbVars>>
  BY <1>1
<1>2. ASSUME ConnectIfNeeded
      PROVE  UNCHANGED socket
  BY <1>2 DEF ConnectIfNeeded
<1>3. ASSUME Connect \/ ReconnectTimeout
      PROVE  UNCHANGED socket
  BY <1>2, <1>3, Zenon DEF Connect, ReconnectTimeout
<1>4. ASSUME SendHeartbeat \/ HeartbeatReply
      PROVE  UNCHANGED socket
  <2>1. SendHeartbeat => UNCHANGED connVars
    BY Zenon DEF SendHeartbeat
  <2>2. HeartbeatReply => UNCHANGED socket
    BY Zenon DEF HeartbeatReply, Proven
  <2> QED
    BY <1>4, <2>1, <2>2 DEF connVars
<1>5. ~Disconnect /\ ~HandleClose /\ ~DropEverything
  BY Zenon DEF Disconnect, HandleClose, DropEverything
<1>6. ASSUME NEW reaction, HeartbeatTimeout(reaction)
      PROVE  UNCHANGED socket
  <2>1. UNCHANGED connVars
    BY <1>5, <1>6, Zenon DEF HeartbeatTimeout
  <2> QED
    BY <2>1 DEF connVars
<1>7. ~HandleOpen
  BY DEF HandleOpen
<1>8. SocketDrop => socket' = "closing"
  BY Zenon DEF SocketDrop
<1> QED
  BY <1>1, <1>2, <1>3, <1>4, <1>5, <1>6, <1>7, <1>8, QuietSteps

\* A leave keeps its reply timer until it is settled, and a socket keeps its
\* leaves until it goes.
LEMMA LeavesOwedStep ==
  ASSUME TypeOK, Standing, [Contained]_vars
  PROVE  LeavesOwed'
<1>a. /\ unsub \in [SubIds -> {"no", "waiting", "done"}]
      /\ pendingLeaves \subseteq PendingReply
      /\ pendingUnsubscribes \subseteq SubIds
  BY DEF TypeOK, RepliesTypeOK
<1>b. LeavesOwed /\ MapConsistent
  BY DEF Standing
<1>1. CASE clearPendingReplies
  BY <1>1, <1>a, <1>b DEF clearPendingReplies, LeavesOwed
<1>2. CASE \E i \in Live, s \in Subscription : s.topic = sub[i].topic /\ LeaveTopic(i, s)
  <2>1. PICK i \in Live, s \in Subscription : s.topic = sub[i].topic /\ LeaveTopic(i, s)
    BY <1>2
  <2>2. i \in SubIds /\ unsub[i] = "no"
    BY <1>b DEF MapConsistent, Live, SubIds, NoSub, TypeOK, SubscriptionsTypeOK, Subscription
  <2>3. UNCHANGED socket
    <3>1. UNCHANGED connVars
      BY <2>1, Zenon DEF LeaveTopic
    <3> QED
      BY <3>1 DEF connVars
  <2>4. CASE isConnected /\ sub[i].joinRef # NoRef
    <3> DEFINE p == [ref |-> refCounter + 1, sub |-> i]
    <3>1. /\ pendingUnsubscribes' = pendingUnsubscribes \cup {i}
          /\ pendingLeaves' = pendingLeaves \cup {p}
          /\ unsub' = [unsub EXCEPT ![i] = "waiting"]
      BY <2>1, <2>4, Zenon DEF LeaveTopic
    <3>2. p.sub = i
      OBVIOUS
    <3> HIDE DEF p
    <3> QED
      BY <1>a, <1>b, <2>2, <2>3, <2>4, <3>1, <3>2 DEF LeavesOwed, isConnected
  <2>5. CASE ~(isConnected /\ sub[i].joinRef # NoRef)
    <3>1. /\ UNCHANGED <<pendingUnsubscribes, pendingLeaves>>
          /\ unsub' = [unsub EXCEPT ![i] = "done"]
      BY <2>1, <2>5, Zenon DEF LeaveTopic
    <3> QED
      BY <1>a, <1>b, <2>2, <2>3, <3>1 DEF LeavesOwed
  <2> QED
    BY <2>4, <2>5
<1>3. CASE \E l \in leaves : LeaveReply(l)
  <2>1. PICK l \in leaves : LeaveReply(l)
    BY <1>3
  <2> DEFINE settled == {p \in pendingLeaves : p.ref = l.ref}
             done == {p.sub : p \in settled}
  <2>2. /\ pendingLeaves' = pendingLeaves \ settled
        /\ pendingUnsubscribes' = pendingUnsubscribes \ done
        /\ unsub' = [i \in SubIds |-> IF i \in done THEN "done" ELSE unsub[i]]
    BY <2>1, Zenon DEF LeaveReply
  <2>3. UNCHANGED socket
    BY <2>1, Zenon DEF LeaveReply, Proven
  <2>4. settled \subseteq pendingLeaves
    OBVIOUS
  <2> HIDE DEF settled
  <2> QED
    BY <1>a, <1>b, <2>2, <2>3, <2>4 DEF LeavesOwed
<1>4. CASE \E p \in pendingLeaves : LeaveTimeout(p)
  <2>1. PICK p \in pendingLeaves : LeaveTimeout(p)
    BY <1>4
  <2>2. /\ pendingLeaves' = pendingLeaves \ {p}
        /\ pendingUnsubscribes' = pendingUnsubscribes \ {p.sub}
        /\ unsub' = [unsub EXCEPT ![p.sub] = "done"]
    BY <2>1, Zenon DEF LeaveTimeout
  <2>3. UNCHANGED socket
    <3>1. UNCHANGED connVars
      BY <2>1, Zenon DEF LeaveTimeout
    <3> QED
      BY <3>1 DEF connVars
  <2> QED
    BY <1>a, <1>b, <2>2, <2>3 DEF LeavesOwed
<1>5. CASE UNCHANGED <<pendingLeaves, pendingUnsubscribes, unsub>> /\ ~clearPendingReplies
  <2>1. socket \in {"open", "closing"} => socket' \in {"open", "closing"}
    BY <1>5, SocketSteps
  <2> QED
    BY <1>5, <1>b, <2>1 DEF LeavesOwed
<1> QED
  BY <1>1, <1>2, <1>3, <1>4, <1>5, <1>b, ReplySteps

\* Losing the last way to a connection needs somebody to give up every topic.
LEMMA StrandedStep ==
  ASSUME TypeOK, Ownership, [Contained]_vars
  PROVE  NeverStranded'
<1> DEFINE Held == \E t \in Topics : subscriptions[t] # NoSub
<1>a. /\ Held => socket # "none" \/ reconnectTimer
      /\ socket # "closed"
  BY DEF Ownership, NeverStranded, SocketGone
<1>1. ASSUME ConnectIfNeeded
      PROVE  NeverStranded'
  BY <1>1, <1>a DEF ConnectIfNeeded, NeverStranded
<1>2. CASE \E c \in Callers, t \in Topics, w \in Requests : SubscribeNew(c, t, w)
  BY <1>1, <1>2, Zenon DEF SubscribeNew
<1>3. ASSUME ~ \E c \in Callers, t \in Topics, w \in Requests : SubscribeNew(c, t, w)
      PROVE  Held' => Held
  <2>1. MapConsistent /\ subscriptions \in [Topics -> SubIds \cup {NoSub}]
    BY DEF Ownership, Standing, TypeOK, SubscriptionsTypeOK
  <2>2. CASE \E i \in Live, s \in Subscription : LeaveTopic(i, s)
    BY <2>1, <2>2 DEF LeaveTopic
  <2>3. CASE \A t \in Topics : subscriptions'[t] \in {subscriptions[t], NoSub}
    BY <2>3
  <2> QED
    BY <1>3, <2>1, <2>2, <2>3, SubscriptionSteps
<1>4. ASSUME scheduleReconnect
      PROVE  NeverStranded'
  BY <1>4 DEF scheduleReconnect, NeverStranded
<1>5. ASSUME DropEverything
      PROVE  NeverStranded'
  BY <1>5 DEF DropEverything, NeverStranded
<1>6. CASE UNCHANGED <<socket, disconnectedIntentionally, reconnectTimer, hbVars>>
  BY <1>2, <1>3, <1>6, <1>a DEF NeverStranded
<1>7. CASE Connect \/ Disconnect \/ ReconnectTimeout
  BY <1>1, <1>5, <1>7, Zenon DEF Connect, Disconnect, ReconnectTimeout
<1>8. CASE HandleOpen \/ SocketDrop
  BY <1>8 DEF HandleOpen, SocketDrop, NeverStranded
<1>9. CASE HandleClose
  <2>1. ~disconnectedIntentionally
    BY <1>9 DEF HandleClose, Ownership, SocketGone
  <2> QED
    BY <1>4, <1>9, <2>1, Zenon DEF HandleClose
<1>10. CASE SendHeartbeat \/ HeartbeatReply
  <2>1. UNCHANGED socket
    BY <1>10, Zenon DEF SendHeartbeat, HeartbeatReply, Proven, connVars
  <2>2. socket = "open"
    BY <1>10, Zenon DEF SendHeartbeat, HeartbeatReply, isConnected
  <2> QED
    BY <2>1, <2>2 DEF NeverStranded
<1>11. ASSUME NEW reaction, HeartbeatTimeout(reaction)
       PROVE  NeverStranded'
  <2>1. socket = "open"
    BY <1>11, Zenon DEF HeartbeatTimeout, isConnected
  <2>2. \/ scheduleReconnect
        \/ UNCHANGED connVars
    BY <1>11, Zenon DEF HeartbeatTimeout
  <2> QED
    BY <1>4, <2>1, <2>2 DEF NeverStranded, connVars
<1> QED
  BY <1>1, <1>5, <1>6, <1>7, <1>8, <1>9, <1>10, <1>11, QuietSteps, Zenon

\* A socket that is given up is gone, whichever step gives it up.
LEMMA SocketGoneStep ==
  ASSUME Ownership, [Contained]_vars
  PROVE  SocketGone'
<1> USE DEF Ownership, SocketGone
<1>1. ASSUME ConnectIfNeeded
      PROVE  SocketGone'
  BY <1>1 DEF ConnectIfNeeded
<1>2. ASSUME socket' = "none"
      PROVE  SocketGone'
  BY <1>2
<1>3. ASSUME UNCHANGED connVars
      PROVE  SocketGone'
  BY <1>3 DEF connVars
<1>4. CASE UNCHANGED <<socket, disconnectedIntentionally, reconnectTimer, hbVars>>
  BY <1>4
<1>5. CASE Connect \/ ReconnectTimeout
  BY <1>1, <1>5, Zenon DEF Connect, ReconnectTimeout
<1>6. CASE Disconnect \/ HandleClose \/ DropEverything
  BY <1>2, <1>6, Zenon DEF Disconnect, HandleClose, DropEverything, LoseSocket
<1>7. CASE HandleOpen \/ SocketDrop
  BY <1>7 DEF HandleOpen, SocketDrop
<1>8. CASE SendHeartbeat
  BY <1>3, <1>8, Zenon DEF SendHeartbeat
<1>9. CASE HeartbeatReply
  BY <1>9 DEF HeartbeatReply, Proven
<1>10. ASSUME NEW reaction, HeartbeatTimeout(reaction)
       PROVE  SocketGone'
  BY <1>2, <1>3, <1>10, Zenon DEF HeartbeatTimeout, DropEverything, LoseSocket
<1> QED
  BY <1>1, <1>4, <1>5, <1>6, <1>7, <1>8, <1>9, <1>10, QuietSteps, Zenon

\* No step forgets who waits for an acknowledgement.
LEMMA WaitingOwedStep ==
  ASSUME TypeOK, Ownership, [Contained]_vars
  PROVE  WaitingOwed'
<1>a. /\ unsub \in [SubIds -> {"no", "waiting", "done"}]
      /\ \A i \in SubIds : unsub[i] = "waiting" => i \in pendingUnsubscribes
      /\ MapConsistent
  BY DEF Ownership, Standing, WaitingOwed, TypeOK, RepliesTypeOK
<1>1. CASE clearPendingReplies
  BY <1>1, <1>a DEF clearPendingReplies, WaitingOwed
<1>2. CASE \E i \in Live, s \in Subscription : s.topic = sub[i].topic /\ LeaveTopic(i, s)
  BY <1>2, <1>a DEF LeaveTopic, WaitingOwed
<1>3. CASE \E l \in leaves : LeaveReply(l)
  BY <1>3, <1>a DEF LeaveReply, WaitingOwed
<1>4. CASE \E p \in pendingLeaves : LeaveTimeout(p)
  BY <1>4, <1>a DEF LeaveTimeout, WaitingOwed
<1>5. CASE UNCHANGED <<pendingLeaves, pendingUnsubscribes, unsub>>
  BY <1>5, <1>a DEF WaitingOwed
<1> QED
  BY <1>1, <1>2, <1>3, <1>4, <1>5, <1>a, ReplySteps

\* Where no exception gets past safeInvoke, every teardown runs to its end.
LEMMA ContainedSteps ==
  ASSUME ~safeInvokeThrows, [Next]_vars
  PROVE  [Contained]_vars
<1>1. ~Aborted
  BY Zenon DEF Aborted, DisconnectAborted, HandleCloseAborted, HeartbeatTimeoutAborted,
               drainAborted
<1> QED
  BY <1>1 DEF Next

\* A teardown that an exception ends leaves no reply handler behind.
LEMMA StandingAborted ==
  ASSUME TypeOK, Standing, Aborted
  PROVE  Standing'
<1>1. PICK last \in pendingLeaves :
        DisconnectAborted(last) \/ HandleCloseAborted(last) \/ HeartbeatTimeoutAborted(last)
  BY DEF Aborted
<1>2. UNCHANGED subVars /\ drainAborted(last)
  BY <1>1, Zenon DEF DisconnectAborted, HandleCloseAborted, HeartbeatTimeoutAborted
<1>3. /\ channels' \in {channels, {}} /\ leaves' \in {leaves, {}}
      /\ UNCHANGED socket \/ (channels' = {} /\ leaves' = {})
  <2>1. CASE DisconnectAborted(last)
    BY <2>1, Zenon DEF DisconnectAborted, serverVars
  <2>2. CASE HandleCloseAborted(last)
    <3>1. socket = "closing" /\ UNCHANGED serverVars
      BY <2>2, Zenon DEF HandleCloseAborted
    <3> QED
      BY <3>1 DEF Standing, SocketOwnsWire, serverVars
  <2>3. CASE HeartbeatTimeoutAborted(last)
    BY <2>3, Zenon DEF HeartbeatTimeoutAborted, LoseSocket
  <2> QED
    BY <1>1, <2>1, <2>2, <2>3
<1>4. SocketOwnsWire'
  BY <1>3 DEF Standing, SocketOwnsWire
<1>5. LeavesOwed'
  BY <1>2 DEF LeavesOwed, drainAborted
<1>6. MapConsistent'
  <2>1. \A i \in SubIds : unsub[i] = "no" => unsub'[i] = "no"
    <3> SUFFICES ASSUME NEW i \in SubIds, unsub[i] = "no"
                 PROVE  ~ \E p \in pendingLeaves : p.sub = i
      BY <1>2 DEF drainAborted, TypeOK, RepliesTypeOK
    <3> QED
      BY DEF Standing, LeavesOwed
  <2>2. UNCHANGED <<subscriptions, sub, subCount>>
    BY <1>2 DEF subVars
  <2>3. \A t \in Topics : subscriptions[t] # NoSub => subscriptions[t] \in SubIds
    BY DEF TypeOK, SubscriptionsTypeOK
  <2> QED
    BY <2>1, <2>2, <2>3 DEF Standing, MapConsistent
<1> QED
  BY <1>4, <1>5, <1>6 DEF Standing

\* One step keeps it, whichever it is.
LEMMA StandingStep ==
  ASSUME TypeOK, Standing, [Next]_vars
  PROVE  Standing'
<1>1. CASE [Contained]_vars
  BY <1>1, SocketOwnsWireStep, MapConsistentStep, LeavesOwedStep DEF Standing
<1>2. CASE Aborted
  BY <1>2, StandingAborted
<1> QED
  BY <1>1, <1>2 DEF Next

LEMMA OwnershipStep ==
  ASSUME TypeOK, Ownership, [Contained]_vars
  PROVE  Ownership'
<1>1. Standing
  BY DEF Ownership
<1>2. Standing'
  BY <1>1, SocketOwnsWireStep, MapConsistentStep, LeavesOwedStep DEF Standing
<1> QED
  BY <1>2, SocketGoneStep, StrandedStep, WatchedStep, WaitingOwedStep DEF Ownership

\* Leaves, topics and the wire stay in order whatever throws: the part of the
\* inductive invariant that holds of every reachable state.
THEOREM StandingInvariant == Spec => []Standing
<1>1. Init => Standing
  BY OwnershipInit DEF Ownership
<1>2. TypeOK /\ Standing /\ [Next]_vars => Standing'
  BY StandingStep
<1> QED
  BY <1>1, <1>2, TypeCorrect, PTL DEF Spec

\* The inductive invariant holds of every reachable state, where no exception
\* gets past safeInvoke.
THEOREM OwnershipInvariant ==
  ASSUME ~safeInvokeThrows
  PROVE  Spec => []Ownership
<1>1. Init => Ownership
  BY OwnershipInit
<1>2. TypeOK /\ Ownership /\ [Next]_vars => Ownership'
  BY OwnershipStep, ContainedSteps
<1> QED
  BY <1>1, <1>2, TypeCorrect, PTL DEF Spec

\* No teardown path leaves a client that holds a topic without a connection or
\* a scheduled reconnect, whatever its callbacks throw: the promise of
\* safeInvoke (phoenix.ts:289-297), which it keeps unless callbacks and error
\* handlers both throw.
THEOREM NeverStrandedHolds ==
  ASSUME ~safeInvokeThrows
  PROVE  Spec => []NeverStranded
<1>1. Ownership => NeverStranded
  BY DEF Ownership
<1> QED
  BY <1>1, OwnershipInvariant, PTL

\* No heartbeat outlives its socket and no open socket is without one.
THEOREM OpenSocketIsWatchedHolds ==
  ASSUME ~safeInvokeThrows
  PROVE  Spec => []OpenSocketIsWatched
<1>1. Ownership => OpenSocketIsWatched
  BY DEF Ownership
<1> QED
  BY <1>1, OwnershipInvariant, PTL

\* Every unsettled unsubscribe has exactly one reply timer, on a socket that
\* exists, and is in the set the teardown paths drain.
THEOREM UnsubscribeOwedHolds ==
  ASSUME ~safeInvokeThrows
  PROVE  Spec => []UnsubscribeOwed
<1>1. TypeOK /\ Ownership => UnsubscribeOwed
  <2> SUFFICES ASSUME TypeOK, LeavesOwed, WaitingOwed
               PROVE  UnsubscribeOwed
    BY DEF Ownership, Standing
  <2>1. ASSUME NEW i \in pendingUnsubscribes
        PROVE  \E p \in pendingLeaves : {q \in pendingLeaves : q.sub = i} = {p}
    <3>1. PICK p \in pendingLeaves : p.sub = i
      BY DEF LeavesOwed
    <3>2. \A q \in pendingLeaves : q.sub = i <=> q = p
      BY <3>1 DEF LeavesOwed
    <3> QED
      BY <3>2
  <2>2. pendingUnsubscribes # {} => socket # "none"
    BY DEF LeavesOwed
  <2>3. \A i \in SubIds : unsub[i] = "waiting" <=> i \in pendingUnsubscribes
    BY DEF LeavesOwed, WaitingOwed
  <2> QED
    BY <2>1, <2>2, <2>3 DEF UnsubscribeOwed
<1> QED
  BY <1>1, OwnershipInvariant, TypeCorrect, PTL

\* Failures only raise the number of tries, and what may reset it is an answer.
LEMMA TriesSteps ==
  ASSUME [Contained]_vars
  PROVE  \/ UNCHANGED reconnectTries
         \/ scheduleReconnect
         \/ Proven /\ (isConnected \/ channels # {} \/ leaves # {})
<1> DEFINE Answered == Proven /\ (isConnected \/ channels # {} \/ leaves # {})
           Claim == UNCHANGED reconnectTries \/ scheduleReconnect \/ Answered
<1>1. ASSUME UNCHANGED connVars
      PROVE  Claim
  BY <1>1 DEF connVars
<1>2. ASSUME UNCHANGED reconnectTries \/ scheduleReconnect
      PROVE  Claim
  BY <1>2
<1>3. ASSUME Proven, isConnected \/ channels # {} \/ leaves # {}
      PROVE  Claim
  BY <1>3
<1> HIDE DEF Answered, Claim
<1>4. ASSUME Connect \/ Disconnect \/ ReconnectTimeout
      PROVE  Claim
  BY <1>2, <1>4, Zenon DEF Connect, Disconnect, ReconnectTimeout
<1>5. ASSUME HandleClose \/ HandleOpen \/ SocketDrop
      PROVE  Claim
  <2>1. HandleClose => Claim
    BY <1>2, Zenon DEF HandleClose
  <2>2. HandleOpen => Claim
    BY <1>2, Zenon DEF HandleOpen, backoffAtOpen
  <2>3. SocketDrop => Claim
    BY <1>2, Zenon DEF SocketDrop
  <2> QED
    BY <1>5, <2>1, <2>2, <2>3
<1>6. ASSUME NEW c, NEW t, NEW w, SubscribeNew(c, t, w) \/ SubscribeShared(c, t, w)
      PROVE  Claim
  <2>1. SubscribeNew(c, t, w) => Claim
    BY <1>2, Zenon DEF SubscribeNew
  <2>2. SubscribeShared(c, t, w) => Claim
    BY <1>2, Zenon DEF SubscribeShared
  <2> QED
    BY <1>6, <2>1, <2>2
<1>i. ASSUME NEW c \in Callers, NEW t \in Topics, SubscribeInterrupted(c, t)
      PROVE  Claim
  BY <1>2, <1>i, Zenon DEF SubscribeInterrupted
<1>7. ASSUME NEW i, NEW s, LeaveTopic(i, s)
      PROVE  Claim
  BY <1>1, <1>7, Zenon DEF LeaveTopic
<1>8. ASSUME NEW t, Unsubscribe(t)
      PROVE  Claim
  BY <1>7, <1>8 DEF Unsubscribe
<1>9. ASSUME NEW c, NEW i, RemoveHandler(c, i)
      PROVE  Claim
  BY <1>1, <1>7, <1>9, Zenon DEF RemoveHandler
<1>10. ASSUME NEW reaction, HeartbeatTimeout(reaction)
       PROVE  Claim
  BY <1>1, <1>2, <1>10, Zenon DEF HeartbeatTimeout
<1>11. ASSUME NEW x, RejoinTimeout(x) \/ JoinTimeout(x) \/ LeaveTimeout(x)
       PROVE  Claim
  <2>1. RejoinTimeout(x) => Claim
    BY <1>1, Zenon DEF RejoinTimeout
  <2>2. JoinTimeout(x) \/ LeaveTimeout(x) => Claim
    BY <1>1, Zenon DEF JoinTimeout, LeaveTimeout
  <2> QED
    BY <1>11, <2>1, <2>2
<1>12. ASSUME SendHeartbeat \/ HeartbeatReply
       PROVE  Claim
  <2>1. SendHeartbeat => Claim
    BY <1>1, Zenon DEF SendHeartbeat
  <2>2. HeartbeatReply => Claim
    BY <1>3, Zenon DEF HeartbeatReply
  <2> QED
    BY <1>12, <2>1, <2>2
<1>13. ASSUME NEW ch \in channels, NEW x, JoinReply(ch, x)
       PROVE  Claim
  BY <1>3, <1>13, Zenon DEF JoinReply
<1>14. ASSUME NEW l \in leaves, LeaveReply(l)
       PROVE  Claim
  BY <1>3, <1>14, Zenon DEF LeaveReply
<1>15. ASSUME NEW ch, NEW x, NEW r, \/ ChannelDownIgnored(ch) \/ Dispatch(ch, x, r)
                             \/ ChannelDown(ch, x)
       PROVE  Claim
  <2>1. ChannelDownIgnored(ch) \/ Dispatch(ch, x, r) => Claim
    BY <1>1, Zenon DEF ChannelDownIgnored, Dispatch
  <2>2. ChannelDown(ch, x) => Claim
    BY <1>1, <1>2, Zenon DEF ChannelDown
  <2> QED
    BY <1>15, <2>1, <2>2
<1>16. ASSUME UNCHANGED vars
       PROVE  Claim
  <2>1. UNCHANGED connVars
    BY <1>16 DEF vars
  <2> QED
    BY <1>1, <2>1
<1>17. CASE Consumer
  <2>1. Claim
    BY <1>i, <1>4, <1>6, <1>8, <1>9, <1>17, Zenon DEF Consumer
  <2> QED
    BY <2>1 DEF Claim, Answered
<1>18. CASE Timers
  <2>1. Claim
    BY <1>4, <1>10, <1>11, <1>12, <1>18, Zenon DEF Timers
  <2> QED
    BY <2>1 DEF Claim, Answered
<1>19. CASE SocketEvents
  <2>1. Claim
    BY <1>5, <1>19, Zenon DEF SocketEvents
  <2> QED
    BY <2>1 DEF Claim, Answered
<1>20. CASE Server
  <2>1. Claim
    BY <1>12, <1>13, <1>14, <1>15, <1>20, Zenon DEF Server
  <2> QED
    BY <2>1 DEF Claim, Answered
<1> QED
  BY <1>16, <1>17, <1>18, <1>19, <1>20, Zenon DEF Contained, Claim, Answered

\* The backoff is reset by an answer on an open socket and by nothing else: a
\* connection that opens and dies does not restart it (phoenix.ts:187-192).
THEOREM BackoffNeedsAnAnswerHolds == Spec => BackoffNeedsAnAnswer
<1>1. ASSUME TypeOK, Standing, [Next]_vars
      PROVE  [reconnectTries' < reconnectTries =>
                isConnected /\ ~connectionProven /\ connectionProven']_vars
  <2>1. reconnectTries \in Nat /\ SocketOwnsWire
    BY <1>1 DEF TypeOK, ConnectionTypeOK, Standing
  <2>2. CASE UNCHANGED reconnectTries \/ scheduleReconnect
    BY <2>1, <2>2 DEF scheduleReconnect
  <2>3. CASE Proven /\ (isConnected \/ channels # {} \/ leaves # {})
    <3>1. isConnected
      BY <2>1, <2>3 DEF SocketOwnsWire, isConnected
    <3>2. connectionProven' = TRUE
      BY <2>3 DEF Proven
    <3>3. connectionProven => UNCHANGED reconnectTries
      BY <2>3 DEF Proven
    <3> QED
      BY <2>1, <3>1, <3>2, <3>3
  <2>4. CASE Aborted
    <3>1. UNCHANGED reconnectTries
      BY <2>4, Zenon DEF Aborted, DisconnectAborted, HandleCloseAborted,
                         HeartbeatTimeoutAborted
    <3> QED
      BY <2>2, <3>1
  <2> QED
    BY <1>1, <2>2, <2>3, <2>4, TriesSteps DEF Next
<1> QED
  BY <1>1, TypeCorrect, StandingInvariant, PTL DEF Spec, BackoffNeedsAnAnswer

=============================================================================
