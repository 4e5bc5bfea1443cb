-------------------------- MODULE PhoenixGuarantees --------------------------
(***************************************************************************)
(* What PhoenixTransport guarantees: safety, action and liveness           *)
(* properties, and the refinement of StreamContract.  Line numbers are     *)
(* those of src/src/stream/transport/phoenix.ts.                           *)
(***************************************************************************)
EXTENDS PhoenixTransport

\* A client that holds a topic is never stranded: it has a socket, or a
\* reconnect is scheduled.  Every teardown path has to see to it, also when a
\* consumer callback it runs on its way throws (phoenix.ts:289-297).
NeverStranded ==
  (\E t \in Topics : subscriptions[t] # NoSub) =>
    socket \notin {"none", "closed"} \/ reconnectTimer

\* An open socket is watched by a heartbeat, and no heartbeat outlives its
\* socket: an interval left behind would judge the next connection
\* (startHeartbeat, stopHeartbeat).
OpenSocketIsWatched ==
  /\ socket = "open" => heartbeatTimer
  /\ heartbeatTimer => socket \in {"open", "closing"}
  /\ pendingHeartbeat => heartbeatTimer

\* An unsubscribe that was not acknowledged is always owed by a reply timer of
\* the current socket and is in the set the teardown paths drain, so it cannot
\* hang (phoenix.ts:174-178, 746-749).
UnsubscribeOwed ==
  \A i \in SubIds :
    /\ unsub[i] = "waiting" <=> i \in pendingUnsubscribes
    /\ i \in pendingUnsubscribes =>
         /\ socket # "none"
         /\ \E p \in pendingLeaves : {q \in pendingLeaves : q.sub = i} = {p}

\* Replies are correlated by ref: a ref waits for one reply at most, and no
\* handler waits for a ref of a socket that is gone (pendingReplies).
RepliesCorrelated ==
  /\ \A p, q \in pendingJoins \cup pendingLeaves : p.ref = q.ref => p = q
  /\ socket \in {"none", "connecting"} => pendingJoins \cup pendingLeaves = {}

\* Handlers hear the events that carry a join ref only from channels their own
\* subscription opened, whatever frames of earlier joins of the topic are still
\* arriving (phoenix.ts:664-668).  An event without one is let through whatever
\* join it belongs to (phoenix.ts:671).
NoStaleEvents ==
  \A c \in Callers : \A i \in heard[c] : c \in sub[i].callbacks

\* The filter the server applies covers every caller that shares the topic, so
\* no handler is registered for an event the server never feeds
\* (phoenix.ts:515-523).
FilterReachesServer ==
  \A ch \in channels : \A i \in Live :
    ch.ref = sub[i].joinRef =>
      \A c \in sub[i].callbacks : wants[c] \subseteq ch.filter

\* A topic is joined once and shared (phoenix.ts:88): of the joins of a topic
\* the server holds, the client has left all but one.
JoinedOnce ==
  \A ch, other \in channels :
    ch.topic = other.topic /\ ~ch.left /\ ~other.left => ch = other

\* A subscription counted as joined has no reply left to fire
\* (phoenix.ts:422), and a later subscriber is told "joined" at once because of
\* it.  An "ok" to a join that was superseded by a wider one sets joined all the
\* same (phoenix.ts:457-460), while the wider join still waits.
SettledHasNoReplyLeft ==
  \A i \in Live : sub[i].joined => \A p \in pendingJoins : p.sub # i

\* A topic counted as joined on an open socket is one the server feeds, and
\* each of its callers was last told so.
JoinedMeansFed ==
  \A i \in Live : isConnected /\ sub[i].joined =>
    /\ \E ch \in channels : ch.ref = sub[i].joinRef /\ ch.up
    /\ \A c \in sub[i].callbacks : told[c] = "ok"

\* After an intentional disconnect nothing reconnects on its own
\* (test/stream/transport.spec.ts:264).
DisconnectIsFinal ==
  disconnectedIntentionally => socket = "none" /\ ~reconnectTimer

\* Only an answer of the server resets the backoff: an open socket is no proof
\* of a working connection (phoenix.ts:187-192).
BackoffNeedsAnAnswer ==
  [][reconnectTries' < reconnectTries =>
       isConnected /\ ~connectionProven /\ connectionProven']_vars

\* Every unsubscribe is acknowledged in the end: by a reply, its timeout or a
\* teardown.
UnsubscribeSettles == \A i \in SubIds : unsub[i] = "waiting" ~> unsub[i] = "done"

\* A topic held is joined in the end, or it is given up, or a failure to join
\* it is reported, however the socket and the channel failed before.
TopicRecovers ==
  \A i \in SubIds :
    i \in Live ~> \/ i \notin Live
                  \/ sub[i].joined
                  \/ \E c \in sub[i].callbacks : told[c] = "error"

-----------------------------------------------------------------------------
(* What makes these properties inductive                                   *)

\* The server only has a hold on an open socket.
SocketOwnsWire == socket # "open" => channels = {} /\ leaves = {}

\* The map files each object under its own topic, and an object in the map, or
\* one not created yet, was never asked to unsubscribe.
MapConsistent ==
  /\ \A t \in Topics : subscriptions[t] # NoSub =>
       /\ sub[subscriptions[t]].topic = t
       /\ subscriptions[t] <= subCount
       /\ unsub[subscriptions[t]] = "no"
  /\ \A i \in SubIds : i > subCount => unsub[i] = "no"

\* The unsubscribes the teardown paths drain wait for one leave each, and every
\* leave that waits is one of them.
LeavesOwed ==
  /\ \A i \in pendingUnsubscribes : unsub[i] = "waiting"
  /\ \A i \in pendingUnsubscribes : \E p \in pendingLeaves : p.sub = i
  /\ \A p \in pendingLeaves : p.sub \in pendingUnsubscribes
  /\ \A p, q \in pendingLeaves : p.sub = q.sub => p = q
  /\ pendingUnsubscribes # {} => socket \in {"open", "closing"}

\* What every step keeps, next to TypeOK: also a teardown that an exception ends.
Standing == SocketOwnsWire /\ MapConsistent /\ LeavesOwed

\* A socket that is given up is gone, and a disconnected client has none.
SocketGone == socket # "closed" /\ (disconnectedIntentionally => socket = "none")

\* Whoever waits for an acknowledgement is among those the teardown paths drain.
WaitingOwed == \A i \in SubIds : unsub[i] = "waiting" => i \in pendingUnsubscribes

\* What the steps keep where no exception gets past safeInvoke.
Ownership ==
  /\ Standing
  /\ SocketGone
  /\ NeverStranded
  /\ OpenSocketIsWatched
  /\ WaitingOwed

-----------------------------------------------------------------------------
(* The transport implements StreamContract                                 *)

Phase ==
  IF socket # "none" THEN "up" ELSE IF reconnectTimer THEN "backoff" ELSE "idle"

Life ==
  [i \in SubIds |->
     IF i > subCount THEN "unused"
     ELSE IF unsub[i] = "waiting" THEN "leaving"
     ELSE IF unsub[i] = "done" THEN "left"
     ELSE IF i \in Live THEN "held" ELSE "dropped"]

Contract == INSTANCE StreamContract WITH Subs <- SubIds, phase <- Phase, life <- Life

\* Every behaviour of the transport is one the contract allows, its liveness
\* included: the whole of what a consumer may rely on.
ImplementsContract == Contract!Spec
=============================================================================
