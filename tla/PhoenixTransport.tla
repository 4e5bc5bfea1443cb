--------------------------- MODULE PhoenixTransport ---------------------------
(***************************************************************************)
(* The Phoenix Channels transport of the Stream client: one WebSocket that *)
(* is reopened with backoff, a heartbeat that detects a dead connection,   *)
(* and topics that are joined once, shared by several callers and rejoined *)
(* when their channel or the socket dies                                   *)
(* (src/src/stream/transport/phoenix.ts).                                  *)
(*                                                                         *)
(* JavaScript runs one callback at a time, so every public call, timer and *)
(* socket event is one action; what interleaves is their order.  The       *)
(* server is external: it sees the requests written to the current socket  *)
(* and answers each of them late, or never, and a frame it sends for a     *)
(* channel may arrive long after the client stopped using that channel.    *)
(* Sending and receiving are one step at the client's end of the wire, so  *)
(* the delay of a frame is the delay of that step.                         *)
(***************************************************************************)
EXTENDS Naturals, FiniteSets

CONSTANTS
  Topics,          \* channel topics
  Callers,         \* callers of subscribe, each with its own callbacks
  Events,          \* event types; Events itself stands for "no filter"
  Requests,        \* event filters a caller may ask for, subsets of Events
  MaxSubs,         \* bound: subscription objects created in a behaviour
  MaxFaults,       \* bound: socket drops, dead channels, missed heartbeats
  JoinStatuses,    \* statuses the server may answer a join with
  ErrorReactions,  \* what the consumer's onError handler may do
  CallbacksThrow   \* may the consumer's other callbacks and handlers throw?

\* A list of named types never adds up to "no filter" (eventTypes: undefined).
ASSUME RequestsAssumption ==
  /\ Requests \subseteq SUBSET Events
  /\ UNION (Requests \ {Events}) # Events

ASSUME BoundsAssumption == Topics # {} /\ MaxSubs \in Nat /\ MaxFaults \in Nat

ASSUME ChoicesAssumption ==
  /\ JoinStatuses \subseteq {"ok", "error"}
  /\ ErrorReactions \subseteq {"return", "throw", "disconnect"}
  /\ CallbacksThrow \in BOOLEAN

VARIABLES
  socket,                     \* this.socket and its readyState
  disconnectedIntentionally,
  connectionProven,
  reconnectTries,
  reconnectTimer,             \* is the reconnect timeout armed?
  heartbeatTimer,             \* is the heartbeat interval running?
  pendingHeartbeat,           \* pendingHeartbeatRef # null
  refCounter,
  subscriptions,              \* topic -> subscription object
  sub,                        \* the subscription objects, dead ones included
  subCount,                   \* how many of them were created
  pendingJoins,               \* pendingReplies whose handler is a join's
  pendingLeaves,              \* pendingReplies whose handler is an unsubscribe's
  pendingUnsubscribes,        \* subscriptions whose unsubscribe is unsettled
  unsub,                      \* "no", "waiting" or "done": onUnsubscribed's fate
  told,                       \* the last outcome each caller was told
  wants,                      \* the events each caller asked for
  heard,                      \* subscriptions whose channels fed each caller
                              \* events that carry a join ref
  channels,                   \* joins of this socket the server still holds
  leaves,                     \* leaves of this socket it has not answered
  faults                      \* faults so far

connVars   == <<socket, disconnectedIntentionally, connectionProven,
                reconnectTries, reconnectTimer>>
hbVars     == <<heartbeatTimer, pendingHeartbeat>>
subVars    == <<subscriptions, sub, subCount>>
replyVars  == <<pendingJoins, pendingLeaves, pendingUnsubscribes, unsub>>
callerVars == <<told, wants, heard>>
serverVars == <<channels, leaves>>
vars == <<connVars, hbVars, refCounter, subVars, replyVars, callerVars,
          serverVars, faults>>

NoSub == 0
NoRef == 0
SubIds == 1..MaxSubs

\* "closing": no longer OPEN, onclose to come; "closed": onclose has been, and
\* this.socket is still set.
SocketStates == {"none", "connecting", "open", "closing", "closed"}

\* A null ref or one that nextRef has handed out.
Refs == 0..refCounter

Subscription ==
  [topic : Topics, joinRef : Refs, joined : BOOLEAN, filter : SUBSET Events,
   rejoinTimer : BOOLEAN, rejoinTries : Nat,
   callbacks : SUBSET Callers, handlers : SUBSET Callers]

Unused ==
  [topic |-> CHOOSE t \in Topics : TRUE, joinRef |-> NoRef, joined |-> FALSE,
   filter |-> {}, rejoinTimer |-> FALSE, rejoinTries |-> 0,
   callbacks |-> {}, handlers |-> {}]

PendingReply == [ref : Refs, sub : SubIds]

\* up: the join was answered "ok"; left: a leave for it was written.
Channel == [topic : Topics, sub : SubIds, ref : Refs, filter : SUBSET Events,
            up : BOOLEAN, left : BOOLEAN]

Leave == [ref : Refs, joinRef : Refs]

ConnectionTypeOK ==
  /\ socket \in SocketStates
  /\ disconnectedIntentionally \in BOOLEAN
  /\ connectionProven \in BOOLEAN
  /\ reconnectTries \in Nat
  /\ reconnectTimer \in BOOLEAN
  /\ heartbeatTimer \in BOOLEAN
  /\ pendingHeartbeat \in BOOLEAN

SubscriptionsTypeOK ==
  /\ refCounter \in Nat
  /\ subscriptions \in [Topics -> SubIds \cup {NoSub}]
  /\ sub \in [SubIds -> Subscription]
  /\ subCount \in 0..MaxSubs

RepliesTypeOK ==
  /\ pendingJoins \subseteq PendingReply
  /\ pendingLeaves \subseteq PendingReply
  /\ pendingUnsubscribes \subseteq SubIds
  /\ unsub \in [SubIds -> {"no", "waiting", "done"}]

CallersTypeOK ==
  /\ told \in [Callers -> {"idle", "waiting", "ok", "error"}]
  /\ wants \in [Callers -> SUBSET Events]
  /\ heard \in [Callers -> SUBSET SubIds]

ServerTypeOK ==
  /\ channels \subseteq Channel
  /\ leaves \subseteq Leave
  /\ faults \in 0..MaxFaults

\* Every variable has its type, and no ref is in use that nextRef has not
\* handed out.
TypeOK ==
  /\ ConnectionTypeOK
  /\ SubscriptionsTypeOK
  /\ RepliesTypeOK
  /\ CallersTypeOK
  /\ ServerTypeOK

Init ==
  /\ socket = "none"
  /\ disconnectedIntentionally = FALSE
  /\ connectionProven = FALSE
  /\ reconnectTries = 0
  /\ reconnectTimer = FALSE
  /\ heartbeatTimer = FALSE
  /\ pendingHeartbeat = FALSE
  /\ refCounter = 0
  /\ subscriptions = [t \in Topics |-> NoSub]
  /\ sub = [i \in SubIds |-> Unused]
  /\ subCount = 0
  /\ pendingJoins = {}
  /\ pendingLeaves = {}
  /\ pendingUnsubscribes = {}
  /\ unsub = [i \in SubIds |-> "no"]
  /\ told = [c \in Callers |-> "idle"]
  /\ wants = [c \in Callers |-> {}]
  /\ heard = [c \in Callers |-> {}]
  /\ channels = {}
  /\ leaves = {}
  /\ faults = 0

-----------------------------------------------------------------------------
(* Helpers                                                                 *)

isConnected == socket = "open"

\* The objects the subscriptions map holds; Map order is creation order.
Live == {i \in SubIds : subscriptions[sub[i].topic] = i}

\* Mutant: the counter is advanced too early.
RefOffByOne(i) == refCounter + 1 + Cardinality({j \in Live : j <= i})

\* The ref the loop in handleOpen gives to live subscription i.
RefAtOpen(i) == refCounter + Cardinality({j \in Live : j <= i})

JoinOf(i, r, f) ==
  [topic |-> sub[i].topic, sub |-> i, ref |-> r, filter |-> f,
   up |-> FALSE, left |-> FALSE]

\* The server's channels once a leave for joinRef r has been written.
MarkLeft(r) == {IF ch.ref = r THEN [ch EXCEPT !.left = TRUE] ELSE ch : ch \in channels}

Tell(callers, outcome) ==
  told' = [c \in Callers |-> IF c \in callers THEN outcome ELSE told[c]]

\* Mutant: callbacks are run as they are.
callbackThrows == CallbacksThrow

\* Does an exception of a callback get past safeInvoke?  It goes to the error
\* handlers, which nothing guards.
safeInvokeThrows == CallbacksThrow /\ "throw" \in ErrorReactions

\* Which of callers a loop over their callbacks may reach: all of them, unless
\* an exception ends it.
Reached(callers) ==
  {called \in SUBSET callers :
     called = callers \/ (safeInvokeThrows /\ called # {})}

\* connect(): a no-op while there is a socket, usable or not.
ConnectIfNeeded ==
  IF socket = "none"
  THEN /\ socket' = "connecting"
       /\ disconnectedIntentionally' = FALSE
       /\ connectionProven' = FALSE
  ELSE UNCHANGED <<socket, disconnectedIntentionally, connectionProven>>

\* Mutant: the interval stops, the unanswered ref stays.
stopIntervalOnly == heartbeatTimer' = FALSE /\ UNCHANGED pendingHeartbeat

stopHeartbeat == heartbeatTimer' = FALSE /\ pendingHeartbeat' = FALSE

scheduleReconnect ==
  /\ reconnectTries' = reconnectTries + 1
  /\ reconnectTimer' = TRUE

\* Mutant: a timer left armed.
keepReconnectTimer == UNCHANGED reconnectTimer

clearReconnectTimer == reconnectTimer' = FALSE

\* Mutants: unsubscribes are dropped with the rest; join handlers survive.
clearWithoutDraining ==
  /\ pendingJoins' = {} /\ pendingLeaves' = {}
  /\ UNCHANGED <<pendingUnsubscribes, unsub>>
clearOnlyLeaves ==
  /\ pendingLeaves' = {} /\ pendingUnsubscribes' = {}
  /\ unsub' = [i \in SubIds |->
                 IF i \in pendingUnsubscribes THEN "done" ELSE unsub[i]]
  /\ UNCHANGED pendingJoins

\* Drop every reply handler; settle the unsubscribes among them.
clearPendingReplies ==
  /\ pendingJoins' = {}
  /\ pendingLeaves' = {}
  /\ pendingUnsubscribes' = {}
  /\ unsub' = [i \in SubIds |->
                 IF i \in pendingUnsubscribes THEN "done" ELSE unsub[i]]

\* The drain ends in an exception of the callback of leave last: the reply
\* handlers are gone, and the unsubscribes after it are never settled.
drainAborted(last) ==
  /\ safeInvokeThrows
  /\ last \in pendingLeaves
  /\ pendingJoins' = {}
  /\ pendingLeaves' = {}
  /\ pendingUnsubscribes' = {}
  /\ unsub' = [i \in SubIds |->
                 IF \E p \in pendingLeaves : p.sub = i /\ p.ref <= last.ref
                 THEN "done" ELSE unsub[i]]

\* The socket is gone, and what was in flight on it.
LoseSocket == socket' = "none" /\ channels' = {} /\ leaves' = {}

\* The subscription objects once every live one's rejoin timer is cleared.
WithoutRejoinTimers ==
  [i \in SubIds |->
     IF i \in Live THEN [sub[i] EXCEPT !.rejoinTimer = FALSE] ELSE sub[i]]

\* What disconnect() does to the rest, but for the reconnect timer.
DropEverything ==
  /\ disconnectedIntentionally' = TRUE
  /\ stopHeartbeat
  /\ clearPendingReplies
  /\ subscriptions' = [t \in Topics |-> NoSub]
  /\ LoseSocket
  /\ UNCHANGED <<connectionProven, refCounter, subCount, callerVars>>

\* The first answer on a socket proves it and resets the backoff.
Proven ==
  /\ connectionProven' = TRUE
  /\ reconnectTries' = IF connectionProven THEN reconnectTries ELSE 0
  /\ UNCHANGED <<socket, disconnectedIntentionally, reconnectTimer>>

\* A fault of the network or the server, within the bound.
Fault == faults < MaxFaults /\ faults' = faults + 1

-----------------------------------------------------------------------------
(* The connection                                                          *)

Connect ==
  /\ ConnectIfNeeded
  /\ UNCHANGED <<reconnectTries, reconnectTimer, hbVars, refCounter, subVars,
                 replyVars, callerVars, serverVars, faults>>

Disconnect ==
  /\ DropEverything
  /\ clearReconnectTimer
  /\ sub' = WithoutRejoinTimers
  /\ UNCHANGED <<reconnectTries, faults>>

\* disconnect() cut short: the topics and the socket stay.
DisconnectAborted(last) ==
  /\ drainAborted(last)
  /\ disconnectedIntentionally' = TRUE
  /\ clearReconnectTimer
  /\ stopHeartbeat
  /\ UNCHANGED <<socket, connectionProven, reconnectTries, refCounter, subVars,
                 callerVars, serverVars, faults>>

\* Live subscription i once onopen has sent its join.
RejoinedAtOpen(i) ==
  [sub[i] EXCEPT !.rejoinTimer = FALSE, !.joined = FALSE,
                 !.joinRef = RefAtOpen(i)]

\* Mutant: an open socket counts as a working connection.
resetBackoffAtOpen == reconnectTries' = 0

\* onopen deliberately leaves the backoff alone.
backoffAtOpen == UNCHANGED reconnectTries

\* onopen: start the heartbeat and join every live topic.
HandleOpen ==
  /\ socket = "connecting"
  /\ socket' = "open"
  /\ heartbeatTimer' = TRUE
  /\ pendingHeartbeat' = FALSE
  /\ refCounter' = refCounter + Cardinality(Live)
  /\ backoffAtOpen
  /\ sub' = [i \in SubIds |->
               IF i \in Live THEN RejoinedAtOpen(i) ELSE sub[i]]
  /\ pendingJoins' =
       pendingJoins \cup {[ref |-> RefAtOpen(i), sub |-> i] : i \in Live}
  /\ channels' = {JoinOf(i, RefAtOpen(i), sub[i].filter) : i \in Live}
  /\ UNCHANGED <<disconnectedIntentionally, connectionProven, reconnectTimer,
                 subscriptions, subCount, pendingLeaves, pendingUnsubscribes,
                 unsub, callerVars, leaves, faults>>

\* The connection is refused or breaks: the socket is no longer OPEN, its
\* onclose is still to come.
SocketDrop ==
  /\ socket \in {"connecting", "open"}
  /\ Fault
  /\ socket' = "closing"
  /\ channels' = {}
  /\ leaves' = {}
  /\ UNCHANGED <<disconnectedIntentionally, connectionProven, reconnectTries,
                 reconnectTimer, hbVars, refCounter, subVars, replyVars,
                 callerVars>>

HandleClose ==
  /\ socket = "closing"
  /\ connectionProven' = FALSE
  /\ stopHeartbeat
  /\ clearPendingReplies
  /\ LoseSocket
  /\ IF disconnectedIntentionally
     THEN UNCHANGED <<reconnectTries, reconnectTimer>>
     ELSE scheduleReconnect
  /\ UNCHANGED <<disconnectedIntentionally, refCounter, subVars, callerVars,
                 faults>>

\* onclose cut short: this.socket still holds the dead socket, and nothing
\* reconnects.
HandleCloseAborted(last) ==
  /\ socket = "closing"
  /\ drainAborted(last)
  /\ socket' = "closed"
  /\ connectionProven' = FALSE
  /\ stopHeartbeat
  /\ UNCHANGED <<disconnectedIntentionally, reconnectTries, reconnectTimer,
                 refCounter, subVars, callerVars, serverVars, faults>>

ReconnectTimeout ==
  /\ reconnectTimer
  /\ reconnectTimer' = FALSE
  /\ ConnectIfNeeded
  /\ UNCHANGED <<reconnectTries, hbVars, refCounter, subVars, replyVars,
                 callerVars, serverVars, faults>>

-----------------------------------------------------------------------------
(* The heartbeat                                                           *)

\* A heartbeat's ref is no join's and no leave's, so it is not counted here.
SendHeartbeat ==
  /\ heartbeatTimer /\ isConnected /\ ~pendingHeartbeat
  /\ pendingHeartbeat' = TRUE
  /\ UNCHANGED <<connVars, heartbeatTimer, refCounter, subVars, replyVars,
                 callerVars, serverVars, faults>>

HeartbeatReply ==
  /\ isConnected /\ pendingHeartbeat
  /\ Proven
  /\ pendingHeartbeat' = FALSE
  /\ UNCHANGED <<heartbeatTimer, refCounter, subVars, replyVars, callerVars,
                 serverVars, faults>>

\* The interval fires with a heartbeat unanswered: report it, then tear the
\* connection down.  teardownForReconnect always schedules a reconnect, also
\* when the error handler has disconnected; a handler that throws skips it.
HeartbeatTimeout(reaction) ==
  /\ heartbeatTimer /\ isConnected /\ pendingHeartbeat
  /\ Fault
  /\ \/ /\ reaction = "return"
        /\ stopHeartbeat
        /\ LoseSocket
        /\ clearPendingReplies
        /\ scheduleReconnect
        /\ UNCHANGED <<disconnectedIntentionally, connectionProven, refCounter,
                       subVars, callerVars>>
     \/ /\ reaction = "disconnect"
        /\ DropEverything
        /\ sub' = WithoutRejoinTimers
        /\ scheduleReconnect
     \/ /\ reaction = "throw"
        /\ pendingHeartbeat' = FALSE
        /\ UNCHANGED <<connVars, heartbeatTimer, refCounter, subVars, replyVars,
                       callerVars, serverVars>>

\* teardownForReconnect cut short: the socket is gone, and nothing reconnects.
HeartbeatTimeoutAborted(last) ==
  /\ heartbeatTimer /\ isConnected /\ pendingHeartbeat
  /\ Fault
  /\ drainAborted(last)
  /\ stopHeartbeat
  /\ LoseSocket
  /\ UNCHANGED <<disconnectedIntentionally, connectionProven, reconnectTries,
                 reconnectTimer, refCounter, subVars, callerVars>>

-----------------------------------------------------------------------------
(* Subscriptions                                                           *)

\* subscribe() for a topic nobody holds, and the handler on() registers.
SubscribeNew(c, t, w) ==
  LET i == subCount + 1
      r == refCounter + 1
      fresh == [topic |-> t, joinRef |-> IF isConnected THEN r ELSE NoRef,
                joined |-> FALSE, filter |-> w, rejoinTimer |-> FALSE,
                rejoinTries |-> 0, callbacks |-> {c}, handlers |-> {c}]
  IN
  /\ told[c] = "idle"
  /\ subscriptions[t] = NoSub
  /\ subCount < MaxSubs
  /\ ConnectIfNeeded
  /\ subCount' = i
  /\ sub' = [sub EXCEPT ![i] = fresh]
  /\ subscriptions' = [subscriptions EXCEPT ![t] = i]
  /\ told' = [told EXCEPT ![c] = "waiting"]
  /\ wants' = [wants EXCEPT ![c] = w]
  /\ IF isConnected
     THEN /\ refCounter' = r
          /\ pendingJoins' = pendingJoins \cup {[ref |-> r, sub |-> i]}
          /\ channels' = channels \cup
               {[topic |-> t, sub |-> i, ref |-> r, filter |-> w,
                 up |-> FALSE, left |-> FALSE]}
     ELSE UNCHANGED <<refCounter, pendingJoins, channels>>
  /\ UNCHANGED <<reconnectTries, reconnectTimer, hbVars, pendingLeaves,
                 pendingUnsubscribes, unsub, heard, leaves, faults>>

\* Mutant: a wider filter is stored and the topic is not joined again.
NeverRejoins(i, w) == FALSE

\* Does a request for w make live subscription i leave and join again?
WidensOnline(i, w) == isConnected /\ ~(w \subseteq sub[i].filter)

\* subscribe() for a topic that is joined or joining: share it, and leave and
\* rejoin it when its filter does not cover the request (widenFilterIfNeeded).
SubscribeShared(c, t, w) ==
  LET i == subscriptions[t]
      widened == sub[i].filter \cup w
      leaveRef == refCounter + 1
      r == IF sub[i].joinRef = NoRef THEN refCounter + 1 ELSE refCounter + 2
      shared == [sub[i] EXCEPT !.callbacks = @ \cup {c},
                               !.handlers = @ \cup {c}, !.filter = widened]
  IN
  /\ told[c] = "idle"
  /\ i # NoSub
  /\ ConnectIfNeeded
  /\ told' = [told EXCEPT ![c] = IF sub[i].joined THEN "ok" ELSE "waiting"]
  /\ wants' = [wants EXCEPT ![c] = w]
  /\ IF WidensOnline(i, w)
     THEN /\ refCounter' = r
          /\ sub' = [sub EXCEPT ![i] =
                       [shared EXCEPT !.joined = FALSE, !.joinRef = r]]
          /\ pendingJoins' = pendingJoins \cup {[ref |-> r, sub |-> i]}
          /\ channels' = MarkLeft(sub[i].joinRef) \cup {JoinOf(i, r, widened)}
          /\ leaves' = IF sub[i].joinRef = NoRef THEN leaves
                       ELSE leaves \cup
                              {[ref |-> leaveRef, joinRef |-> sub[i].joinRef]}
     ELSE /\ sub' = [sub EXCEPT ![i] = shared]
          /\ UNCHANGED <<refCounter, pendingJoins, channels, leaves>>
  /\ UNCHANGED <<reconnectTries, reconnectTimer, hbVars, subscriptions, subCount,
                 pendingLeaves, pendingUnsubscribes, unsub, heard, faults>>

\* subscribe() for a joined topic whose onSubscribed throws, which nothing
\* catches: the callbacks are registered, the filter and the handlers are not.
SubscribeInterrupted(c, t) ==
  LET i == subscriptions[t] IN
  /\ CallbacksThrow
  /\ told[c] = "idle"
  /\ i # NoSub
  /\ sub[i].joined
  /\ ConnectIfNeeded
  /\ told' = [told EXCEPT ![c] = "ok"]
  /\ sub' = [sub EXCEPT ![i].callbacks = @ \cup {c}]
  /\ UNCHANGED <<reconnectTries, reconnectTimer, hbVars, refCounter, subscriptions,
                 subCount, replyVars, wants, heard, serverVars, faults>>

\* unsubscribeTopic() for live subscription i; s is the object afterwards.
LeaveTopic(i, s) ==
  LET r == refCounter + 1 IN
  /\ subscriptions' = [subscriptions EXCEPT ![sub[i].topic] = NoSub]
  /\ sub' = [sub EXCEPT ![i] = [s EXCEPT !.rejoinTimer = FALSE]]
  /\ IF isConnected /\ sub[i].joinRef # NoRef
     THEN /\ refCounter' = r
          /\ pendingUnsubscribes' = pendingUnsubscribes \cup {i}
          /\ pendingLeaves' = pendingLeaves \cup {[ref |-> r, sub |-> i]}
          /\ unsub' = [unsub EXCEPT ![i] = "waiting"]
          /\ leaves' = leaves \cup {[ref |-> r, joinRef |-> sub[i].joinRef]}
          /\ channels' = MarkLeft(sub[i].joinRef)
     ELSE /\ unsub' = [unsub EXCEPT ![i] = "done"]
          /\ UNCHANGED <<refCounter, pendingUnsubscribes, pendingLeaves, serverVars>>
  /\ UNCHANGED <<connVars, hbVars, subCount, pendingJoins, callerVars, faults>>

Unsubscribe(t) ==
  /\ subscriptions[t] # NoSub
  /\ LeaveTopic(subscriptions[t], sub[subscriptions[t]])

\* Caller c drops its handler; the last one to go leaves the topic.
RemoveHandler(c, i) ==
  LET s == [sub[i] EXCEPT !.handlers = @ \ {c}] IN
  /\ i \in Live
  /\ c \in sub[i].handlers
  /\ IF s.handlers = {}
     THEN LeaveTopic(i, s)
     ELSE /\ sub' = [sub EXCEPT ![i] = s]
          /\ UNCHANGED <<connVars, hbVars, refCounter, subscriptions, subCount,
                         replyVars, callerVars, serverVars, faults>>

\* The rejoin timer of object i.  It looks for the topic, not for i, and it
\* sends the join without clearing joined.
RejoinTimeout(i) ==
  LET r == refCounter + 1
      rejoins == isConnected /\ subscriptions[sub[i].topic] # NoSub
  IN
  /\ sub[i].rejoinTimer
  /\ IF rejoins
     THEN /\ refCounter' = r
          /\ sub' = [sub EXCEPT ![i].rejoinTimer = FALSE, ![i].joinRef = r]
          /\ pendingJoins' = pendingJoins \cup {[ref |-> r, sub |-> i]}
          /\ channels' = channels \cup {JoinOf(i, r, sub[i].filter)}
     ELSE /\ sub' = [sub EXCEPT ![i].rejoinTimer = FALSE]
          /\ UNCHANGED <<refCounter, pendingJoins, channels>>
  /\ UNCHANGED <<connVars, hbVars, subscriptions, subCount, pendingLeaves,
                 pendingUnsubscribes, unsub, callerVars, leaves, faults>>

-----------------------------------------------------------------------------
(* Replies and frames                                                      *)

\* Mutant: any reply counts as success.
JoinedByAnyReply(i, status) == [sub[i] EXCEPT !.joined = TRUE, !.rejoinTries = 0]

\* Subscription i after the answer to its join: a refusal changes nothing.
JoinOutcome(i, status) ==
  IF status = "ok" THEN [sub[i] EXCEPT !.joined = TRUE, !.rejoinTries = 0]
                   ELSE sub[i]

\* The server answers the join of ch.  An answer nobody waits for any more
\* (the join timed out) still proves the connection.
JoinReply(ch, status) ==
  LET waiting == {p \in pendingJoins : p.ref = ch.ref}
      i == ch.sub
  IN
  /\ ch \in channels /\ ~ch.up
  /\ status \in JoinStatuses
  /\ Proven
  /\ channels' = (channels \ {ch}) \cup
                   (IF status = "ok" THEN {[ch EXCEPT !.up = TRUE]} ELSE {})
  /\ pendingJoins' = pendingJoins \ waiting
  /\ IF waiting = {}
     THEN UNCHANGED <<sub, told>>
     ELSE /\ \E called \in Reached(sub[i].callbacks) : Tell(called, status)
          /\ sub' = [sub EXCEPT ![i] = JoinOutcome(i, status)]
  /\ UNCHANGED <<hbVars, refCounter, subscriptions, subCount, pendingLeaves,
                 pendingUnsubscribes, unsub, wants, heard, leaves, faults>>

\* The server answers a leave once it has answered the join it undoes.
LeaveReply(l) ==
  LET settled == {p \in pendingLeaves : p.ref = l.ref}
      done == {p.sub : p \in settled}
  IN
  /\ l \in leaves
  /\ \A ch \in channels : ch.ref = l.joinRef => ch.up
  /\ Proven
  /\ leaves' = leaves \ {l}
  /\ pendingLeaves' = pendingLeaves \ settled
  /\ pendingUnsubscribes' = pendingUnsubscribes \ done
  /\ unsub' = [i \in SubIds |-> IF i \in done THEN "done" ELSE unsub[i]]
  /\ UNCHANGED <<hbVars, refCounter, subVars, pendingJoins, callerVars, channels,
                 faults>>

\* A join is not answered in time: its callers hear of it, nothing retries.
JoinTimeout(p) ==
  /\ p \in pendingJoins
  /\ pendingJoins' = pendingJoins \ {p}
  /\ \E called \in Reached(sub[p.sub].callbacks) : Tell(called, "error")
  /\ UNCHANGED <<connVars, hbVars, refCounter, subVars, pendingLeaves,
                 pendingUnsubscribes, unsub, wants, heard, serverVars, faults>>

\* Mutant: the timeout of a leave settles nothing.
LeaveTimeoutForgotten(p) ==
  /\ p \in pendingLeaves
  /\ pendingLeaves' = pendingLeaves \ {p}
  /\ UNCHANGED <<connVars, hbVars, refCounter, subVars, pendingJoins, unsub,
                 pendingUnsubscribes, callerVars, serverVars, faults>>

\* A leave is not answered in time, which counts as done.
LeaveTimeout(p) ==
  /\ p \in pendingLeaves
  /\ pendingLeaves' = pendingLeaves \ {p}
  /\ pendingUnsubscribes' = pendingUnsubscribes \ {p.sub}
  /\ unsub' = [unsub EXCEPT ![p.sub] = "done"]
  /\ UNCHANGED <<connVars, hbVars, refCounter, subVars, pendingJoins, callerVars,
                 serverVars, faults>>

\* Mutant: no join-ref guard.
NeverStale(t, joinRef) == FALSE

\* Does handleMessage take a frame of topic t with this join ref for a stale
\* one?  A frame without a join ref never is.
Stale(t, joinRef) ==
  LET i == subscriptions[t] IN
  /\ i # NoSub
  /\ joinRef # NoRef
  /\ sub[i].joinRef # NoRef
  /\ joinRef # sub[i].joinRef

\* The server closes a channel the client has left or joined again; any other
\* channel that dies is a fault.
ChannelEnds(ch) ==
  /\ ch \in channels /\ ch.up
  /\ IF ch.left \/ \E o \in channels : o.topic = ch.topic /\ o.ref > ch.ref
     THEN UNCHANGED faults
     ELSE Fault

\* phx_error or phx_close for a topic nobody holds, or of an earlier join.
ChannelDownIgnored(ch) ==
  /\ ChannelEnds(ch)
  /\ subscriptions[ch.topic] = NoSub \/ Stale(ch.topic, ch.ref)
  /\ channels' = channels \ {ch}
  /\ UNCHANGED <<connVars, hbVars, refCounter, subVars, replyVars, callerVars,
                 leaves>>

\* Mutant: the error is reported and nothing rejoins.
DeadUntilReconnect(s) == [s EXCEPT !.rejoinTries = @ + 1]

\* Subscription object s with its rejoin timer armed.
scheduleRejoin(s) == [s EXCEPT !.rejoinTimer = TRUE, !.rejoinTries = @ + 1]

\* phx_error or phx_close for a live subscription: report it, then schedule a
\* rejoin, on an object the error handler may just have dropped.
ChannelDown(ch, reaction) ==
  LET i == subscriptions[ch.topic]
      down == [sub[i] EXCEPT !.joined = FALSE]
  IN
  /\ ChannelEnds(ch)
  /\ i # NoSub /\ ~Stale(ch.topic, ch.ref)
  /\ \/ /\ reaction = "return"
        /\ channels' = channels \ {ch}
        /\ sub' = [sub EXCEPT ![i] = scheduleRejoin(down)]
        /\ UNCHANGED <<connVars, hbVars, refCounter, subscriptions, subCount,
                       replyVars, callerVars, leaves>>
     \/ /\ reaction = "disconnect"
        /\ DropEverything
        /\ sub' = [WithoutRejoinTimers EXCEPT ![i] = scheduleRejoin(down)]
        /\ clearReconnectTimer
        /\ UNCHANGED reconnectTries
     \/ /\ reaction = "throw"
        /\ channels' = channels \ {ch}
        /\ sub' = [sub EXCEPT ![i] = down]
        /\ UNCHANGED <<connVars, hbVars, refCounter, subscriptions, subCount,
                       replyVars, callerVars, leaves>>

\* An event of channel ch reaches the handlers registered for it.  Its frame
\* carries the join ref of the channel, or none.
Dispatch(ch, e, joinRef) ==
  LET i == subscriptions[ch.topic]
      listening == {c \in sub[i].handlers : e \in wants[c]}
  IN
  /\ ch \in channels /\ ch.up
  /\ e \in ch.filter
  /\ i # NoSub /\ ~Stale(ch.topic, joinRef)
  /\ \E called \in Reached(listening) :
       heard' = [c \in Callers |->
                   IF c \in called /\ joinRef # NoRef
                   THEN heard[c] \cup {ch.sub} ELSE heard[c]]
  /\ UNCHANGED <<connVars, hbVars, refCounter, subVars, replyVars, told, wants,
                 serverVars, faults>>

-----------------------------------------------------------------------------

Consumer ==
  \/ Connect
  \/ Disconnect
  \/ \E c \in Callers, t \in Topics, w \in Requests :
        SubscribeNew(c, t, w) \/ SubscribeShared(c, t, w)
  \/ \E c \in Callers, t \in Topics : SubscribeInterrupted(c, t)
  \/ \E t \in Topics : Unsubscribe(t)
  \/ \E c \in Callers, i \in SubIds : RemoveHandler(c, i)

Timers ==
  \/ ReconnectTimeout
  \/ SendHeartbeat
  \/ \E reaction \in ErrorReactions : HeartbeatTimeout(reaction)
  \/ \E i \in SubIds : RejoinTimeout(i)
  \/ \E p \in pendingJoins : JoinTimeout(p)
  \/ \E p \in pendingLeaves : LeaveTimeout(p)

SocketEvents == HandleOpen \/ SocketDrop \/ HandleClose

Server ==
  \/ HeartbeatReply
  \/ \E ch \in channels, status \in JoinStatuses : JoinReply(ch, status)
  \/ \E l \in leaves : LeaveReply(l)
  \/ \E ch \in channels : ChannelDownIgnored(ch)
  \/ \E ch \in channels, reaction \in ErrorReactions : ChannelDown(ch, reaction)
  \/ \E ch \in channels, e \in Events :
       \E joinRef \in {ch.ref, NoRef} : Dispatch(ch, e, joinRef)

\* No teardown is cut short.
Contained == Consumer \/ Timers \/ SocketEvents \/ Server

\* A teardown ends where an unsubscribe callback throws, with what comes after
\* it left undone.
Aborted ==
  \E last \in pendingLeaves :
    DisconnectAborted(last) \/ HandleCloseAborted(last) \/ HeartbeatTimeoutAborted(last)

Next == Contained \/ Aborted

Spec == Init /\ [][Next]_vars

\* An armed timer fires, a socket leaves CONNECTING and CLOSING; nothing is
\* assumed of the consumer, and of the server only the bound on faults.
Fairness ==
  /\ WF_vars(HandleOpen)
  /\ WF_vars(HandleClose)
  /\ WF_vars(ReconnectTimeout)
  /\ \A i \in SubIds : WF_vars(RejoinTimeout(i))
  /\ WF_vars(\E p \in pendingJoins : JoinTimeout(p))
  /\ WF_vars(\E p \in pendingLeaves : LeaveTimeout(p))

FairSpec == Spec /\ Fairness
=============================================================================
