------------------------------ MODULE OAuthDevice ------------------------------
(***************************************************************************)
(* The device-authorization flow of OpenSeaOAuth (src/src/auth/oauth.ts):  *)
(* discovery, a device code, and pollDeviceToken, which polls until the    *)
(* user has decided or the code has run out.                               *)
(*                                                                         *)
(* Time passes in units.  A timer fires when it is due, and a response may *)
(* take any time; what is left of an interval is counted down.  The        *)
(* authorization server and the user are external.                         *)
(***************************************************************************)
EXTENDS Naturals

CONSTANTS
  Interval,      \* device.interval, or its default
  SlowDown,      \* what a slow_down adds to the interval
  Lifetime,      \* device.expires_in
  timeoutMs,     \* until a request without a response is aborted
  MaxSlowDowns   \* bound: slow_down answers

ASSUME TimesAssumption ==
  /\ Interval \in Nat \ {0} /\ SlowDown \in Nat /\ Lifetime \in Nat \ {0}
  /\ timeoutMs \in Nat \ {0} /\ MaxSlowDowns \in Nat

VARIABLES
  step,        \* where the flow is
  awaiting,    \* what its promise chain waits for
  answer,      \* the server's to the request under way
  timer,       \* time left to the request's timeout
  intervalMs,
  deadline,    \* time left to the client's deadline
  wait,        \* time left of the sleep between two polls
  user,        \* what the user decided
  approvedLeft,\* what was left of the code when polling could see the approval
  validity,    \* time left of the device code
  redeemed,    \* has the server issued the token?
  slowDowns,   \* slow_down answers so far
  sincePoll,   \* time since the latest poll was sent
  failed       \* has a request failed or timed out?

request == <<awaiting, answer, timer>>
client == <<step, request, intervalMs, deadline, wait>>
outside == <<user, approvedLeft, validity, redeemed, slowDowns>>
vars == <<client, outside, sincePoll, failed>>

Settled == step \in {"token", "rejected"}

Init ==
  /\ step = "start" /\ awaiting = "nothing" /\ answer = "none" /\ timer = 0
  /\ intervalMs = Interval /\ deadline = 0 /\ wait = 0
  /\ user = "undecided" /\ approvedLeft = 0 /\ validity = 0
  /\ redeemed = FALSE /\ slowDowns = 0
  /\ sincePoll = 0 /\ failed = FALSE

-----------------------------------------------------------------------------
(* Requests                                                                *)

\* fetchWithTimeout: the request of step s is on its way, its timeout armed.
Send(s) ==
  /\ step' = s
  /\ awaiting' = "headers" /\ answer' = "none" /\ timer' = timeoutMs
  /\ sincePoll' = IF s = "poll" THEN 0 ELSE sincePoll

\* The flow goes on at step s without a request.
Goto(s) ==
  /\ step' = s
  /\ awaiting' = "nothing" /\ answer' = "none" /\ timer' = 0
  /\ UNCHANGED sincePoll

\* A response has begun: the timeout is cleared before its body is read.
Headers ==
  /\ awaiting = "headers" /\ answer # "none"
  /\ awaiting' = "body" /\ timer' = 0
  /\ UNCHANGED <<step, answer, intervalMs, deadline, wait, outside, sincePoll,
                 failed>>

\* The request times out, its transport fails or its body makes no sense (a
\* token without a refresh token, for one), which rejects whatever the step.
RequestFails ==
  /\ awaiting # "nothing"
  /\ failed' = TRUE
  /\ Goto("rejected")
  /\ UNCHANGED <<intervalMs, deadline, wait, outside>>

\* The timeout is due.
RequestTimeout == awaiting = "headers" /\ timer = 0 /\ RequestFails

Answered(s, a) == step = s /\ awaiting = "body" /\ answer = a

-----------------------------------------------------------------------------
(* The flow                                                                *)

\* requestDeviceAuthorization, which needs the discovery document first.
RequestDeviceAuthorization ==
  /\ step = "start"
  /\ Send("discovery")
  /\ UNCHANGED <<intervalMs, deadline, wait, outside, failed>>

\* getDiscovery: the document must name this issuer and secure endpoints.
Discovered ==
  /\ \/ Answered("discovery", "ok") /\ Send("authorize")
     \/ Answered("discovery", "invalid") /\ Goto("rejected")
  /\ UNCHANGED <<intervalMs, deadline, wait, outside, failed>>

\* The user is shown the code.
Authorized ==
  /\ Answered("authorize", "ok")
  /\ Goto("shown")
  /\ UNCHANGED <<intervalMs, deadline, wait, outside, failed>>

\* pollDeviceToken: poll first, then sleep; the deadline counts from here.
PollDeviceToken ==
  /\ step = "shown"
  /\ Send("poll")
  /\ deadline' = Lifetime
  /\ approvedLeft' = IF user = "approved" THEN validity ELSE approvedLeft
  /\ UNCHANGED <<intervalMs, wait, user, validity, redeemed, slowDowns, failed>>

\* Mutants: a slow_down is forgotten; a pending answer stretches the interval.
sameInterval == intervalMs
longerEveryTime == intervalMs + SlowDown

\* The interval after a poll that was answered with a.
intervalAfter == IF answer = "slow_down" THEN intervalMs + SlowDown ELSE intervalMs

\* Mutant: an answer that comes after the deadline is dropped.
accepted == answer = "ok" /\ deadline > 0

\* A token is taken whenever it comes.
takesToken == answer = "ok"

Polled ==
  /\ step = "poll" /\ awaiting = "body"
  /\ IF answer \in {"authorization_pending", "slow_down"}
     THEN /\ intervalMs' = intervalAfter
          /\ wait' = intervalMs'
          /\ Goto("sleep")
     ELSE /\ Goto(IF takesToken THEN "token" ELSE "rejected")
          /\ UNCHANGED <<intervalMs, wait>>
  /\ UNCHANGED <<deadline, outside, failed>>

\* Mutant: the loop has no end.
beforeEver == TRUE

beforeDeadline == deadline > 0

Wake ==
  /\ step = "sleep" /\ wait = 0
  /\ IF beforeDeadline THEN Send("poll") ELSE Goto("rejected")
  /\ UNCHANGED <<intervalMs, deadline, wait, outside, failed>>

-----------------------------------------------------------------------------
(* The server, the user and time                                           *)

Serve(a) == answer' = a /\ UNCHANGED <<step, awaiting, timer, intervalMs, deadline,
                                       wait, user, approvedLeft, sincePoll, failed>>

Waiting(s) == step = s /\ awaiting = "headers" /\ answer = "none"

DiscoveryServed ==
  /\ Waiting("discovery")
  /\ Serve("ok") \/ Serve("invalid")
  /\ UNCHANGED <<validity, redeemed, slowDowns>>

CodeIssued ==
  /\ Waiting("authorize")
  /\ Serve("ok")
  /\ validity' = Lifetime
  /\ UNCHANGED <<redeemed, slowDowns>>

\* The token is issued once, and not for a code that has run out, which the
\* server may or may not say; a client that polls too often is told to slow down.
PollServed ==
  /\ Waiting("poll")
  /\ UNCHANGED validity
  /\ \/ /\ validity = 0
        /\ Serve("expired_token") \/ Serve("authorization_pending")
        /\ UNCHANGED <<redeemed, slowDowns>>
     \/ /\ validity > 0 /\ user = "denied"
        /\ Serve("access_denied") /\ UNCHANGED <<redeemed, slowDowns>>
     \/ /\ validity > 0 /\ user = "approved" /\ ~redeemed
        /\ Serve("ok") /\ redeemed' = TRUE /\ UNCHANGED slowDowns
     \/ /\ validity > 0 /\ user = "undecided"
        /\ Serve("authorization_pending") /\ UNCHANGED <<redeemed, slowDowns>>
     \/ /\ validity > 0 /\ user = "undecided" /\ slowDowns < MaxSlowDowns
        /\ Serve("slow_down") /\ slowDowns' = slowDowns + 1 /\ UNCHANGED redeemed

Decide ==
  /\ user = "undecided" /\ validity > 0
  /\ \/ user' = "approved" /\ approvedLeft' = validity
     \/ user' = "denied" /\ UNCHANGED approvedLeft
  /\ UNCHANGED <<client, validity, redeemed, slowDowns, sincePoll, failed>>

\* A timer that is due fires before time goes on, and a response that has begun
\* ends within the unit.
TimerDue ==
  \/ step = "sleep" /\ wait = 0
  \/ awaiting = "headers" /\ timer = 0
  \/ awaiting = "body"

Left(t) == IF t = 0 THEN 0 ELSE t - 1

\* Longest that a poll has to wait for the next one, and a bound on sincePoll.
LongestInterval == Interval + SlowDown * MaxSlowDowns

Tick ==
  /\ ~TimerDue /\ ~Settled
  /\ deadline' = Left(deadline) /\ wait' = Left(wait) /\ timer' = Left(timer)
  /\ validity' = Left(validity)
  /\ sincePoll' = IF sincePoll < LongestInterval THEN sincePoll + 1 ELSE sincePoll
  /\ UNCHANGED <<step, awaiting, answer, intervalMs, user, approvedLeft, redeemed,
                 slowDowns, failed>>

-----------------------------------------------------------------------------

Next ==
  \/ RequestDeviceAuthorization \/ Discovered \/ Authorized \/ PollDeviceToken
  \/ Polled \/ Wake \/ Headers \/ RequestFails
  \/ DiscoveryServed \/ CodeIssued \/ PollServed \/ Decide \/ Tick

Spec == Init /\ [][Next]_vars

\* Time passes, timers fire and bodies are read; nothing is assumed of the user,
\* and of the server only that it ends a response it has begun.
FairSpec ==
  Spec /\ WF_vars(Tick) /\ WF_vars(Wake) /\ WF_vars(Headers) /\ WF_vars(Polled)
       /\ WF_vars(RequestTimeout)

-----------------------------------------------------------------------------
(* Properties                                                              *)

\* Polls keep the distance the server asked for: its interval, and what every
\* slow_down so far has added to it (oauth.ts:223-224, 252-253).
KeepsDistance ==
  [][step = "sleep" /\ step' = "poll" =>
       sincePoll >= Interval + SlowDown * slowDowns]_vars

\* A token the server has issued is not dropped, however late it comes: only a
\* request that fails can lose it.
IssuedIsTaken == redeemed /\ step = "rejected" => failed

\* A user who approves while there is still time for a poll under way, a sleep
\* and one more poll gets the token: the client sleeps no longer than the server
\* asked for, and gives up no earlier than the code does.
ApprovedInTime ==
  user = "approved" /\ step = "rejected" /\ ~failed =>
    approvedLeft <= 2 * timeoutMs + Interval + SlowDown * slowDowns

\* Polling ends, also when the user never decides and the server never answers.
PollingEnds == step = "poll" ~> Settled
=============================================================================
