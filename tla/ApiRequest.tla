------------------------------ MODULE ApiRequest ------------------------------
(***************************************************************************)
(* A request of the API client: _fetch with its timeout and abort signal   *)
(* (src/src/api/api.ts) inside executeWithRateLimit                        *)
(* (src/src/utils/rateLimit.ts), alone or as one of the operations of      *)
(* executeSequentialWithRateLimit, which wraps each operation in a retry   *)
(* loop of its own.                                                        *)
(*                                                                         *)
(* A promise chain runs undisturbed up to the next thing it waits for: the *)
(* transport, the response body or a retry delay.  Those, the timeout and  *)
(* the caller's abort interleave.  The server is external and performs a   *)
(* request when it gets to it, also one whose caller has given up.         *)
(***************************************************************************)
EXTENDS Naturals

CONSTANTS
  Operations,  \* operations of the batch
  Batched,     \* executeSequentialWithRateLimit, or one request by itself?
  maxRetries

ASSUME CallAssumption ==
  /\ Operations \in Nat \ {0} /\ maxRetries \in Nat
  /\ Batched \in BOOLEAN /\ (~Batched => Operations = 1)

VARIABLES
  hasTimeout, hasSignal,   \* options.timeout, options.signal
  aborted,                 \* options.signal.aborted
  at,                      \* the operation under way
  phase,                   \* what the promise chain waits for
  attempt, outerAttempt,   \* of the request's loop and of the batch's
  wire,                    \* the latest request, as far as the server got
  performed,               \* how often the server performed each operation
  cut,                     \* the signal handed to the transport has fired
  timer,                   \* is the timeout of _fetch armed?
  listeners                \* abort listeners on options.signal

options == <<hasTimeout, hasSignal>>
loops == <<at, attempt, outerAttempt>>
requestVars == <<cut, timer, listeners>>
vars == <<options, aborted, loops, phase, wire, performed, requestVars>>

Ops == 1..Operations

Phases == {"start", "fetch", "body", "limitBody", "errorBody", "sleep",
           "resolved", "rejected"}
Wires == {"none", "sent", "ok", "limited", "failed"}

\* Every variable has its type; the loops stay within their retries.
TypeOK ==
  /\ hasTimeout \in BOOLEAN /\ hasSignal \in BOOLEAN /\ aborted \in BOOLEAN
  /\ at \in Ops
  /\ phase \in Phases
  /\ attempt \in 0..maxRetries /\ outerAttempt \in 0..maxRetries
  /\ wire \in Wires
  /\ performed \in [Ops -> Nat]
  /\ cut \in BOOLEAN /\ timer \in BOOLEAN
  /\ listeners \subseteq {"fetch", "sleep"}

Init ==
  /\ hasTimeout \in BOOLEAN /\ hasSignal \in BOOLEAN
  /\ aborted = FALSE
  /\ at = 1 /\ attempt = 0 /\ outerAttempt = 0
  /\ phase = "start"
  /\ wire = "none"
  /\ performed = [k \in Ops |-> 0]
  /\ cut = FALSE /\ timer = FALSE /\ listeners = {}

Settled == phase \in {"resolved", "rejected"}

-----------------------------------------------------------------------------
(* Helpers                                                                 *)

\* Mutant: the signal is only listened to, which misses an earlier abort.
NeverBefore == FALSE

\* _fetch does not send with a signal that has fired already.
AbortedBefore == aborted

\* _fetch: arm the timeout, listen to the signal and send, or throw; left are
\* the listeners on the signal by then.
EnterFetch(left) ==
  IF AbortedBefore
  THEN /\ phase' = "rejected" /\ UNCHANGED wire
       /\ cut' = FALSE /\ timer' = FALSE /\ listeners' = left
  ELSE /\ phase' = "fetch" /\ wire' = "sent"
       /\ cut' = FALSE /\ timer' = hasTimeout
       /\ listeners' = left \cup (IF hasTimeout /\ hasSignal THEN {"fetch"} ELSE {})

\* Mutants: every error is worth a retry; one retry too many.
anyError(error) == TRUE
oneMoreRetry == attempt <= maxRetries

isRateLimitError(error) == error = "rate limit"
retriesLeft == attempt < maxRetries

\* sleep() rejects at once when the signal has fired.
abortedSleep == aborted

\* Mutant: the listener of _fetch is left on the signal.
notCleanedUp == listeners

\* The finally of _fetch takes its listener off the signal.
cleanedUp == listeners \ {"fetch"}

\* The operation throws: _fetch cleans up, and a loop with retries left waits
\* to try again when the error is a rate limit.
Throw(error) ==
  /\ cut' = FALSE /\ timer' = FALSE
  /\ IF /\ isRateLimitError(error)
        /\ retriesLeft \/ (Batched /\ outerAttempt < maxRetries)
        /\ ~abortedSleep
     THEN /\ phase' = "sleep"
          /\ listeners' = cleanedUp \cup (IF hasSignal THEN {"sleep"} ELSE {})
     ELSE /\ phase' = "rejected"
          /\ listeners' = cleanedUp
  /\ UNCHANGED <<options, aborted, loops, wire, performed>>

-----------------------------------------------------------------------------
(* The promise chain                                                       *)

Begin ==
  /\ phase = "start"
  /\ EnterFetch(listeners)
  /\ UNCHANGED <<options, aborted, loops, performed>>

\* Mutant: the timeout only covers the headers.
timerEndsWithHeaders == timer' = FALSE

\* The timeout keeps running while the body is read.
timerCoversBody == UNCHANGED timer

\* The transport resolves with the headers of the response.
Headers ==
  /\ phase = "fetch" /\ wire \in {"ok", "limited", "failed"}
  /\ phase' = CASE wire = "ok" -> "body"
                [] wire = "limited" -> "limitBody"
                [] wire = "failed" -> "errorBody"
  /\ timerCoversBody
  /\ UNCHANGED <<options, aborted, loops, wire, performed, cut, listeners>>

\* The transport, or the reading of a successful body, fails: the signal has
\* fired, the network broke or the body is not JSON.
FetchFails == phase \in {"fetch", "body"} /\ Throw("transport")

\* The body of an error response is read or is not: the error is thrown.
ErrorBody == phase = "errorBody" /\ Throw("server")
LimitBody == phase = "limitBody" /\ Throw("rate limit")

\* The operation succeeds, and a batch goes on to the next one.
Body ==
  /\ phase = "body"
  /\ IF at < Operations
     THEN /\ at' = at + 1
          /\ attempt' = 0 /\ outerAttempt' = 0
          /\ EnterFetch(cleanedUp)
     ELSE /\ phase' = "resolved"
          /\ cut' = FALSE /\ timer' = FALSE /\ listeners' = cleanedUp
          /\ UNCHANGED <<loops, wire>>
  /\ UNCHANGED <<options, aborted, performed>>

\* Mutant: the listener of sleep() is left on the signal.
leaveListener == listeners

\* sleep() takes its listener off the signal.
dropListener == listeners \ {"sleep"}

\* The delay has passed: the request's own loop retries first, then the batch's.
Wake ==
  /\ phase = "sleep"
  /\ IF retriesLeft
     THEN attempt' = attempt + 1 /\ UNCHANGED outerAttempt
     ELSE attempt' = 0 /\ outerAttempt' = outerAttempt + 1
  /\ EnterFetch(dropListener)
  /\ UNCHANGED <<options, aborted, at, performed>>

-----------------------------------------------------------------------------
(* The server, the timeout and the caller                                  *)

\* The server performs the request, turns it down with a 429 or a 599, or
\* fails it.
Serve ==
  /\ wire = "sent"
  /\ \/ wire' = "ok" /\ performed' = [performed EXCEPT ![at] = @ + 1]
     \/ wire' \in {"limited", "failed"} /\ UNCHANGED performed
  /\ UNCHANGED <<options, aborted, loops, phase, requestVars>>

\* The timeout of this attempt.
Timeout ==
  /\ timer
  /\ timer' = FALSE
  /\ cut' = TRUE
  /\ UNCHANGED <<options, aborted, loops, phase, wire, performed, listeners>>

\* Mutant: the caller's abort is not passed on to the controller of the timeout.
hearsDirectly == ~hasTimeout

\* Does the signal the transport was given fire when the caller aborts?
hearsAbort == ~hasTimeout \/ "fetch" \in listeners

\* The caller aborts: a delay ends, a request under way is cut.
Abort ==
  /\ hasSignal /\ ~aborted
  /\ aborted' = TRUE
  /\ IF phase = "sleep"
     THEN phase' = "rejected" /\ UNCHANGED cut
     ELSE /\ cut' = (cut \/ (phase \in {"fetch", "body", "limitBody", "errorBody"}
                              /\ hearsAbort))
          /\ UNCHANGED phase
  /\ timer' = (timer /\ "fetch" \notin listeners)
  /\ listeners' = listeners \ {"sleep"}
  /\ UNCHANGED <<options, loops, wire, performed>>

-----------------------------------------------------------------------------

\* A transport whose signal has fired gives up.
CutShort == cut /\ (FetchFails \/ ErrorBody \/ LimitBody)

Next ==
  \/ Begin \/ Headers \/ FetchFails \/ ErrorBody \/ LimitBody \/ Body \/ Wake
  \/ Serve \/ Timeout \/ Abort

Spec == Init /\ [][Next]_vars

\* Timers fire, and a transport respects its signal; nothing is assumed of the
\* server.
FairSpec ==
  Spec /\ WF_vars(Begin) /\ WF_vars(Wake) /\ WF_vars(Timeout) /\ WF_vars(CutShort)

-----------------------------------------------------------------------------
(* Properties                                                              *)

\* No operation is performed twice, however often it is retried, timed out or
\* aborted, and a batch performs them in order, each after the one before it
\* succeeded (rateLimit.ts:96-99, 154-164).
PerformedInOrder ==
  \A k \in Ops :
    /\ performed[k] <= 1
    /\ performed[k] = 0 => k >= at /\ ~(k = at /\ phase = "resolved")
    /\ performed[k] = 1 => k <= at

\* A request that has settled, or is waiting to be retried, leaves no timeout
\* running and no listener of its own on a signal that may outlive it
\* (api.ts:1857-1864, rateLimit.ts:53-58).
NothingLeaks ==
  /\ Settled => ~timer /\ listeners = {}
  /\ phase = "sleep" => ~timer /\ "fetch" \notin listeners

\* An aborted caller never sits out a retry delay, also when it aborts while
\* the rate-limit response is being read (rateLimit.ts:24-26).
AbortedNeverSleeps == phase = "sleep" => ~aborted

\* Once the caller has aborted nothing more is sent: no retry, no further
\* operation of the batch, and nothing at all if it aborted beforehand.
AbortedSendsNothing ==
  [][aborted => ~(phase # "fetch" /\ phase' = "fetch")]_vars

\* With a timeout every request settles, however the server behaves.
TimeoutSettles == hasTimeout ~> Settled

\* An abort settles the request, with a timeout or without, however the server
\* behaves.
AbortSettles == aborted ~> Settled

-----------------------------------------------------------------------------
(* What makes the safety properties inductive                              *)

\* A phase says how far the server got with the latest request.
WireMatchesPhase ==
  /\ phase = "start" => wire = "none"
  /\ phase \in {"body", "resolved"} => wire = "ok"
  /\ phase \in {"limitBody", "sleep"} => wire = "limited"
  /\ phase = "errorBody" => wire = "failed"

\* The operations before the one under way are done, the later ones are not.
Progress ==
  /\ \A k \in Ops : k < at => performed[k] = 1
  /\ \A k \in Ops : k > at => performed[k] = 0
  /\ performed[at] <= 1
  /\ phase # "rejected" => (performed[at] = 1 <=> wire = "ok")
  /\ wire = "sent" => performed[at] = 0

\* Only a loop with retries left sleeps, and only sleep() listens meanwhile.
SleepIsPaired ==
  /\ phase = "sleep" => attempt < maxRetries \/ outerAttempt < maxRetries
  /\ phase # "sleep" => listeners \subseteq {"fetch"}
  /\ phase = "start" => ~timer /\ listeners = {}

\* The inductive invariant, next to TypeOK.
RequestInv ==
  /\ WireMatchesPhase /\ Progress /\ SleepIsPaired
  /\ NothingLeaks /\ AbortedNeverSleeps
=============================================================================
