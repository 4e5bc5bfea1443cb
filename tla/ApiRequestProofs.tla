---------------------------- MODULE ApiRequestProofs ----------------------------
(***************************************************************************)
(* Theorems about ApiRequest: its safety properties, for every number of   *)
(* operations and retries.                                                 *)
(***************************************************************************)
EXTENDS ApiRequest, TLAPS

\* What sending a request, or finding the signal fired, does to the state.
LEMMA EnterFetchEffect ==
  ASSUME TypeOK, NEW left, left \subseteq {"fetch", "sleep"}, EnterFetch(left)
  PROVE  /\ timer' \in BOOLEAN /\ cut' \in BOOLEAN
         /\ wire' \in Wires /\ phase' \in {"fetch", "rejected"}
         /\ phase' = "fetch" => wire' = "sent" /\ ~aborted
                                /\ listeners' \subseteq left \cup {"fetch"}
         /\ phase' = "rejected" => wire' = wire /\ ~timer' /\ listeners' = left
         /\ listeners' \subseteq left \cup {"fetch"}
<1>1. CASE AbortedBefore
  BY <1>1, Zenon DEF EnterFetch, AbortedBefore, TypeOK
<1>2. CASE ~AbortedBefore
  <2>1. /\ phase' = "fetch" /\ wire' = "sent" /\ cut' = FALSE /\ timer' = hasTimeout
        /\ listeners' = left \cup (IF hasTimeout /\ hasSignal THEN {"fetch"} ELSE {})
    BY <1>2, Zenon DEF EnterFetch
  <2>2. listeners' \subseteq left \cup {"fetch"}
    BY <2>1, Zenon
  <2> QED
    BY <1>2, <2>1, <2>2, Zenon DEF AbortedBefore, TypeOK, Wires
<1> QED
  BY <1>1, <1>2

\* What an operation that throws does to the state.
LEMMA ThrowEffect ==
  ASSUME TypeOK, SleepIsPaired, phase # "sleep", NEW error, Throw(error)
  PROVE  /\ cut' = FALSE /\ timer' = FALSE
         /\ UNCHANGED <<options, aborted, loops, wire, performed>>
         /\ \/ /\ phase' = "sleep" /\ error = "rate limit" /\ ~aborted
               /\ retriesLeft \/ outerAttempt < maxRetries
               /\ listeners' \subseteq {"sleep"}
            \/ phase' = "rejected" /\ listeners' = {}
<1>1. listeners \ {"fetch"} = {}
  BY Zenon DEF SleepIsPaired
<1>2. cut' = FALSE /\ timer' = FALSE /\ UNCHANGED <<options, aborted, loops, wire, performed>>
  BY Zenon DEF Throw
<1>3. CASE /\ isRateLimitError(error)
           /\ retriesLeft \/ (Batched /\ outerAttempt < maxRetries)
           /\ ~abortedSleep
  <2>1. /\ phase' = "sleep"
        /\ listeners' = cleanedUp \cup (IF hasSignal THEN {"sleep"} ELSE {})
    BY <1>3, Zenon DEF Throw
  <2>2. listeners' \subseteq {"sleep"}
    BY <1>1, <2>1, Zenon DEF cleanedUp
  <2> QED
    BY <1>2, <1>3, <2>1, <2>2, Zenon DEF isRateLimitError, abortedSleep
<1>4. CASE ~ (/\ isRateLimitError(error)
              /\ retriesLeft \/ (Batched /\ outerAttempt < maxRetries)
              /\ ~abortedSleep)
  <2>1. phase' = "rejected" /\ listeners' = cleanedUp
    BY <1>4, Zenon DEF Throw
  <2> QED
    BY <1>1, <1>2, <2>1, Zenon DEF cleanedUp
<1> QED
  BY <1>3, <1>4, Zenon

-----------------------------------------------------------------------------
(* Types                                                                   *)

LEMMA TypeInit == Init => TypeOK
<1> SUFFICES ASSUME Init PROVE TypeOK
  OBVIOUS
<1>1. at \in Ops /\ attempt \in 0..maxRetries /\ outerAttempt \in 0..maxRetries
  BY CallAssumption DEF Init, Ops
<1>2. performed \in [Ops -> Nat]
  BY DEF Init
<1> QED
  BY <1>1, <1>2, Zenon DEF Init, TypeOK, Phases, Wires

LEMMA TypeStep ==
  ASSUME TypeOK, SleepIsPaired, [Next]_vars
  PROVE  TypeOK'
<1> USE DEF options, loops, requestVars
<1>1. CASE Begin
  <2>1. /\ EnterFetch(listeners) /\ listeners \subseteq {"fetch", "sleep"}
        /\ UNCHANGED <<hasTimeout, hasSignal, aborted, at, attempt, outerAttempt, performed>>
    BY <1>1, Zenon DEF Begin, TypeOK
  <2>2. /\ timer' \in BOOLEAN /\ cut' \in BOOLEAN
        /\ wire' \in Wires /\ phase' \in {"fetch", "rejected"}
        /\ listeners' \subseteq listeners \cup {"fetch"}
    BY <2>1, EnterFetchEffect
  <2> QED
    BY <2>1, <2>2, Zenon DEF TypeOK, Phases
<1>2. CASE Headers
  <2>1. /\ phase' \in {"body", "limitBody", "errorBody"}
        /\ UNCHANGED <<hasTimeout, hasSignal, aborted, at, attempt, outerAttempt, wire,
                       performed, cut, timer, listeners>>
    BY <1>2, Zenon DEF Headers, timerCoversBody
  <2> QED
    BY <2>1, Zenon DEF TypeOK, Phases
<1>3. ASSUME NEW error, phase # "sleep", Throw(error)
      PROVE  TypeOK'
  <2>1. /\ phase' \in {"sleep", "rejected"} /\ listeners' \subseteq {"fetch", "sleep"}
        /\ cut' = FALSE /\ timer' = FALSE
        /\ UNCHANGED <<hasTimeout, hasSignal, aborted, at, attempt, outerAttempt, wire,
                       performed>>
    BY <1>3, ThrowEffect, Zenon
  <2> QED
    BY <2>1, Zenon DEF TypeOK, Phases
<1>4. CASE Body
  <2>1. /\ cleanedUp \subseteq {"fetch", "sleep"}
        /\ UNCHANGED <<hasTimeout, hasSignal, aborted, performed>>
    BY <1>4, Zenon DEF Body, TypeOK, cleanedUp
  <2>2. CASE at < Operations
    <3>1. at' = at + 1 /\ attempt' = 0 /\ outerAttempt' = 0 /\ EnterFetch(cleanedUp)
      BY <1>4, <2>2, Zenon DEF Body
    <3>2. at' \in Ops /\ attempt' \in 0..maxRetries /\ outerAttempt' \in 0..maxRetries
      BY <2>2, <3>1, CallAssumption DEF TypeOK, Ops
    <3>3. /\ timer' \in BOOLEAN /\ cut' \in BOOLEAN
          /\ wire' \in Wires /\ phase' \in {"fetch", "rejected"}
          /\ listeners' \subseteq cleanedUp \cup {"fetch"}
      BY <2>1, <3>1, EnterFetchEffect
    <3> QED
      BY <2>1, <3>2, <3>3, Zenon DEF TypeOK, Phases
  <2>3. CASE ~(at < Operations)
    <3>1. /\ phase' = "resolved"
          /\ cut' = FALSE /\ timer' = FALSE /\ listeners' = cleanedUp
          /\ UNCHANGED <<at, attempt, outerAttempt, wire>>
      BY <1>4, <2>3, Zenon DEF Body
    <3> QED
      BY <2>1, <3>1, Zenon DEF TypeOK, Phases
  <2> QED
    BY <2>2, <2>3
<1>5. CASE Wake
  <2>1. /\ EnterFetch(dropListener) /\ dropListener \subseteq {"fetch", "sleep"}
        /\ UNCHANGED <<hasTimeout, hasSignal, aborted, at, performed>>
    BY <1>5, Zenon DEF Wake, TypeOK, dropListener
  <2>2. attempt' \in 0..maxRetries /\ outerAttempt' \in 0..maxRetries
    BY <1>5, CallAssumption DEF Wake, TypeOK, SleepIsPaired, retriesLeft
  <2>3. /\ timer' \in BOOLEAN /\ cut' \in BOOLEAN
        /\ wire' \in Wires /\ phase' \in {"fetch", "rejected"}
        /\ listeners' \subseteq dropListener \cup {"fetch"}
    BY <2>1, EnterFetchEffect
  <2> QED
    BY <2>1, <2>2, <2>3, Zenon DEF TypeOK, Phases
<1>6. CASE Serve
  <2>1. /\ wire' \in Wires
        /\ UNCHANGED <<hasTimeout, hasSignal, aborted, at, attempt, outerAttempt, phase,
                       cut, timer, listeners>>
    BY <1>6, Zenon DEF Serve, Wires
  <2>2. performed' \in [Ops -> Nat]
    BY <1>6 DEF Serve, TypeOK
  <2> QED
    BY <2>1, <2>2, Zenon DEF TypeOK
<1>7. CASE Timeout
  BY <1>7, Zenon DEF Timeout, TypeOK
<1>8. CASE Abort
  <2>1. /\ aborted' = TRUE /\ timer' \in BOOLEAN /\ listeners' \subseteq {"fetch", "sleep"}
        /\ UNCHANGED <<hasTimeout, hasSignal, at, attempt, outerAttempt, wire, performed>>
    BY <1>8, Zenon DEF Abort, TypeOK
  <2>2. cut' \in BOOLEAN /\ phase' \in Phases
    BY <1>8, Zenon DEF Abort, TypeOK, Phases
  <2> QED
    BY <2>1, <2>2, Zenon DEF TypeOK
<1>9. CASE UNCHANGED vars
  BY <1>9, Zenon DEF vars, TypeOK
<1> QED
  BY <1>1, <1>2, <1>3, <1>4, <1>5, <1>6, <1>7, <1>8, <1>9, Zenon
  DEF Next, FetchFails, ErrorBody, LimitBody

\* A sleep is owed a retry, and a listener its sleep.
LEMMA SleepIsPairedStep ==
  ASSUME TypeOK, SleepIsPaired, [Next]_vars
  PROVE  SleepIsPaired'
<1> USE DEF options, loops, requestVars
<1>1. CASE Begin
  <2>1. EnterFetch(listeners) /\ listeners = {}
    BY <1>1, Zenon DEF Begin, SleepIsPaired
  <2>2. phase' \in {"fetch", "rejected"} /\ listeners' \subseteq {"fetch"}
    BY <2>1, EnterFetchEffect
  <2> QED
    BY <2>2, Zenon DEF SleepIsPaired
<1>2. CASE Headers
  BY <1>2, Zenon DEF Headers, SleepIsPaired
<1>3. ASSUME NEW error, phase # "sleep", Throw(error)
      PROVE  SleepIsPaired'
  <2>1. /\ UNCHANGED <<attempt, outerAttempt>>
        /\ \/ /\ phase' = "sleep" /\ listeners' \subseteq {"sleep"}
              /\ retriesLeft \/ outerAttempt < maxRetries
           \/ phase' = "rejected" /\ listeners' = {}
    BY <1>3, ThrowEffect, Zenon
  <2>2. phase' # "start"
    BY <2>1
  <2>3. phase' = "sleep" => attempt' < maxRetries \/ outerAttempt' < maxRetries
    BY <2>1 DEF retriesLeft
  <2> QED
    BY <2>1, <2>2, <2>3, Zenon DEF SleepIsPaired
<1>4. CASE Body
  <2>1. phase = "body" /\ cleanedUp = {}
    BY <1>4, Zenon DEF Body, SleepIsPaired, cleanedUp
  <2>2. CASE at < Operations
    <3>1. EnterFetch(cleanedUp)
      BY <1>4, <2>2, Zenon DEF Body
    <3>2. phase' \in {"fetch", "rejected"} /\ listeners' \subseteq {"fetch"}
      BY <2>1, <3>1, EnterFetchEffect
    <3> QED
      BY <3>2, Zenon DEF SleepIsPaired
  <2>3. CASE ~(at < Operations)
    BY <1>4, <2>1, <2>3, Zenon DEF Body, SleepIsPaired
  <2> QED
    BY <2>2, <2>3
<1>5. CASE Wake
  <2>1. /\ EnterFetch(dropListener) /\ dropListener \subseteq {"fetch"}
    BY <1>5, Zenon DEF Wake, TypeOK, dropListener
  <2>2. phase' \in {"fetch", "rejected"} /\ listeners' \subseteq {"fetch"}
    BY <2>1, EnterFetchEffect
  <2> QED
    BY <2>2, Zenon DEF SleepIsPaired
<1>6. CASE Serve
  BY <1>6, Zenon DEF Serve, SleepIsPaired
<1>7. CASE Timeout
  BY <1>7, Zenon DEF Timeout, SleepIsPaired
<1>8. CASE Abort
  <2>1. CASE phase = "sleep"
    <3>1. phase' = "rejected" /\ listeners' = listeners \ {"sleep"}
      BY <1>8, <2>1, Zenon DEF Abort
    <3> QED
      BY <3>1, Zenon DEF SleepIsPaired, TypeOK
  <2>2. CASE phase # "sleep"
    <3>1. /\ phase' = phase /\ listeners' = listeners \ {"sleep"} /\ (timer' => timer)
      BY <1>8, <2>2, Zenon DEF Abort
    <3> QED
      BY <2>2, <3>1, Zenon DEF SleepIsPaired
  <2> QED
    BY <2>1, <2>2
<1>9. CASE UNCHANGED vars
  BY <1>9, Zenon DEF vars, SleepIsPaired
<1> QED
  BY <1>1, <1>2, <1>3, <1>4, <1>5, <1>6, <1>7, <1>8, <1>9, Zenon
  DEF Next, FetchFails, ErrorBody, LimitBody

\* Every variable has its type and both retry loops stay within maxRetries,
\* for every number of operations and retries (rateLimit.ts:82-128).
THEOREM TypeCorrect == Spec => []TypeOK
<1>1. Init => TypeOK /\ SleepIsPaired
  BY TypeInit, Zenon DEF Init, SleepIsPaired
<1>2. TypeOK /\ SleepIsPaired /\ [Next]_vars => (TypeOK /\ SleepIsPaired)'
  BY TypeStep, SleepIsPairedStep, Zenon
<1> QED
  BY <1>1, <1>2, PTL DEF Spec

-----------------------------------------------------------------------------
(* Safety                                                                  *)

LEMMA InvInit == Init => RequestInv
<1> SUFFICES ASSUME Init PROVE RequestInv
  OBVIOUS
<1>1. WireMatchesPhase /\ SleepIsPaired /\ NothingLeaks /\ AbortedNeverSleeps
  BY Zenon DEF Init, WireMatchesPhase, SleepIsPaired, NothingLeaks, AbortedNeverSleeps, Settled
<1>2. Progress
  BY CallAssumption DEF Init, Progress, Ops
<1> QED
  BY <1>1, <1>2 DEF RequestInv

\* Whoever settles or sleeps has cleaned up, and does not sleep when aborted.
LEMMA CleanStep ==
  ASSUME TypeOK, RequestInv, [Next]_vars
  PROVE  NothingLeaks' /\ AbortedNeverSleeps'
<1> USE DEF options, loops, requestVars
<1>0. NothingLeaks /\ AbortedNeverSleeps /\ SleepIsPaired
  BY DEF RequestInv
<1>a. ASSUME NEW left, left \subseteq {"fetch", "sleep"}, left = {}, EnterFetch(left)
      PROVE  (NothingLeaks /\ AbortedNeverSleeps)'
  <2>1. /\ phase' \in {"fetch", "rejected"}
        /\ phase' = "rejected" => ~timer' /\ listeners' = {}
    BY <1>a, EnterFetchEffect
  <2> QED
    BY <2>1, Zenon DEF NothingLeaks, AbortedNeverSleeps, Settled
<1>1. CASE Begin
  <2>1. EnterFetch(listeners) /\ listeners = {}
    BY <1>0, <1>1, Zenon DEF Begin, SleepIsPaired
  <2> QED
    BY <1>a, <2>1
<1>2. CASE Headers
  <2>1. phase' \in {"body", "limitBody", "errorBody"}
    BY <1>2, Zenon DEF Headers
  <2> QED
    BY <2>1, Zenon DEF NothingLeaks, AbortedNeverSleeps, Settled
<1>3. ASSUME NEW error, phase # "sleep", Throw(error)
      PROVE  (NothingLeaks /\ AbortedNeverSleeps)'
  <2>1. /\ timer' = FALSE /\ aborted' = aborted
        /\ \/ phase' = "sleep" /\ listeners' \subseteq {"sleep"} /\ ~aborted
           \/ phase' = "rejected" /\ listeners' = {}
    BY <1>0, <1>3, ThrowEffect, Zenon
  <2> QED
    BY <2>1, Zenon DEF NothingLeaks, AbortedNeverSleeps, Settled
<1>4. CASE Body
  <2>1. cleanedUp = {}
    BY <1>0, <1>4, Zenon DEF Body, SleepIsPaired, cleanedUp
  <2>2. CASE at < Operations
    <3>1. EnterFetch(cleanedUp)
      BY <1>4, <2>2, Zenon DEF Body
    <3> QED
      BY <1>a, <2>1, <3>1
  <2>3. CASE ~(at < Operations)
    <3>1. phase' = "resolved" /\ timer' = FALSE /\ listeners' = {}
      BY <1>4, <2>1, <2>3, Zenon DEF Body
    <3> QED
      BY <3>1, Zenon DEF NothingLeaks, AbortedNeverSleeps, Settled
  <2> QED
    BY <2>2, <2>3
<1>5. CASE Wake
  <2>1. dropListener = {} /\ EnterFetch(dropListener)
    BY <1>0, <1>5, Zenon DEF Wake, TypeOK, NothingLeaks, dropListener
  <2> QED
    BY <1>a, <2>1
<1>6. CASE Serve
  BY <1>0, <1>6, Zenon DEF Serve, NothingLeaks, AbortedNeverSleeps, Settled
<1>7. CASE Timeout
  BY <1>0, <1>7, Zenon DEF Timeout, NothingLeaks, AbortedNeverSleeps, Settled
<1>8. CASE Abort
  <2>1. (timer' => timer) /\ listeners' = listeners \ {"sleep"}
    BY <1>8, Zenon DEF Abort
  <2>2. CASE phase = "sleep"
    <3>1. phase' = "rejected" /\ listeners' = {} /\ ~timer'
      BY <1>0, <1>8, <2>1, <2>2, Zenon DEF Abort, NothingLeaks, TypeOK
    <3> QED
      BY <3>1, Zenon DEF NothingLeaks, AbortedNeverSleeps, Settled
  <2>3. CASE phase # "sleep"
    <3>1. phase' = phase
      BY <1>8, <2>3, Zenon DEF Abort
    <3> QED
      BY <1>0, <2>1, <2>3, <3>1, Zenon DEF NothingLeaks, AbortedNeverSleeps, Settled
  <2> QED
    BY <2>2, <2>3
<1>9. CASE UNCHANGED vars
  BY <1>0, <1>9, Zenon DEF vars, NothingLeaks, AbortedNeverSleeps, Settled
<1> QED
  BY <1>1, <1>2, <1>3, <1>4, <1>5, <1>6, <1>7, <1>8, <1>9, Zenon
  DEF Next, FetchFails, ErrorBody, LimitBody

\* The chain waits for what the server's answer calls for.
LEMMA WireStep ==
  ASSUME TypeOK, RequestInv, [Next]_vars
  PROVE  WireMatchesPhase'
<1> USE DEF options, loops, requestVars
<1>0. WireMatchesPhase /\ SleepIsPaired
  BY DEF RequestInv
<1>a. ASSUME NEW left, left \subseteq {"fetch", "sleep"}, EnterFetch(left)
      PROVE  WireMatchesPhase'
  <2>1. phase' \in {"fetch", "rejected"}
    BY <1>a, EnterFetchEffect
  <2> QED
    BY <2>1, Zenon DEF WireMatchesPhase
<1>1. CASE Begin
  BY <1>1, <1>a, Zenon DEF Begin, TypeOK
<1>2. CASE Headers
  <2>1. /\ wire' = wire
        /\ wire = "ok" => phase' = "body"
        /\ wire = "limited" => phase' = "limitBody"
        /\ wire = "failed" => phase' = "errorBody"
        /\ wire \in {"ok", "limited", "failed"}
    BY <1>2, Zenon DEF Headers
  <2> QED
    BY <2>1, Zenon DEF WireMatchesPhase
<1>3. ASSUME NEW error, phase # "sleep", Throw(error), error = "rate limit" => wire = "limited"
      PROVE  WireMatchesPhase'
  <2>1. /\ wire' = wire
        /\ \/ phase' = "sleep" /\ error = "rate limit"
           \/ phase' = "rejected"
    BY <1>0, <1>3, ThrowEffect, Zenon
  <2> QED
    BY <1>3, <2>1, Zenon DEF WireMatchesPhase
<1>4. CASE FetchFails
  BY <1>3, <1>4, Zenon DEF FetchFails
<1>5. CASE ErrorBody
  BY <1>3, <1>5, Zenon DEF ErrorBody
<1>6. CASE LimitBody
  BY <1>0, <1>3, <1>6, Zenon DEF LimitBody, WireMatchesPhase
<1>7. CASE Body
  <2>1. CASE at < Operations
    BY <1>7, <1>a, <2>1, Zenon DEF Body, TypeOK, cleanedUp
  <2>2. CASE ~(at < Operations)
    <3>1. phase' = "resolved" /\ wire' = wire /\ wire = "ok"
      BY <1>0, <1>7, <2>2, Zenon DEF Body, WireMatchesPhase
    <3> QED
      BY <3>1, Zenon DEF WireMatchesPhase
  <2> QED
    BY <2>1, <2>2
<1>8. CASE Wake
  BY <1>8, <1>a, Zenon DEF Wake, TypeOK, dropListener
<1>9. CASE Serve
  <2>1. phase \notin {"start", "body", "resolved", "limitBody", "sleep", "errorBody"}
    BY <1>0, <1>9, Zenon DEF Serve, WireMatchesPhase
  <2> QED
    BY <1>9, <2>1, Zenon DEF Serve, WireMatchesPhase
<1>10. CASE Timeout
  BY <1>0, <1>10, Zenon DEF Timeout, WireMatchesPhase
<1>11. CASE Abort
  <2>1. wire' = wire /\ phase' \in {phase, "rejected"}
    BY <1>11, Zenon DEF Abort
  <2> QED
    BY <1>0, <2>1, Zenon DEF WireMatchesPhase
<1>12. CASE UNCHANGED vars
  BY <1>0, <1>12, Zenon DEF vars, WireMatchesPhase
<1> QED
  BY <1>1, <1>2, <1>4, <1>5, <1>6, <1>7, <1>8, <1>9, <1>10, <1>11, <1>12, Zenon DEF Next

\* Each operation follows the success of the one before it.
LEMMA ProgressStep ==
  ASSUME TypeOK, RequestInv, [Next]_vars
  PROVE  Progress'
<1> USE DEF options, loops, requestVars
<1>0. Progress /\ WireMatchesPhase
  BY DEF RequestInv
<1>t. at \in Ops /\ performed \in [Ops -> Nat] /\ Ops = 1..Operations
  BY DEF TypeOK, Ops
<1>a. ASSUME at' = at, performed' = performed, wire' = wire,
             phase' # "rejected" => phase # "rejected"
      PROVE  Progress'
  BY <1>0, <1>a, Zenon DEF Progress
<1>b. ASSUME at' = at, performed' = performed, performed[at] = 0,
             wire' = "sent" \/ (phase' = "rejected" /\ wire' = wire)
      PROVE  Progress'
  BY <1>0, <1>b DEF Progress
<1>1. CASE Begin
  <2>1. /\ EnterFetch(listeners) /\ listeners \subseteq {"fetch", "sleep"}
        /\ at' = at /\ performed' = performed /\ phase = "start"
    BY <1>1, Zenon DEF Begin, TypeOK
  <2>2. wire' = "sent" \/ (phase' = "rejected" /\ wire' = wire)
    BY <2>1, EnterFetchEffect
  <2>3. performed[at] = 0
    BY <1>0, <1>t, <2>1 DEF Progress, WireMatchesPhase
  <2> QED
    BY <1>b, <2>1, <2>2, <2>3
<1>2. CASE Headers
  <2>1. at' = at /\ performed' = performed /\ wire' = wire /\ phase # "rejected"
    BY <1>2, Zenon DEF Headers
  <2> QED
    BY <1>a, <2>1
<1>3. ASSUME NEW error, phase \notin {"sleep", "rejected"}, Throw(error)
      PROVE  Progress'
  <2>1. at' = at /\ performed' = performed /\ wire' = wire
    BY <1>3, Zenon DEF Throw
  <2> QED
    BY <1>3, <1>a, <2>1
<1>4. CASE Body
  <2>1. phase = "body" /\ performed' = performed /\ performed[at] = 1 /\ wire = "ok"
    BY <1>0, <1>4, Zenon DEF Body, Progress, WireMatchesPhase
  <2>2. CASE at < Operations
    <3>1. at' = at + 1 /\ EnterFetch(cleanedUp) /\ cleanedUp \subseteq {"fetch", "sleep"}
      BY <1>4, <2>2, Zenon DEF Body, TypeOK, cleanedUp
    <3>2. wire' = "sent" \/ (phase' = "rejected" /\ wire' = "ok")
      BY <2>1, <3>1, EnterFetchEffect
    <3>3. at + 1 \in Ops /\ performed[at + 1] = 0
      BY <1>0, <1>t, <2>2, CallAssumption DEF Progress
    <3>4. \A k \in Ops : k < at + 1 => performed[k] = 1
      BY <1>0, <1>t, <2>1 DEF Progress
    <3>5. \A k \in Ops : k > at + 1 => performed[k] = 0
      BY <1>0, <1>t DEF Progress
    <3> QED
      BY <2>1, <3>1, <3>2, <3>3, <3>4, <3>5 DEF Progress
  <2>3. CASE ~(at < Operations)
    <3>1. at' = at /\ wire' = wire
      BY <1>4, <2>3, Zenon DEF Body
    <3> QED
      BY <1>a, <2>1, <3>1
  <2> QED
    BY <2>2, <2>3
<1>5. CASE Wake
  <2>1. /\ EnterFetch(dropListener) /\ dropListener \subseteq {"fetch", "sleep"}
        /\ at' = at /\ performed' = performed /\ phase = "sleep"
    BY <1>5, Zenon DEF Wake, TypeOK, dropListener
  <2>2. wire' = "sent" \/ (phase' = "rejected" /\ wire' = wire)
    BY <2>1, EnterFetchEffect
  <2>3. performed[at] = 0
    BY <1>0, <1>t, <2>1 DEF Progress, WireMatchesPhase
  <2> QED
    BY <1>b, <2>1, <2>2, <2>3
<1>6. CASE Serve
  <2>1. wire = "sent" /\ performed[at] = 0 /\ at' = at /\ phase' = phase
    BY <1>0, <1>6, Zenon DEF Serve, Progress
  <2>2. CASE wire' = "ok" /\ performed' = [performed EXCEPT ![at] = @ + 1]
    <3>1. performed'[at] = 1 /\ \A k \in Ops : k # at => performed'[k] = performed[k]
      BY <1>t, <2>1, <2>2
    <3> QED
      BY <1>0, <1>t, <2>1, <2>2, <3>1 DEF Progress
  <2>3. CASE wire' \in {"limited", "failed"} /\ performed' = performed
    BY <1>0, <2>1, <2>3 DEF Progress
  <2> QED
    BY <1>6, <2>2, <2>3, Zenon DEF Serve
<1>7. CASE Timeout
  BY <1>7, <1>a, Zenon DEF Timeout
<1>8. CASE Abort
  <2>1. at' = at /\ performed' = performed /\ wire' = wire /\ phase' \in {phase, "rejected"}
    BY <1>8, Zenon DEF Abort
  <2> QED
    BY <1>a, <2>1
<1>9. CASE UNCHANGED vars
  BY <1>9, <1>a, Zenon DEF vars
<1>10. CASE FetchFails \/ ErrorBody \/ LimitBody
  <2>1. phase \notin {"sleep", "rejected"} /\ \E error : Throw(error)
    BY <1>10, Zenon DEF FetchFails, ErrorBody, LimitBody
  <2> QED
    BY <1>3, <2>1
<1> QED
  BY <1>1, <1>2, <1>4, <1>5, <1>6, <1>7, <1>8, <1>9, <1>10, Zenon DEF Next

\* The inductive invariant of a request, for every number of operations and
\* retries: phases match the server's progress, and sleeps own their listeners.
THEOREM RequestInvariant == Spec => [](TypeOK /\ RequestInv)
<1>1. Init => TypeOK /\ RequestInv
  BY TypeInit, InvInit
<1>2. TypeOK /\ RequestInv /\ [Next]_vars => (TypeOK /\ RequestInv)'
  <2> SUFFICES ASSUME TypeOK, RequestInv, [Next]_vars PROVE (TypeOK /\ RequestInv)'
    OBVIOUS
  <2>1. TypeOK' /\ SleepIsPaired'
    BY TypeStep, SleepIsPairedStep, Zenon DEF RequestInv
  <2>2. WireMatchesPhase' /\ Progress' /\ NothingLeaks' /\ AbortedNeverSleeps'
    BY WireStep, ProgressStep, CleanStep, Zenon
  <2> QED
    BY <2>1, <2>2, Zenon DEF RequestInv
<1> QED
  BY <1>1, <1>2, PTL DEF Spec

\* No operation is performed twice, and a batch performs its operations in
\* order (rateLimit.ts:96-99, 154-164), however many there are.
THEOREM PerformedInOrderHolds == Spec => []PerformedInOrder
<1>1. TypeOK /\ RequestInv => PerformedInOrder
  <2> SUFFICES ASSUME TypeOK, RequestInv, NEW k \in Ops
               PROVE  /\ performed[k] <= 1
                      /\ performed[k] = 0 => k >= at /\ ~(k = at /\ phase = "resolved")
                      /\ performed[k] = 1 => k <= at
    BY DEF PerformedInOrder
  <2>1. at \in Nat /\ k \in Nat /\ performed[k] \in Nat
    BY DEF TypeOK, Ops
  <2>2. Progress /\ WireMatchesPhase
    BY DEF RequestInv
  <2>3. CASE k < at
    BY <2>1, <2>2, <2>3 DEF Progress
  <2>4. CASE k > at
    BY <2>1, <2>2, <2>4 DEF Progress
  <2>5. CASE k = at
    BY <2>1, <2>2, <2>5 DEF Progress, WireMatchesPhase
  <2> QED
    BY <2>1, <2>3, <2>4, <2>5
<1> QED
  BY <1>1, RequestInvariant, PTL

\* A request that has settled leaves no timeout and no listener behind
\* (api.ts:1857-1864, rateLimit.ts:53-58).
THEOREM NothingLeaksHolds == Spec => []NothingLeaks
<1>1. TypeOK /\ RequestInv => NothingLeaks
  BY DEF RequestInv
<1> QED
  BY <1>1, RequestInvariant, PTL

\* An aborted caller never sits out a retry delay (rateLimit.ts:24-26).
THEOREM AbortedNeverSleepsHolds == Spec => []AbortedNeverSleeps
<1>1. TypeOK /\ RequestInv => AbortedNeverSleeps
  BY DEF RequestInv
<1> QED
  BY <1>1, RequestInvariant, PTL

\* Once the caller has aborted nothing more is sent (api.ts:1786-1800).
THEOREM AbortedSendsNothingHolds == Spec => AbortedSendsNothing
<1>1. ASSUME TypeOK, RequestInv, [Next]_vars, aborted, phase # "fetch", phase' = "fetch"
      PROVE  FALSE
  <2> USE <1>1 DEF options, loops, requestVars
  <2>a. ASSUME NEW left, EnterFetch(left) PROVE FALSE
    BY <2>a, Zenon DEF EnterFetch, AbortedBefore
  <2>b. ASSUME NEW error, Throw(error) PROVE FALSE
    BY <2>b, Zenon DEF Throw
  <2>1. CASE Begin \/ Wake
    BY <2>1, <2>a, Zenon DEF Begin, Wake
  <2>2. CASE Body
    BY <2>2, <2>a, Zenon DEF Body
  <2>3. CASE Headers
    BY <2>3, Zenon DEF Headers
  <2>4. CASE FetchFails \/ ErrorBody \/ LimitBody
    BY <2>4, <2>b, Zenon DEF FetchFails, ErrorBody, LimitBody
  <2>5. CASE Serve \/ Timeout \/ Abort \/ UNCHANGED vars
    BY <2>5, Zenon DEF Serve, Timeout, Abort, vars
  <2> QED
    BY <2>1, <2>2, <2>3, <2>4, <2>5, Zenon DEF Next
<1>2. TypeOK /\ RequestInv /\ [Next]_vars
        => [aborted => ~(phase # "fetch" /\ phase' = "fetch")]_vars
  BY <1>1
<1> QED
  BY <1>2, RequestInvariant, PTL DEF Spec, AbortedSendsNothing
=============================================================================
