----------------------------- MODULE OpenSeaAuth -----------------------------
(***************************************************************************)
(* OpenSeaAuth (src/src/auth/index.ts): a wallet session, a scoped token   *)
(* (PAT) created in it, and the JWT exchanged for the PAT.  The three are  *)
(* fields that authenticate, getValidToken and revoke read and write on    *)
(* both sides of their awaits, so calls that overlap see each other's      *)
(* halves.                                                                 *)
(*                                                                         *)
(* A call runs undisturbed from one await to the next, which is one        *)
(* action.  The server answers a request in one step and the answer        *)
(* resumes the call in another; whatever happens between them overtakes    *)
(* the answer.  The server is external: its PATs belong to one wallet, and *)
(* a session accepts only the last cookies it handed out.                  *)
(***************************************************************************)
EXTENDS Naturals

CONSTANTS
  Callers,    \* concurrent callers, each with one call at a time
  MaxCalls,   \* bound: calls made in a behaviour
  MaxFaults,  \* bound: requests that fail, with or without an effect
  SCOPED_TOKEN_CLEANUP_ATTEMPTS

ASSUME BoundsAssumption ==
  /\ MaxCalls \in Nat /\ MaxFaults \in Nat
  /\ SCOPED_TOKEN_CLEANUP_ATTEMPTS \in Nat \ {0}

VARIABLES
  cachedToken,     \* the JWT and the PAT stored with it as refreshToken
  scopedTokenId,
  sessionCookies,
  call,            \* the latest call of each caller
  calls,           \* calls made so far
  live,            \* PATs the server accepts
  generation,      \* the cookies each session accepts
  lost,            \* requests that took effect and were reported as failed
  faults           \* faults so far

fields == <<cachedToken, scopedTokenId, sessionCookies>>
server == <<live, generation, lost>>
vars == <<fields, call, calls, server, faults>>

\* A PAT and the session it is created in share the number of their call.
Pats == 1..MaxCalls
NoPat == 0

\* issued: the PAT the JWT was exchanged for; refresh: the PAT kept with it.
Token == [issued : Pats, refresh : Pats, fresh : BOOLEAN]
NoToken == [issued |-> NoPat, refresh |-> NoPat, fresh |-> FALSE]

Cookies == [session : Pats, generation : Nat]
NoCookies == [session |-> NoPat, generation |-> 0]

\* pat: the PAT the call starts from; target: the one its DELETE names.
Call ==
  [op : {"none", "authenticate", "getValidToken", "revoke"},
   step : {"create", "exchange", "cleanup", "refresh", "delete",
           "resolved", "rejected"},
   answer : {"pending", "ok", "failed", "gone"},
   pat : Pats \cup {NoPat}, target : Pats \cup {NoPat},
   cookies : Cookies \cup {NoCookies},
   attempt : 0..SCOPED_TOKEN_CLEANUP_ATTEMPTS]

NoCall ==
  [op |-> "none", step |-> "resolved", answer |-> "ok", pat |-> NoPat,
   target |-> NoPat, cookies |-> NoCookies, attempt |-> 0]

\* Every variable has its type.
TypeOK ==
  /\ cachedToken \in Token \cup {NoToken}
  /\ scopedTokenId \in Pats \cup {NoPat}
  /\ sessionCookies \in Cookies \cup {NoCookies}
  /\ call \in [Callers -> Call]
  /\ calls \in 0..MaxCalls
  /\ live \subseteq Pats
  /\ generation \in [Pats -> Nat]
  /\ lost \subseteq ({"delete", "refresh"} \X Pats)
  /\ faults \in 0..MaxFaults

Init ==
  /\ cachedToken = NoToken
  /\ scopedTokenId = NoPat
  /\ sessionCookies = NoCookies
  /\ call = [c \in Callers |-> NoCall]
  /\ calls = 0
  /\ live = {}
  /\ generation = [p \in Pats |-> 0]
  /\ lost = {}
  /\ faults = 0

-----------------------------------------------------------------------------
(* Calls and awaits                                                        *)

\* Caller c makes call k, and its first request is on its way.
Starts(c, k) ==
  /\ call[c].step \in {"resolved", "rejected"}
  /\ calls < MaxCalls
  /\ calls' = calls + 1
  /\ call' = [call EXCEPT ![c] = [k EXCEPT !.answer = "pending"]]
  /\ UNCHANGED <<fields, server, faults>>

\* The request of step s of call c is with the server.
Awaits(c, s) == call[c].step = s /\ call[c].answer = "pending"

\* The answer to the request of step s of call c is one of answers.
Answered(c, s, answers) == call[c].step = s /\ call[c].answer \in answers

\* Call c runs on as k: to its next request, or to its end.
Continues(c, k) == call' = [call EXCEPT ![c] = k] /\ UNCHANGED <<calls, server, faults>>

Requests(k, s) == [k EXCEPT !.step = s, !.answer = "pending"]
Resolves(k) == [k EXCEPT !.step = "resolved"]
Rejects(k) == [k EXCEPT !.step = "rejected"]

\* The server answers call c.
Reply(c, a) ==
  /\ call' = [call EXCEPT ![c].answer = a]
  /\ UNCHANGED <<fields, calls, lost, faults>>

\* A request of call c fails on the way there, or on the way back.
Fails(c) ==
  /\ faults < MaxFaults
  /\ faults' = faults + 1
  /\ call' = [call EXCEPT ![c].answer = "failed"]
  /\ UNCHANGED <<fields, calls>>

-----------------------------------------------------------------------------
(* authenticate                                                            *)

\* The nonce, the signature and the session leave nothing to undo.
Authenticate(c) ==
  Starts(c, [NoCall EXCEPT !.op = "authenticate", !.step = "create",
                           !.pat = calls + 1,
                           !.cookies = [session |-> calls + 1, generation |-> 0]])

\* The server creates the PAT.
CreateServed(c) ==
  /\ Awaits(c, "create")
  /\ UNCHANGED generation
  /\ \/ live' = live \cup {call[c].pat} /\ Reply(c, "ok")
     \/ live' \in {live, live \cup {call[c].pat}} /\ UNCHANGED lost /\ Fails(c)

CreateResumed(c) ==
  LET k == call[c] IN
  /\ \/ /\ Answered(c, "create", {"ok"})
        /\ Continues(c, Requests([k EXCEPT !.target = k.pat], "exchange"))
     \/ /\ Answered(c, "create", {"failed"})
        /\ Continues(c, Rejects(k))
  /\ UNCHANGED fields

\* The server exchanges a PAT for a JWT.
ExchangeServed(c) ==
  /\ Awaits(c, "exchange")
  /\ UNCHANGED <<live, generation>>
  /\ \/ Reply(c, IF call[c].pat \in live THEN "ok" ELSE "failed")
     \/ UNCHANGED lost /\ Fails(c)

\* authenticate ends: the three fields are written together.
AuthenticateResumed(c) ==
  LET k == call[c] IN
  /\ k.op = "authenticate"
  /\ \/ /\ Answered(c, "exchange", {"ok"})
        /\ cachedToken' = [issued |-> k.pat, refresh |-> k.pat, fresh |-> TRUE]
        /\ scopedTokenId' = k.pat
        /\ sessionCookies' = k.cookies
        /\ Continues(c, Resolves(k))
     \/ /\ Answered(c, "exchange", {"failed"})
        /\ Continues(c, Requests(k, "cleanup"))
        /\ UNCHANGED fields

\* Mutant: the loop of cleanupScopedToken ends after its first attempt.
TriesOnce(k) == Rejects([k EXCEPT !.attempt = @ + 1])

\* The next attempt of cleanupScopedToken, or the end of authenticate.
TriesAgain(k) ==
  IF k.attempt + 1 < SCOPED_TOKEN_CLEANUP_ATTEMPTS
  THEN Requests([k EXCEPT !.attempt = @ + 1], "cleanup")
  ELSE Rejects([k EXCEPT !.attempt = @ + 1])

\* A PAT that is gone needs no second attempt.
CleanupResumed(c) ==
  /\ \/ /\ Answered(c, "cleanup", {"ok", "gone"})
        /\ Continues(c, Rejects(call[c]))
     \/ /\ Answered(c, "cleanup", {"failed"})
        /\ Continues(c, TriesAgain(call[c]))
  /\ UNCHANGED fields

-----------------------------------------------------------------------------
(* getValidToken                                                           *)

\* A cached JWT that is not about to expire is returned without an await.
GetValidToken(c) ==
  /\ cachedToken # NoToken /\ ~cachedToken.fresh
  /\ Starts(c, [NoCall EXCEPT !.op = "getValidToken", !.step = "exchange",
                              !.pat = cachedToken.refresh])

\* Mutant: what was cached before the await is cached again.
FromBeforeTheAwait(k) == [issued |-> k.pat, refresh |-> k.pat, fresh |-> TRUE]

\* The token of a finished exchange keeps the PAT that is cached by then; with
\* nothing cached any more, reading it throws.
Refreshed(k) ==
  IF cachedToken = NoToken THEN NoToken
  ELSE [issued |-> k.pat, refresh |-> cachedToken.refresh, fresh |-> TRUE]

GetValidTokenResumed(c) ==
  LET k == call[c] IN
  /\ k.op = "getValidToken"
  /\ UNCHANGED <<scopedTokenId, sessionCookies>>
  /\ \/ /\ Answered(c, "exchange", {"ok"})
        /\ cachedToken' = Refreshed(k)
        /\ Continues(c, IF Refreshed(k) = NoToken THEN Rejects(k) ELSE Resolves(k))
     \/ /\ Answered(c, "exchange", {"failed"})
        /\ UNCHANGED cachedToken
        /\ Continues(c, Rejects(k))

\* The JWT comes within REFRESH_BUFFER_MS of its end.
Expire ==
  /\ cachedToken.fresh
  /\ cachedToken' = [cachedToken EXCEPT !.fresh = FALSE]
  /\ UNCHANGED <<scopedTokenId, sessionCookies, call, calls, server, faults>>

-----------------------------------------------------------------------------
(* revoke                                                                  *)

\* revoke of the current JWT; of any other it throws at once.
Revoke(c) ==
  /\ cachedToken # NoToken /\ scopedTokenId # NoPat /\ sessionCookies # NoCookies
  /\ Starts(c, [NoCall EXCEPT !.op = "revoke", !.step = "refresh",
                              !.pat = cachedToken.issued,
                              !.cookies = sessionCookies])

\* The server rotates the cookies of a session, given its last ones.
RefreshServed(c) ==
  LET s == call[c].cookies.session
      rotated == [generation EXCEPT ![s] = @ + 1]
  IN
  /\ Awaits(c, "refresh")
  /\ UNCHANGED live
  /\ \/ /\ call[c].cookies.generation = generation[s]
        /\ generation' = rotated
        /\ Reply(c, "ok")
     \/ /\ call[c].cookies.generation # generation[s]
        /\ UNCHANGED generation
        /\ Reply(c, "failed")
     \/ UNCHANGED <<generation, lost>> /\ Fails(c)
     \/ /\ call[c].cookies.generation = generation[s]
        /\ generation' = rotated
        /\ lost' = lost \cup {<<"refresh", s>>}
        /\ Fails(c)

\* Mutant: the replaced cookies are not retained.
Discarded(cookies) == sessionCookies

\* The cookies kept after a refresh of the session.
Retained(cookies) == cookies

\* The PAT to delete is read after the await.
RefreshResumed(c) ==
  LET k == call[c]
      cookies == [k.cookies EXCEPT !.generation = @ + 1]
  IN
  /\ UNCHANGED <<cachedToken, scopedTokenId>>
  /\ \/ /\ Answered(c, "refresh", {"ok"})
        /\ sessionCookies' = Retained(cookies)
        /\ Continues(c, Requests([k EXCEPT !.target = scopedTokenId], "delete"))
     \/ /\ Answered(c, "refresh", {"failed"})
        /\ UNCHANGED sessionCookies
        /\ Continues(c, Rejects(k))

\* The server deletes a PAT; one it does not know is a 404.
DeleteServed(c) ==
  LET p == call[c].target IN
  /\ Awaits(c, "delete") \/ Awaits(c, "cleanup")
  /\ UNCHANGED generation
  /\ \/ live' = live \ {p} /\ Reply(c, IF p \in live THEN "ok" ELSE "gone")
     \/ UNCHANGED <<live, lost>> /\ Fails(c)
     \/ /\ p \in live
        /\ live' = live \ {p}
        /\ lost' = lost \cup {<<"delete", p>>}
        /\ Fails(c)

\* Mutant: the cached JWT outlives its PAT.
keepJwt == scopedTokenId' = NoPat /\ sessionCookies' = NoCookies /\ UNCHANGED cachedToken

clearFields ==
  /\ cachedToken' = NoToken
  /\ scopedTokenId' = NoPat
  /\ sessionCookies' = NoCookies

\* revoke ends: requireOk throws on a 404 too.
DeleteResumed(c) ==
  \/ /\ Answered(c, "delete", {"ok"})
     /\ clearFields
     /\ Continues(c, Resolves(call[c]))
  \/ /\ Answered(c, "delete", {"failed", "gone"})
     /\ UNCHANGED fields
     /\ Continues(c, Rejects(call[c]))

-----------------------------------------------------------------------------

Next ==
  \/ Expire
  \/ \E c \in Callers :
       \/ Authenticate(c) \/ GetValidToken(c) \/ Revoke(c)
       \/ CreateServed(c) \/ ExchangeServed(c) \/ RefreshServed(c) \/ DeleteServed(c)
       \/ CreateResumed(c) \/ AuthenticateResumed(c) \/ CleanupResumed(c)
       \/ GetValidTokenResumed(c) \/ RefreshResumed(c) \/ DeleteResumed(c)

Spec == Init /\ [][Next]_vars

-----------------------------------------------------------------------------
(* Properties                                                              *)

\* A PAT whose exchange failed stays behind only when every attempt to delete
\* it failed as well: nobody knows it any more (cleanupScopedToken).
OrphanNeedsEveryAttempt ==
  \A c \in Callers :
    /\ call[c].op = "authenticate" /\ call[c].step = "rejected"
    /\ call[c].target \in live
    => faults > SCOPED_TOKEN_CLEANUP_ATTEMPTS

\* The cookies kept are the ones the session accepts, but for a rotation that
\* is under way or whose answer was lost: a revoke can be retried
\* (index.ts:163-165).
CookiesCurrent ==
  LET s == sessionCookies.session IN
  sessionCookies # NoCookies =>
    \/ sessionCookies.generation = generation[s]
    \/ <<"refresh", s>> \in lost
    \/ \E c \in Callers :
         Answered(c, "refresh", {"ok"}) /\ call[c].cookies.session = s

\* A token whose PAT the server has deleted is cached only until the revoke that
\* deleted it is resumed, whatever overlaps it, unless its answer was lost.
DeadTokenIsBeingRevoked ==
  LET p == cachedToken.refresh IN
  cachedToken # NoToken /\ p \notin live =>
    \/ <<"delete", p>> \in lost
    \/ \E c \in Callers : Answered(c, "delete", {"ok"}) /\ call[c].target = p

\* A revoked token is never cached again: an exchange that was under way while
\* it was revoked does not bring it back, only authenticate caches one.
RevokedStaysGone ==
  [][cachedToken = NoToken /\ cachedToken' # NoToken =>
       \E c \in Callers : call[c].op = "authenticate" /\ call'[c].step = "resolved"]_vars

\* revoke deletes the PAT backing the JWT it was given (index.ts:149).
RevokesBackingToken ==
  \A c \in Callers :
    call[c].op = "revoke" /\ call[c].step \in {"delete", "resolved"} =>
      call[c].target = call[c].pat

-----------------------------------------------------------------------------
(* What makes these properties inductive                                   *)

\* Is call c an authenticate that may still use, or delete, a PAT of its own?
Creating(c) ==
  call[c].op = "authenticate" /\ call[c].step \in {"create", "exchange", "cleanup"}

\* Each kind of call makes its own requests, about its own PAT.
StepsMatch ==
  \A c \in Callers :
    LET k == call[c] IN
    /\ k.step \in {"create", "cleanup"} => k.op = "authenticate"
    /\ k.step = "exchange" => k.op \in {"authenticate", "getValidToken"}
    /\ k.step \in {"refresh", "delete"} => k.op = "revoke"
    /\ k.step \in {"create", "exchange", "cleanup"} => k.pat # NoPat
    /\ Creating(c) => k.target = IF k.step = "create" THEN NoPat ELSE k.pat
    /\ k.op = "authenticate" /\ k.step \in {"create", "exchange"} => k.attempt = 0

\* PATs and sessions are numbered by the calls that were made.
Numbered ==
  /\ cachedToken.issued <= calls /\ cachedToken.refresh <= calls
  /\ scopedTokenId <= calls
  /\ sessionCookies.session <= calls
  /\ \A c \in Callers :
       call[c].pat <= calls /\ call[c].target <= calls /\ call[c].cookies.session <= calls
  /\ \A p \in Pats : p > calls => generation[p] = 0

\* Nobody else knows the PAT and the session of an authenticate under way.
NewIsPrivate ==
  \A c \in Callers : Creating(c) =>
    LET p == call[c].pat IN
    /\ p # cachedToken.refresh /\ p # scopedTokenId /\ p # sessionCookies.session
    /\ \A d \in Callers \ {c} :
         /\ call[d].target # p /\ call[d].cookies.session # p
         /\ Creating(d) => call[d].pat # p
    /\ call[c].cookies = [session |-> p, generation |-> 0] /\ generation[p] = 0
    /\ call[c].step = "exchange" \/ Answered(c, "create", {"ok"}) => p \in live

\* Whoever was handed new cookies holds the only ones the session accepts.
RotationsExact ==
  /\ sessionCookies # NoCookies =>
       sessionCookies.generation <= generation[sessionCookies.session]
  /\ \A c \in Callers : call[c].step = "refresh" =>
       LET k == call[c].cookies IN
       /\ k.session # NoPat
       /\ k.generation <= generation[k.session]
       /\ k.generation < generation[k.session] \/ call[c].answer # "ok"
  /\ \A c \in Callers : Answered(c, "refresh", {"ok"}) =>
       LET k == call[c].cookies IN
       /\ generation[k.session] = k.generation + 1
       /\ sessionCookies.session = k.session => sessionCookies.generation <= k.generation
       /\ \A d \in Callers \ {c} :
            call[d].step = "refresh" /\ call[d].cookies.session = k.session =>
              call[d].answer # "ok" /\ call[d].cookies.generation <= k.generation

\* Every failed attempt of an authenticate to delete its PAT was a fault, and
\* so was the failed exchange.
FaultsCounted ==
  \A c \in Callers : call[c].op = "authenticate" =>
    LET k == call[c] IN
    /\ Answered(c, "exchange", {"failed"}) => faults >= 1
    /\ k.step = "cleanup" =>
         /\ k.attempt < SCOPED_TOKEN_CLEANUP_ATTEMPTS
         /\ faults >= 1 + k.attempt
         /\ k.answer \in {"ok", "gone"} => k.target \notin live
         /\ k.answer = "failed" => faults >= 2 + k.attempt
    /\ k.step = "rejected" =>
         k.target \notin live \/ faults > SCOPED_TOKEN_CLEANUP_ATTEMPTS

\* The inductive invariant, next to TypeOK.
LoginInv ==
  /\ StepsMatch /\ Numbered /\ NewIsPrivate /\ RotationsExact /\ FaultsCounted
  /\ CookiesCurrent /\ DeadTokenIsBeingRevoked
=============================================================================
