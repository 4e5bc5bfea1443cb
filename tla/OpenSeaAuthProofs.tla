--------------------------- MODULE OpenSeaAuthProofs ---------------------------
(***************************************************************************)
(* Theorems about OpenSeaAuth: its safety properties, for every set of     *)
(* callers and every number of calls, faults and cleanup attempts.         *)
(***************************************************************************)
EXTENDS OpenSeaAuth, TLAPS

Attempts == SCOPED_TOKEN_CLEANUP_ATTEMPTS

-----------------------------------------------------------------------------
(* What each kind of step does                                             *)

\* A call that runs on as a well-formed record.
LEMMA ContinuesEffect ==
  ASSUME TypeOK, NEW c \in Callers, NEW k \in Call, Continues(c, k)
  PROVE  /\ call' \in [Callers -> Call]
         /\ call'[c] = k /\ \A d \in Callers \ {c} : call'[d] = call[d]
         /\ calls' = calls /\ live' = live /\ generation' = generation
         /\ lost' = lost /\ faults' = faults
  BY DEF TypeOK, Continues, server

\* A call that starts.
LEMMA StartsEffect ==
  ASSUME TypeOK, NEW c \in Callers, NEW k \in Call, Starts(c, k)
  PROVE  /\ call' \in [Callers -> Call]
         /\ call'[c] = [k EXCEPT !.answer = "pending"]
         /\ \A d \in Callers \ {c} : call'[d] = call[d]
         /\ call[c].step \in {"resolved", "rejected"}
         /\ calls' = calls + 1 /\ calls < MaxCalls /\ calls' \in 0..MaxCalls
         /\ cachedToken' = cachedToken /\ scopedTokenId' = scopedTokenId
         /\ sessionCookies' = sessionCookies
         /\ live' = live /\ generation' = generation
         /\ lost' = lost /\ faults' = faults
<1>1. [k EXCEPT !.answer = "pending"] \in Call
  BY DEF Call
<1>2. calls + 1 \in 0..MaxCalls
  BY BoundsAssumption DEF TypeOK, Starts
<1> QED
  BY <1>1, <1>2 DEF TypeOK, Starts, server, fields

\* A request that the server answers with a.
LEMMA AnswerEffect ==
  ASSUME TypeOK, NEW c \in Callers, NEW a \in {"ok", "failed", "gone"},
         call' = [call EXCEPT ![c].answer = a]
  PROVE  /\ call' \in [Callers -> Call]
         /\ call'[c] = [call[c] EXCEPT !.answer = a]
         /\ \A d \in Callers \ {c} : call'[d] = call[d]
<1>1. [call[c] EXCEPT !.answer = a] \in Call
  BY DEF TypeOK, Call
<1> QED
  BY <1>1 DEF TypeOK

-----------------------------------------------------------------------------
(* Types                                                                   *)

LEMMA NoCallType == NoCall \in Call
  BY BoundsAssumption DEF NoCall, Call, Pats, NoPat, NoCookies

LEMMA TypeInit == Init => TypeOK
<1> SUFFICES ASSUME Init PROVE TypeOK
  OBVIOUS
<1>1. call \in [Callers -> Call]
  BY NoCallType DEF Init
<1>2. generation \in [Pats -> Nat] /\ calls \in 0..MaxCalls /\ faults \in 0..MaxFaults
  BY BoundsAssumption DEF Init
<1> QED
  BY <1>1, <1>2 DEF Init, TypeOK

\* Calls that are about to start, or to run on, are well formed.
LEMMA CallsWellFormed ==
  ASSUME TypeOK, NEW c \in Callers
  PROVE  LET k == call[c] IN
         /\ Resolves(k) \in Call /\ Rejects(k) \in Call
         /\ Requests(k, "cleanup") \in Call
         /\ Requests([k EXCEPT !.target = k.pat], "exchange") \in Call
         /\ Requests([k EXCEPT !.target = scopedTokenId], "delete") \in Call
         /\ k.attempt < Attempts => TriesAgain(k) \in Call
<1> DEFINE k == call[c]
<1>1. k \in Call
  BY DEF TypeOK
<1>2. scopedTokenId \in Pats \cup {NoPat}
  BY DEF TypeOK
<1> HIDE DEF k
<1>3. Resolves(k) \in Call /\ Rejects(k) \in Call /\ Requests(k, "cleanup") \in Call
  BY <1>1 DEF Call, Resolves, Rejects, Requests
<1>4. /\ Requests([k EXCEPT !.target = k.pat], "exchange") \in Call
      /\ Requests([k EXCEPT !.target = scopedTokenId], "delete") \in Call
  BY <1>1, <1>2 DEF Call, Requests
<1>5. ASSUME k.attempt < Attempts PROVE TriesAgain(k) \in Call
  <2>1. k.attempt + 1 \in 0..Attempts
    BY <1>1, <1>5, BoundsAssumption DEF Call, Attempts
  <2>2. [k EXCEPT !.attempt = @ + 1] \in Call
    BY <1>1, <2>1 DEF Call, Attempts
  <2> QED
    BY <2>2 DEF TriesAgain, Requests, Rejects, Call
<1> QED
  BY <1>3, <1>4, <1>5 DEF k

LEMMA StartsWellFormed ==
  ASSUME TypeOK
  PROVE  /\ calls < MaxCalls =>
              [NoCall EXCEPT !.op = "authenticate", !.step = "create",
                             !.pat = calls + 1,
                             !.cookies = [session |-> calls + 1, generation |-> 0]] \in Call
         /\ cachedToken # NoToken =>
              [NoCall EXCEPT !.op = "getValidToken", !.step = "exchange",
                             !.pat = cachedToken.refresh] \in Call
         /\ cachedToken # NoToken =>
              [NoCall EXCEPT !.op = "revoke", !.step = "refresh",
                             !.pat = cachedToken.issued,
                             !.cookies = sessionCookies] \in Call
<1>1. ASSUME calls < MaxCalls
      PROVE  [NoCall EXCEPT !.op = "authenticate", !.step = "create",
                            !.pat = calls + 1,
                            !.cookies = [session |-> calls + 1, generation |-> 0]] \in Call
  <2>1. calls + 1 \in Pats
    BY <1>1, BoundsAssumption DEF TypeOK, Pats
  <2>2. [session |-> calls + 1, generation |-> 0] \in Cookies
    BY <2>1 DEF Cookies
  <2> QED
    BY <2>1, <2>2, NoCallType DEF Call
<1>2. ASSUME cachedToken # NoToken
      PROVE  cachedToken.refresh \in Pats /\ cachedToken.issued \in Pats
  BY <1>2 DEF TypeOK, Token
<1>3. sessionCookies \in Cookies \cup {NoCookies}
  BY DEF TypeOK
<1>4. cachedToken # NoToken =>
              [NoCall EXCEPT !.op = "getValidToken", !.step = "exchange",
                             !.pat = cachedToken.refresh] \in Call
  BY <1>2, NoCallType DEF Call
<1>5. cachedToken # NoToken =>
              [NoCall EXCEPT !.op = "revoke", !.step = "refresh",
                             !.pat = cachedToken.issued,
                             !.cookies = sessionCookies] \in Call
  BY <1>2, <1>3, NoCallType DEF Call
<1> QED
  BY <1>1, <1>4, <1>5

LEMMA TypeStep ==
  ASSUME TypeOK, FaultsCounted, StepsMatch, RotationsExact, [Next]_vars
  PROVE  TypeOK'
<1> USE DEF server, fields
<1>1. CASE Expire
  <2>1. cachedToken # NoToken
    BY <1>1 DEF Expire, NoToken
  <2>2. cachedToken' \in Token
    BY <1>1, <2>1 DEF Expire, TypeOK, Token
  <2> QED
    BY <1>1, <2>2 DEF Expire, TypeOK
<1>2. ASSUME NEW c \in Callers, NEW k \in Call, Starts(c, k)
      PROVE  TypeOK'
  BY <1>2, StartsEffect DEF TypeOK
<1>3. ASSUME NEW c \in Callers, Authenticate(c) \/ GetValidToken(c) \/ Revoke(c)
      PROVE  TypeOK'
  <2>1. CASE Authenticate(c)
    <3>1. calls < MaxCalls
      BY <2>1 DEF Authenticate, Starts
    <3> QED
      BY <1>2, <2>1, <3>1, StartsWellFormed DEF Authenticate
  <2>2. CASE GetValidToken(c)
    BY <1>2, <2>2, StartsWellFormed DEF GetValidToken
  <2>3. CASE Revoke(c)
    BY <1>2, <2>3, StartsWellFormed DEF Revoke
  <2> QED
    BY <1>3, <2>1, <2>2, <2>3
<1>4. ASSUME NEW c \in Callers, NEW a \in {"ok", "failed", "gone"},
             call' = [call EXCEPT ![c].answer = a],
             UNCHANGED <<fields, calls>>,
             live' \subseteq Pats, generation' \in [Pats -> Nat],
             lost' \subseteq ({"delete", "refresh"} \X Pats), faults' \in 0..MaxFaults
      PROVE  TypeOK'
  BY <1>4, AnswerEffect DEF TypeOK
<1>5. ASSUME NEW c \in Callers, NEW a \in {"ok", "failed", "gone"}, Reply(c, a),
             live' \subseteq Pats, generation' \in [Pats -> Nat]
      PROVE  TypeOK'
  BY <1>4, <1>5 DEF Reply, TypeOK
<1>6. ASSUME NEW c \in Callers, Fails(c), live' \subseteq Pats, generation' \in [Pats -> Nat],
             lost' \subseteq ({"delete", "refresh"} \X Pats)
      PROVE  TypeOK'
  <2>1. faults' \in 0..MaxFaults
    BY <1>6, BoundsAssumption DEF Fails, TypeOK
  <2> QED
    BY <1>4, <1>6, <2>1 DEF Fails
<1>7. ASSUME NEW c \in Callers, CreateServed(c) PROVE TypeOK'
  <2>1. call[c].pat # NoPat => call[c].pat \in Pats
    BY DEF TypeOK, Call
  <2>2. call[c].step = "create"
    BY <1>7 DEF CreateServed, Awaits
  <2>3. call[c].pat \in Pats
    BY <2>1, <2>2 DEF StepsMatch
  <2>4. live \cup {call[c].pat} \subseteq Pats /\ generation' \in [Pats -> Nat]
    BY <1>7, <2>3 DEF CreateServed, TypeOK
  <2> QED
    BY <1>5, <1>6, <1>7, <2>4 DEF CreateServed, TypeOK
<1>8. ASSUME NEW c \in Callers, ExchangeServed(c) PROVE TypeOK'
  BY <1>5, <1>6, <1>8 DEF ExchangeServed, TypeOK
<1>9. ASSUME NEW c \in Callers, RefreshServed(c) PROVE TypeOK'
  <2> DEFINE s == call[c].cookies.session
             rotated == [generation EXCEPT ![s] = @ + 1]
  <2>1. s \in Pats
    BY <1>9 DEF RefreshServed, Awaits, RotationsExact, TypeOK, Call, Cookies, NoCookies, NoPat
  <2>2. rotated \in [Pats -> Nat] /\ lost \cup {<<"refresh", s>>} \subseteq ({"delete", "refresh"} \X Pats)
    BY <2>1 DEF TypeOK
  <2> QED
    BY <1>5, <1>6, <1>9, <2>2 DEF RefreshServed, TypeOK
<1>10. ASSUME NEW c \in Callers, DeleteServed(c) PROVE TypeOK'
  <2> DEFINE p == call[c].target
  <2>1. p \in live => p \in Pats
    BY DEF TypeOK
  <2>2. /\ live \ {p} \subseteq Pats /\ generation' \in [Pats -> Nat]
        /\ p \in live => lost \cup {<<"delete", p>>} \subseteq ({"delete", "refresh"} \X Pats)
    BY <1>10, <2>1 DEF DeleteServed, TypeOK
  <2> QED
    BY <1>5, <1>6, <1>10, <2>2 DEF DeleteServed, TypeOK
<1>11. ASSUME NEW c \in Callers, NEW k \in Call, Continues(c, k),
              cachedToken' \in Token \cup {NoToken}, scopedTokenId' \in Pats \cup {NoPat},
              sessionCookies' \in Cookies \cup {NoCookies}
       PROVE  TypeOK'
  BY <1>11, ContinuesEffect DEF TypeOK
<1>12. ASSUME NEW c \in Callers, NEW k \in Call, Continues(c, k), UNCHANGED fields
       PROVE  TypeOK'
  BY <1>11, <1>12 DEF TypeOK
<1>13. ASSUME NEW c \in Callers, CreateResumed(c) PROVE TypeOK'
  BY <1>12, <1>13, CallsWellFormed DEF CreateResumed
<1>14. ASSUME NEW c \in Callers, AuthenticateResumed(c) PROVE TypeOK'
  <2> DEFINE k == call[c]
  <2>1. CASE Answered(c, "exchange", {"failed"})
    <3>1. Continues(c, Requests(k, "cleanup")) /\ UNCHANGED fields
      BY <1>14, <2>1 DEF AuthenticateResumed, Answered
    <3> QED
      BY <1>12, <3>1, CallsWellFormed
  <2>2. CASE ~Answered(c, "exchange", {"failed"})
    <3>1. /\ k.op = "authenticate" /\ Answered(c, "exchange", {"ok"})
          /\ cachedToken' = [issued |-> k.pat, refresh |-> k.pat, fresh |-> TRUE]
          /\ scopedTokenId' = k.pat
          /\ sessionCookies' = k.cookies
          /\ Continues(c, Resolves(k))
      BY <1>14, <2>2 DEF AuthenticateResumed
    <3>2. k.pat \in Pats /\ k.cookies \in Cookies \cup {NoCookies}
      BY <3>1 DEF Answered, StepsMatch, Creating, TypeOK, Call
    <3>3. cachedToken' \in Token
      BY <3>1, <3>2 DEF Token
    <3> QED
      BY <1>11, <3>1, <3>2, <3>3, CallsWellFormed
  <2> QED
    BY <2>1, <2>2
<1>15. ASSUME NEW c \in Callers, CleanupResumed(c) PROVE TypeOK'
  <2>1. CASE Answered(c, "cleanup", {"failed"})
    <3>1. Continues(c, TriesAgain(call[c])) /\ UNCHANGED fields
      BY <1>15, <2>1 DEF CleanupResumed, Answered
    <3>2. call[c].attempt < Attempts
      BY <2>1 DEF Answered, StepsMatch, FaultsCounted, Attempts
    <3> QED
      BY <1>12, <3>1, <3>2, CallsWellFormed
  <2>2. CASE ~Answered(c, "cleanup", {"failed"})
    <3>1. Continues(c, Rejects(call[c])) /\ UNCHANGED fields
      BY <1>15, <2>2 DEF CleanupResumed
    <3> QED
      BY <1>12, <3>1, CallsWellFormed
  <2> QED
    BY <2>1, <2>2
<1>16. ASSUME NEW c \in Callers, GetValidTokenResumed(c) PROVE TypeOK'
  <2> DEFINE k == call[c]
  <2>1. PICK r \in {Resolves(k), Rejects(k)} : Continues(c, r)
    BY <1>16 DEF GetValidTokenResumed
  <2>2. cachedToken' = cachedToken \/ (cachedToken' = Refreshed(k) /\ k.step = "exchange")
    BY <1>16 DEF GetValidTokenResumed, Answered
  <2>3. ASSUME cachedToken # NoToken, k.step = "exchange"
        PROVE  cachedToken.refresh \in Pats /\ k.pat \in Pats
    BY <1>16, <2>3 DEF GetValidTokenResumed, StepsMatch, TypeOK, Token, Call
  <2>4. k.step = "exchange" => Refreshed(k) \in Token \cup {NoToken}
    BY <2>3 DEF Refreshed, Token
  <2>5. UNCHANGED <<scopedTokenId, sessionCookies>>
    BY <1>16 DEF GetValidTokenResumed
  <2> QED
    BY <1>11, <2>1, <2>2, <2>4, <2>5, CallsWellFormed DEF TypeOK
<1>17. ASSUME NEW c \in Callers, RefreshResumed(c) PROVE TypeOK'
  <2> DEFINE k == call[c]
             cookies == [k.cookies EXCEPT !.generation = @ + 1]
  <2>1. CASE Answered(c, "refresh", {"ok"})
    <3>1. /\ UNCHANGED <<cachedToken, scopedTokenId>>
          /\ sessionCookies' = cookies
          /\ Continues(c, Requests([k EXCEPT !.target = scopedTokenId], "delete"))
      BY <1>17, <2>1 DEF RefreshResumed, Answered, Retained
    <3>2. k.cookies \in Cookies
      BY <2>1 DEF Answered, RotationsExact, TypeOK, Call, NoCookies
    <3>3. cookies \in Cookies
      BY <3>2 DEF Cookies
    <3> QED
      BY <1>11, <3>1, <3>3, CallsWellFormed DEF TypeOK
  <2>2. CASE ~Answered(c, "refresh", {"ok"})
    <3>1. Continues(c, Rejects(k)) /\ UNCHANGED fields
      BY <1>17, <2>2 DEF RefreshResumed
    <3> QED
      BY <1>12, <3>1, CallsWellFormed
  <2> QED
    BY <2>1, <2>2
<1>18. ASSUME NEW c \in Callers, DeleteResumed(c) PROVE TypeOK'
  <2>1. CASE clearFields /\ Continues(c, Resolves(call[c]))
    BY <1>11, <2>1, CallsWellFormed DEF clearFields
  <2>2. CASE UNCHANGED fields /\ Continues(c, Rejects(call[c]))
    BY <1>12, <2>2, CallsWellFormed
  <2> QED
    BY <1>18, <2>1, <2>2, Zenon DEF DeleteResumed
<1>19. CASE UNCHANGED vars
  BY <1>19 DEF vars, TypeOK
<1> QED
  BY <1>1, <1>3, <1>7, <1>8, <1>9, <1>10, <1>13, <1>14, <1>15, <1>16, <1>17, <1>18, <1>19,
     Zenon DEF Next

-----------------------------------------------------------------------------
(* What each step does, field by field                                     *)

OthersKeep(c) == \A d \in Callers \ {c} : call'[d] = call[d]

\* The server answers call c.
OnlyAnswers(c) ==
  /\ OthersKeep(c)
  /\ call'[c].op = call[c].op /\ call'[c].step = call[c].step
  /\ call'[c].pat = call[c].pat /\ call'[c].target = call[c].target
  /\ call'[c].cookies = call[c].cookies /\ call'[c].attempt = call[c].attempt
  /\ cachedToken' = cachedToken /\ scopedTokenId' = scopedTokenId
  /\ sessionCookies' = sessionCookies /\ calls' = calls
  /\ call[c].answer = "pending" /\ call'[c].answer \in {"ok", "failed", "gone"}
  /\ faults' \in {faults, faults + 1}

\* Call c runs on to step s.
OnlyRuns(c, s) ==
  /\ OthersKeep(c)
  /\ call'[c].op = call[c].op /\ call'[c].step = s
  /\ call'[c].pat = call[c].pat /\ call'[c].cookies = call[c].cookies
  /\ s \notin {"resolved", "rejected"} => call'[c].answer = "pending"
  /\ calls' = calls /\ live' = live /\ generation' = generation
  /\ lost' = lost /\ faults' = faults

\* Caller c starts a call.
OnlyStarts(c) ==
  /\ OthersKeep(c)
  /\ call[c].step \in {"resolved", "rejected"}
  /\ call'[c].answer = "pending" /\ call'[c].target = NoPat /\ call'[c].attempt = 0
  /\ calls' = calls + 1 /\ calls < MaxCalls
  /\ cachedToken' = cachedToken /\ scopedTokenId' = scopedTokenId
  /\ sessionCookies' = sessionCookies
  /\ live' = live /\ generation' = generation
  /\ lost' = lost /\ faults' = faults

FieldsKeep ==
  cachedToken' = cachedToken /\ scopedTokenId' = scopedTokenId /\ sessionCookies' = sessionCookies

LEMMA StartsFields ==
  ASSUME TypeOK, NEW c \in Callers, NEW k \in Call, Starts(c, k),
         k.target = NoPat, k.attempt = 0
  PROVE  /\ OnlyStarts(c)
         /\ call'[c].op = k.op /\ call'[c].step = k.step /\ call'[c].pat = k.pat
         /\ call'[c].cookies = k.cookies
<1>1. call'[c] = [k EXCEPT !.answer = "pending"]
  BY StartsEffect
<1>2. /\ call'[c].op = k.op /\ call'[c].step = k.step /\ call'[c].pat = k.pat
      /\ call'[c].cookies = k.cookies /\ call'[c].answer = "pending"
      /\ call'[c].target = NoPat /\ call'[c].attempt = 0
  BY <1>1 DEF Call
<1>3. /\ OthersKeep(c)
      /\ call[c].step \in {"resolved", "rejected"}
      /\ calls' = calls + 1 /\ calls < MaxCalls
      /\ cachedToken' = cachedToken /\ scopedTokenId' = scopedTokenId
      /\ sessionCookies' = sessionCookies
      /\ live' = live /\ generation' = generation
      /\ lost' = lost /\ faults' = faults
  BY StartsEffect, Zenon DEF OthersKeep
<1> QED
  BY <1>2, <1>3, Zenon DEF OnlyStarts

LEMMA StartEffects ==
  ASSUME TypeOK, NEW c \in Callers
  PROVE  /\ Authenticate(c) =>
              /\ OnlyStarts(c)
              /\ call'[c].op = "authenticate" /\ call'[c].step = "create"
              /\ call'[c].pat = calls + 1
              /\ call'[c].cookies = [session |-> calls + 1, generation |-> 0]
         /\ GetValidToken(c) =>
              /\ OnlyStarts(c)
              /\ call'[c].op = "getValidToken" /\ call'[c].step = "exchange"
              /\ call'[c].pat = cachedToken.refresh /\ call'[c].cookies = NoCookies
              /\ cachedToken # NoToken
         /\ Revoke(c) =>
              /\ OnlyStarts(c)
              /\ call'[c].op = "revoke" /\ call'[c].step = "refresh"
              /\ call'[c].pat = cachedToken.issued /\ call'[c].cookies = sessionCookies
              /\ cachedToken # NoToken /\ sessionCookies # NoCookies
<1>1. ASSUME Authenticate(c)
      PROVE  /\ OnlyStarts(c)
             /\ call'[c].op = "authenticate" /\ call'[c].step = "create"
             /\ call'[c].pat = calls + 1
             /\ call'[c].cookies = [session |-> calls + 1, generation |-> 0]
  <2> DEFINE k == [NoCall EXCEPT !.op = "authenticate", !.step = "create",
                             !.pat = calls + 1,
                             !.cookies = [session |-> calls + 1, generation |-> 0]]
  <2>1. Starts(c, k) /\ k \in Call
    BY <1>1, StartsWellFormed DEF Authenticate, Starts
  <2>2. /\ k.op = "authenticate" /\ k.step = "create" /\ k.pat = calls + 1
        /\ k.cookies = [session |-> calls + 1, generation |-> 0]
        /\ k.target = NoPat /\ k.attempt = 0
    BY DEF NoCall
  <2> HIDE DEF k
  <2> QED
    BY <2>1, <2>2, StartsFields
<1>2. ASSUME GetValidToken(c)
      PROVE  /\ OnlyStarts(c)
             /\ call'[c].op = "getValidToken" /\ call'[c].step = "exchange"
             /\ call'[c].pat = cachedToken.refresh /\ call'[c].cookies = NoCookies
             /\ cachedToken # NoToken
  <2> DEFINE k == [NoCall EXCEPT !.op = "getValidToken", !.step = "exchange",
                             !.pat = cachedToken.refresh]
  <2>1. Starts(c, k) /\ k \in Call /\ cachedToken # NoToken
    BY <1>2, StartsWellFormed DEF GetValidToken
  <2>2. /\ k.op = "getValidToken" /\ k.step = "exchange" /\ k.pat = cachedToken.refresh
        /\ k.cookies = NoCookies /\ k.target = NoPat /\ k.attempt = 0
    BY DEF NoCall
  <2> HIDE DEF k
  <2> QED
    BY <2>1, <2>2, StartsFields
<1>3. ASSUME Revoke(c)
      PROVE  /\ OnlyStarts(c)
             /\ call'[c].op = "revoke" /\ call'[c].step = "refresh"
             /\ call'[c].pat = cachedToken.issued /\ call'[c].cookies = sessionCookies
             /\ cachedToken # NoToken /\ sessionCookies # NoCookies
  <2> DEFINE k == [NoCall EXCEPT !.op = "revoke", !.step = "refresh",
                             !.pat = cachedToken.issued,
                             !.cookies = sessionCookies]
  <2>1. Starts(c, k) /\ k \in Call /\ cachedToken # NoToken /\ sessionCookies # NoCookies
    BY <1>3, StartsWellFormed DEF Revoke
  <2>2. /\ k.op = "revoke" /\ k.step = "refresh" /\ k.pat = cachedToken.issued
        /\ k.cookies = sessionCookies /\ k.target = NoPat /\ k.attempt = 0
    BY DEF NoCall
  <2> HIDE DEF k
  <2> QED
    BY <2>1, <2>2, StartsFields
<1> QED
  BY <1>1, <1>2, <1>3, Zenon

LEMMA AnswerEffects ==
  ASSUME TypeOK, NEW c \in Callers
  PROVE  /\ CreateServed(c) =>
              /\ OnlyAnswers(c) /\ generation' = generation /\ lost' = lost
              /\ call[c].step = "create"
              /\ live' \in {live, live \cup {call[c].pat}}
              /\ call'[c].answer = "ok" => call[c].pat \in live'
         /\ ExchangeServed(c) =>
              /\ OnlyAnswers(c) /\ generation' = generation /\ lost' = lost /\ live' = live
              /\ call[c].step = "exchange"
              /\ call[c].pat \in live /\ call'[c].answer = "failed" => faults' = faults + 1
         /\ RefreshServed(c) =>
              LET s == call[c].cookies.session IN
              /\ OnlyAnswers(c) /\ live' = live
              /\ call[c].step = "refresh" /\ call'[c].answer \in {"ok", "failed"}
              /\ \/ /\ generation' = generation /\ lost' = lost
                    /\ call'[c].answer = "failed"
                 \/ /\ call[c].cookies.generation = generation[s]
                    /\ generation' = [generation EXCEPT ![s] = @ + 1]
                    /\ lost' = lost /\ call'[c].answer = "ok"
                 \/ /\ call[c].cookies.generation = generation[s]
                    /\ generation' = [generation EXCEPT ![s] = @ + 1]
                    /\ lost' = lost \cup {<<"refresh", s>>} /\ call'[c].answer = "failed"
         /\ DeleteServed(c) =>
              LET p == call[c].target IN
              /\ OnlyAnswers(c) /\ generation' = generation
              /\ call[c].step \in {"delete", "cleanup"}
              /\ \/ /\ live' = live \ {p} /\ lost' = lost
                    /\ call'[c].answer = IF p \in live THEN "ok" ELSE "gone"
                 \/ /\ live' = live /\ lost' = lost
                    /\ call'[c].answer = "failed" /\ faults' = faults + 1
                 \/ /\ live' = live \ {p} /\ lost' = lost \cup {<<"delete", p>>}
                    /\ call'[c].answer = "failed" /\ faults' = faults + 1
<1>1. ASSUME NEW a \in {"ok", "failed", "gone"}, call[c].answer = "pending", Reply(c, a)
      PROVE  OnlyAnswers(c) /\ call'[c].answer = a /\ lost' = lost /\ faults' = faults
  <2>1. call[c] \in Call
    BY DEF TypeOK
  <2> QED
    BY <1>1, <2>1, AnswerEffect DEF Reply, fields, OnlyAnswers, OthersKeep, Call
<1>2. ASSUME call[c].answer = "pending", Fails(c)
      PROVE  OnlyAnswers(c) /\ call'[c].answer = "failed" /\ faults' = faults + 1
  <2>1. call[c] \in Call
    BY DEF TypeOK
  <2> QED
    BY <1>2, <2>1, AnswerEffect DEF Fails, fields, OnlyAnswers, OthersKeep, Call
<1>3. ASSUME CreateServed(c)
      PROVE  /\ OnlyAnswers(c) /\ generation' = generation /\ lost' = lost
             /\ call[c].step = "create"
             /\ live' \in {live, live \cup {call[c].pat}}
             /\ call'[c].answer = "ok" => call[c].pat \in live'
  BY <1>1, <1>2, <1>3 DEF CreateServed, Awaits
<1>4. ASSUME ExchangeServed(c)
      PROVE  /\ OnlyAnswers(c) /\ generation' = generation /\ lost' = lost /\ live' = live
             /\ call[c].step = "exchange"
             /\ call[c].pat \in live /\ call'[c].answer = "failed" => faults' = faults + 1
  BY <1>1, <1>2, <1>4 DEF ExchangeServed, Awaits
<1>5. ASSUME RefreshServed(c)
      PROVE  LET s == call[c].cookies.session IN
              /\ OnlyAnswers(c) /\ live' = live
              /\ call[c].step = "refresh" /\ call'[c].answer \in {"ok", "failed"}
              /\ \/ /\ generation' = generation /\ lost' = lost
                    /\ call'[c].answer = "failed"
                 \/ /\ call[c].cookies.generation = generation[s]
                    /\ generation' = [generation EXCEPT ![s] = @ + 1]
                    /\ lost' = lost /\ call'[c].answer = "ok"
                 \/ /\ call[c].cookies.generation = generation[s]
                    /\ generation' = [generation EXCEPT ![s] = @ + 1]
                    /\ lost' = lost \cup {<<"refresh", s>>} /\ call'[c].answer = "failed"
  <2> DEFINE s == call[c].cookies.session
             rotated == [generation EXCEPT ![s] = @ + 1]
  <2>1. /\ call[c].step = "refresh" /\ call[c].answer = "pending" /\ live' = live
        /\ \/ /\ call[c].cookies.generation = generation[s] /\ generation' = rotated
              /\ Reply(c, "ok")
           \/ generation' = generation /\ Reply(c, "failed")
           \/ generation' = generation /\ lost' = lost /\ Fails(c)
           \/ /\ call[c].cookies.generation = generation[s] /\ generation' = rotated
              /\ lost' = lost \cup {<<"refresh", s>>} /\ Fails(c)
    BY <1>5, Zenon DEF RefreshServed, Awaits
  <2> HIDE DEF rotated, s
  <2>2. CASE call[c].cookies.generation = generation[s] /\ generation' = rotated /\ Reply(c, "ok")
    BY <1>1, <2>1, <2>2 DEF rotated, s
  <2>3. CASE generation' = generation /\ Reply(c, "failed")
    BY <1>1, <2>1, <2>3
  <2>4. CASE generation' = generation /\ lost' = lost /\ Fails(c)
    BY <1>2, <2>1, <2>4
  <2>5. CASE /\ call[c].cookies.generation = generation[s] /\ generation' = rotated
             /\ lost' = lost \cup {<<"refresh", s>>} /\ Fails(c)
    BY <1>2, <2>1, <2>5 DEF rotated, s
  <2> QED
    BY <2>1, <2>2, <2>3, <2>4, <2>5, Zenon
<1>6. ASSUME DeleteServed(c)
      PROVE  LET p == call[c].target IN
              /\ OnlyAnswers(c) /\ generation' = generation
              /\ call[c].step \in {"delete", "cleanup"}
              /\ \/ /\ live' = live \ {p} /\ lost' = lost
                    /\ call'[c].answer = IF p \in live THEN "ok" ELSE "gone"
                 \/ /\ live' = live /\ lost' = lost
                    /\ call'[c].answer = "failed" /\ faults' = faults + 1
                 \/ /\ live' = live \ {p} /\ lost' = lost \cup {<<"delete", p>>}
                    /\ call'[c].answer = "failed" /\ faults' = faults + 1
  BY <1>1, <1>2, <1>6 DEF DeleteServed, Awaits
<1> QED
  BY <1>3, <1>4, <1>5, <1>6, Zenon

LEMMA RunsFields ==
  ASSUME TypeOK, NEW c \in Callers, NEW k \in Call, Continues(c, k),
         k.op = call[c].op, k.pat = call[c].pat, k.cookies = call[c].cookies,
         k.step \notin {"resolved", "rejected"} => k.answer = "pending"
  PROVE  /\ OnlyRuns(c, k.step)
         /\ call'[c].target = k.target /\ call'[c].attempt = k.attempt
  BY ContinuesEffect, Zenon DEF OnlyRuns, OthersKeep

LEMMA ResumeEffects ==
  ASSUME TypeOK, StepsMatch, FaultsCounted, NEW c \in Callers
  PROVE  /\ CreateResumed(c) =>
              /\ FieldsKeep /\ call[c].step = "create" /\ call'[c].attempt = call[c].attempt
              /\ \/ /\ OnlyRuns(c, "exchange") /\ call[c].answer = "ok"
                    /\ call'[c].target = call[c].pat
                 \/ OnlyRuns(c, "rejected") /\ call'[c].target = call[c].target
         /\ AuthenticateResumed(c) =>
              /\ call[c].op = "authenticate" /\ call[c].step = "exchange"
              /\ call'[c].target = call[c].target /\ call'[c].attempt = call[c].attempt
              /\ \/ /\ OnlyRuns(c, "resolved")
                    /\ cachedToken' = [issued |-> call[c].pat, refresh |-> call[c].pat,
                                       fresh |-> TRUE]
                    /\ scopedTokenId' = call[c].pat
                    /\ sessionCookies' = call[c].cookies
                 \/ OnlyRuns(c, "cleanup") /\ FieldsKeep /\ call[c].answer = "failed"
         /\ CleanupResumed(c) =>
              /\ FieldsKeep /\ call[c].step = "cleanup" /\ call'[c].target = call[c].target
              /\ \/ OnlyRuns(c, "rejected") /\ call[c].answer \in {"ok", "gone"}
                 \/ /\ OnlyRuns(c, "cleanup") /\ call[c].answer = "failed"
                    /\ call'[c].attempt = call[c].attempt + 1
                    /\ call[c].attempt + 1 < Attempts
                 \/ /\ OnlyRuns(c, "rejected") /\ call[c].answer = "failed"
                    /\ call[c].attempt + 1 >= Attempts
         /\ GetValidTokenResumed(c) =>
              /\ call[c].op = "getValidToken" /\ call[c].step = "exchange"
              /\ scopedTokenId' = scopedTokenId /\ sessionCookies' = sessionCookies
              /\ OnlyRuns(c, "resolved") \/ OnlyRuns(c, "rejected")
              /\ call'[c].target = call[c].target
              /\ \/ cachedToken' = cachedToken
                 \/ /\ cachedToken # NoToken /\ cachedToken'.refresh = cachedToken.refresh
                    /\ cachedToken'.issued = call[c].pat
         /\ RefreshResumed(c) =>
              /\ call[c].step = "refresh"
              /\ cachedToken' = cachedToken /\ scopedTokenId' = scopedTokenId
              /\ \/ /\ OnlyRuns(c, "delete") /\ call[c].answer = "ok"
                    /\ call'[c].target = scopedTokenId
                    /\ sessionCookies' = [call[c].cookies EXCEPT !.generation = @ + 1]
                 \/ /\ OnlyRuns(c, "rejected") /\ call[c].answer = "failed"
                    /\ call'[c].target = call[c].target /\ sessionCookies' = sessionCookies
         /\ DeleteResumed(c) =>
              /\ call[c].step = "delete" /\ call'[c].target = call[c].target
              /\ \/ /\ OnlyRuns(c, "resolved")
                    /\ cachedToken' = NoToken /\ scopedTokenId' = NoPat
                    /\ sessionCookies' = NoCookies
                 \/ OnlyRuns(c, "rejected") /\ FieldsKeep /\ call[c].answer # "ok"
<1> DEFINE k == call[c]
<1>0. k \in Call
  BY DEF TypeOK
<1> HIDE DEF k
<1> USE DEF FieldsKeep, fields
<1>1. ASSUME Continues(c, Rejects(k))
      PROVE  /\ OnlyRuns(c, "rejected")
             /\ call'[c].target = k.target /\ call'[c].attempt = k.attempt
  <2> DEFINE r == Rejects(k)
  <2>1. r \in Call
    BY <1>0 DEF Rejects, Call
  <2>2. /\ r.step = "rejected" /\ r.op = k.op /\ r.pat = k.pat /\ r.cookies = k.cookies
        /\ r.target = k.target /\ r.attempt = k.attempt
    BY <1>0 DEF Rejects, Call
  <2> HIDE DEF r
  <2>3. Continues(c, r)
    BY <1>1 DEF r
  <2>4. OnlyRuns(c, r.step) /\ call'[c].target = r.target /\ call'[c].attempt = r.attempt
    BY <2>1, <2>2, <2>3, RunsFields DEF k
  <2> QED
    BY <2>2, <2>4
<1>2. ASSUME Continues(c, Resolves(k))
      PROVE  /\ OnlyRuns(c, "resolved")
             /\ call'[c].target = k.target /\ call'[c].attempt = k.attempt
  <2> DEFINE r == Resolves(k)
  <2>1. r \in Call
    BY <1>0 DEF Resolves, Call
  <2>2. /\ r.step = "resolved" /\ r.op = k.op /\ r.pat = k.pat /\ r.cookies = k.cookies
        /\ r.target = k.target /\ r.attempt = k.attempt
    BY <1>0 DEF Resolves, Call
  <2> HIDE DEF r
  <2>3. Continues(c, r)
    BY <1>2 DEF r
  <2>4. OnlyRuns(c, r.step) /\ call'[c].target = r.target /\ call'[c].attempt = r.attempt
    BY <2>1, <2>2, <2>3, RunsFields DEF k
  <2> QED
    BY <2>2, <2>4
<1>3. ASSUME NEW j \in Call, NEW s \in {"exchange", "cleanup", "delete"},
             j.op = k.op, j.pat = k.pat, j.cookies = k.cookies,
             Continues(c, Requests(j, s))
      PROVE  /\ OnlyRuns(c, s)
             /\ call'[c].target = j.target /\ call'[c].attempt = j.attempt
  <2> DEFINE r == Requests(j, s)
  <2>1. r \in Call
    BY <1>3 DEF Requests, Call
  <2>2. /\ r.step = s /\ r.op = k.op /\ r.pat = k.pat /\ r.cookies = k.cookies
        /\ r.target = j.target /\ r.attempt = j.attempt /\ r.answer = "pending"
    BY <1>3 DEF Requests, Call
  <2> HIDE DEF r
  <2>3. Continues(c, r)
    BY <1>3 DEF r
  <2>4. OnlyRuns(c, r.step) /\ call'[c].target = r.target /\ call'[c].attempt = r.attempt
    BY <2>1, <2>2, <2>3, RunsFields DEF k
  <2> QED
    BY <2>2, <2>4
<1>4. ASSUME CreateResumed(c)
      PROVE  /\ FieldsKeep /\ k.step = "create" /\ call'[c].attempt = k.attempt
             /\ \/ /\ OnlyRuns(c, "exchange") /\ k.answer = "ok"
                   /\ call'[c].target = k.pat
                \/ OnlyRuns(c, "rejected") /\ call'[c].target = k.target
  <2> DEFINE j == [k EXCEPT !.target = k.pat]
  <2>1. /\ j \in Call /\ j.op = k.op /\ j.pat = k.pat /\ j.cookies = k.cookies
        /\ j.target = k.pat /\ j.attempt = k.attempt
    BY <1>0 DEF Call
  <2>2. /\ FieldsKeep /\ k.step = "create"
        /\ \/ k.answer = "ok" /\ Continues(c, Requests(j, "exchange"))
           \/ Continues(c, Rejects(k))
    BY <1>4 DEF CreateResumed, Answered, k
  <2> HIDE DEF j
  <2> QED
    BY <1>1, <1>3, <2>1, <2>2
<1>5. ASSUME AuthenticateResumed(c)
      PROVE  /\ k.op = "authenticate" /\ k.step = "exchange"
             /\ call'[c].target = k.target /\ call'[c].attempt = k.attempt
             /\ \/ /\ OnlyRuns(c, "resolved")
                   /\ cachedToken' = [issued |-> k.pat, refresh |-> k.pat, fresh |-> TRUE]
                   /\ scopedTokenId' = k.pat
                   /\ sessionCookies' = k.cookies
                \/ OnlyRuns(c, "cleanup") /\ FieldsKeep /\ k.answer = "failed"
  <2>1. /\ k.op = "authenticate" /\ k.step = "exchange"
        /\ \/ /\ cachedToken' = [issued |-> k.pat, refresh |-> k.pat, fresh |-> TRUE]
              /\ scopedTokenId' = k.pat
              /\ sessionCookies' = k.cookies
              /\ Continues(c, Resolves(k))
           \/ k.answer = "failed" /\ FieldsKeep /\ Continues(c, Requests(k, "cleanup"))
    BY <1>5 DEF AuthenticateResumed, Answered, k
  <2> QED
    BY <1>0, <1>2, <1>3, <2>1
<1>6. ASSUME CleanupResumed(c)
      PROVE  /\ FieldsKeep /\ k.step = "cleanup" /\ call'[c].target = k.target
             /\ \/ OnlyRuns(c, "rejected") /\ k.answer \in {"ok", "gone"}
                \/ /\ OnlyRuns(c, "cleanup") /\ k.answer = "failed"
                   /\ call'[c].attempt = k.attempt + 1
                   /\ k.attempt + 1 < Attempts
                \/ /\ OnlyRuns(c, "rejected") /\ k.answer = "failed"
                   /\ k.attempt + 1 >= Attempts
  <2> DEFINE j == [k EXCEPT !.attempt = @ + 1]
  <2>1. /\ FieldsKeep /\ k.step = "cleanup"
        /\ \/ k.answer \in {"ok", "gone"} /\ Continues(c, Rejects(k))
           \/ k.answer = "failed" /\ Continues(c, TriesAgain(k))
    BY <1>6 DEF CleanupResumed, Answered, k
  <2>2. k.attempt \in Nat /\ k.attempt < Attempts /\ Attempts \in Nat
    BY <1>0, <2>1, BoundsAssumption DEF StepsMatch, FaultsCounted, Attempts, k, Call
  <2>3. k.attempt + 1 \in 0..Attempts
    BY <2>2
  <2>4. /\ j \in Call /\ j.op = k.op /\ j.pat = k.pat /\ j.cookies = k.cookies
        /\ j.target = k.target /\ j.attempt = k.attempt + 1
    BY <1>0, <2>3 DEF Call, Attempts
  <2>5. TriesAgain(k) = IF k.attempt + 1 < Attempts THEN Requests(j, "cleanup") ELSE Rejects(j)
    BY Zenon DEF TriesAgain, Attempts
  <2> HIDE DEF j
  <2>6. CASE k.answer \in {"ok", "gone"} /\ Continues(c, Rejects(k))
    BY <1>1, <2>1, <2>6
  <2>7. CASE k.answer = "failed" /\ Continues(c, TriesAgain(k)) /\ k.attempt + 1 < Attempts
    BY <1>3, <2>1, <2>4, <2>5, <2>7
  <2>8. CASE k.answer = "failed" /\ Continues(c, TriesAgain(k)) /\ ~(k.attempt + 1 < Attempts)
    <3> DEFINE r == Rejects(j)
    <3>1. r \in Call
      BY <2>4 DEF Rejects, Call
    <3>2. /\ r.step = "rejected" /\ r.op = k.op /\ r.pat = k.pat /\ r.cookies = k.cookies
          /\ r.target = k.target
      BY <2>4 DEF Rejects, Call
    <3>3. Continues(c, r)
      BY <2>5, <2>8
    <3> HIDE DEF r
    <3>4. OnlyRuns(c, r.step) /\ call'[c].target = r.target
      BY <3>1, <3>2, <3>3, RunsFields DEF k
    <3>5. k.attempt + 1 >= Attempts
      BY <2>2, <2>8
    <3> QED
      BY <2>1, <2>8, <3>2, <3>4, <3>5
  <2> QED
    BY <2>1, <2>6, <2>7, <2>8
<1>7. ASSUME GetValidTokenResumed(c)
      PROVE  /\ k.op = "getValidToken" /\ k.step = "exchange"
             /\ scopedTokenId' = scopedTokenId /\ sessionCookies' = sessionCookies
             /\ OnlyRuns(c, "resolved") \/ OnlyRuns(c, "rejected")
             /\ call'[c].target = k.target
             /\ \/ cachedToken' = cachedToken
                \/ /\ cachedToken # NoToken /\ cachedToken'.refresh = cachedToken.refresh
                   /\ cachedToken'.issued = k.pat
  <2>1. /\ k.op = "getValidToken" /\ k.step = "exchange"
        /\ scopedTokenId' = scopedTokenId /\ sessionCookies' = sessionCookies
        /\ Continues(c, Resolves(k)) \/ Continues(c, Rejects(k))
        /\ cachedToken' = cachedToken \/ cachedToken' = Refreshed(k)
    BY <1>7 DEF GetValidTokenResumed, Answered, k
  <2>2. \/ Refreshed(k) = cachedToken
        \/ /\ cachedToken # NoToken /\ Refreshed(k).refresh = cachedToken.refresh
           /\ Refreshed(k).issued = k.pat
    BY DEF Refreshed
  <2> QED
    BY <1>1, <1>2, <2>1, <2>2
<1>8. ASSUME RefreshResumed(c)
      PROVE  /\ k.step = "refresh"
             /\ cachedToken' = cachedToken /\ scopedTokenId' = scopedTokenId
             /\ \/ /\ OnlyRuns(c, "delete") /\ k.answer = "ok"
                   /\ call'[c].target = scopedTokenId
                   /\ sessionCookies' = [k.cookies EXCEPT !.generation = @ + 1]
                \/ /\ OnlyRuns(c, "rejected") /\ k.answer = "failed"
                   /\ call'[c].target = k.target /\ sessionCookies' = sessionCookies
  <2> DEFINE j == [k EXCEPT !.target = scopedTokenId]
  <2>1. /\ j \in Call /\ j.op = k.op /\ j.pat = k.pat /\ j.cookies = k.cookies
        /\ j.target = scopedTokenId
    BY <1>0 DEF Call, TypeOK
  <2>2. /\ k.step = "refresh"
        /\ cachedToken' = cachedToken /\ scopedTokenId' = scopedTokenId
        /\ \/ /\ k.answer = "ok" /\ Continues(c, Requests(j, "delete"))
              /\ sessionCookies' = [k.cookies EXCEPT !.generation = @ + 1]
           \/ k.answer = "failed" /\ Continues(c, Rejects(k)) /\ sessionCookies' = sessionCookies
    BY <1>8 DEF RefreshResumed, Answered, Retained, k
  <2> HIDE DEF j
  <2> QED
    BY <1>1, <1>3, <2>1, <2>2
<1>9. ASSUME DeleteResumed(c)
      PROVE  /\ k.step = "delete" /\ call'[c].target = k.target
             /\ \/ /\ OnlyRuns(c, "resolved")
                   /\ cachedToken' = NoToken /\ scopedTokenId' = NoPat
                   /\ sessionCookies' = NoCookies
                \/ OnlyRuns(c, "rejected") /\ FieldsKeep /\ k.answer # "ok"
  BY <1>1, <1>2, <1>9 DEF DeleteResumed, Answered, clearFields, k
<1> QED
  BY <1>4, <1>5, <1>6, <1>7, <1>8, <1>9, Zenon DEF k

-----------------------------------------------------------------------------
(* The inductive invariant, one conjunct at a time                         *)

\* What StepsMatch says of one call.
MatchedCall(k) ==
  /\ k.step \in {"create", "cleanup"} => k.op = "authenticate"
  /\ k.step = "exchange" => k.op \in {"authenticate", "getValidToken"}
  /\ k.step \in {"refresh", "delete"} => k.op = "revoke"
  /\ k.step \in {"create", "exchange", "cleanup"} => k.pat # NoPat
  /\ k.op = "authenticate" /\ k.step \in {"create", "exchange", "cleanup"} =>
       k.target = IF k.step = "create" THEN NoPat ELSE k.pat
  /\ k.op = "authenticate" /\ k.step \in {"create", "exchange"} => k.attempt = 0

LEMMA StepsMatchStep ==
  ASSUME TypeOK, LoginInv, [Next]_vars
  PROVE  StepsMatch'
<1>0. StepsMatch /\ FaultsCounted
  BY DEF LoginInv
<1>1. StepsMatch <=> \A c \in Callers : MatchedCall(call[c])
  BY Zenon DEF StepsMatch, MatchedCall, Creating
<1>2. StepsMatch' <=> \A c \in Callers : MatchedCall(call'[c])
  BY Zenon DEF StepsMatch, MatchedCall, Creating
<1>a. ASSUME NEW c \in Callers, OthersKeep(c), MatchedCall(call'[c])
      PROVE  StepsMatch'
  BY <1>0, <1>1, <1>2, <1>a, Zenon DEF OthersKeep
<1>3. ASSUME NEW c \in Callers, OnlyStarts(c), call'[c].op = "authenticate",
             call'[c].step = "create", call'[c].pat = calls + 1
      PROVE  StepsMatch'
  <2>1. call'[c].pat # NoPat /\ call'[c].target = NoPat /\ call'[c].attempt = 0
    BY <1>3 DEF OnlyStarts, TypeOK, NoPat
  <2> QED
    BY <1>3, <1>a, <2>1 DEF OnlyStarts, MatchedCall
<1>4. ASSUME NEW c \in Callers, GetValidToken(c)
      PROVE  StepsMatch'
  <2>1. /\ OnlyStarts(c) /\ call'[c].op = "getValidToken" /\ call'[c].step = "exchange"
        /\ call'[c].pat = cachedToken.refresh /\ cachedToken # NoToken
    BY <1>4, StartEffects
  <2>2. call'[c].pat # NoPat
    BY <2>1 DEF TypeOK, Token, Pats, NoPat
  <2> QED
    BY <1>a, <2>1, <2>2 DEF OnlyStarts, MatchedCall
<1>5. ASSUME NEW c \in Callers, Authenticate(c) \/ Revoke(c)
      PROVE  StepsMatch'
  <2>1. CASE Authenticate(c)
    BY <1>3, <2>1, StartEffects
  <2>2. CASE Revoke(c)
    <3>1. OnlyStarts(c) /\ call'[c].op = "revoke" /\ call'[c].step = "refresh"
      BY <2>2, StartEffects
    <3> QED
      BY <1>a, <3>1 DEF OnlyStarts, MatchedCall
  <2> QED
    BY <1>5, <2>1, <2>2
<1>6. ASSUME NEW c \in Callers, OnlyAnswers(c)
      PROVE  StepsMatch'
  <2>1. MatchedCall(call[c])
    BY <1>0, <1>1
  <2> QED
    BY <1>6, <1>a, <2>1 DEF OnlyAnswers, MatchedCall
<1>7. ASSUME NEW c \in Callers,
             CreateServed(c) \/ ExchangeServed(c) \/ RefreshServed(c) \/ DeleteServed(c)
      PROVE  StepsMatch'
  BY <1>6, <1>7, AnswerEffects, Zenon
<1>8. ASSUME NEW c \in Callers, OnlyRuns(c, "resolved") \/ OnlyRuns(c, "rejected")
      PROVE  StepsMatch'
  BY <1>8, <1>a DEF OnlyRuns, MatchedCall
<1>9. ASSUME NEW c \in Callers,
             CreateResumed(c) \/ AuthenticateResumed(c) \/ CleanupResumed(c)
      PROVE  StepsMatch'
  <2>1. MatchedCall(call[c])
    BY <1>0, <1>1
  <2>2. CASE CreateResumed(c)
    BY <1>0, <1>8, <1>a, <2>1, <2>2, ResumeEffects DEF OnlyRuns, MatchedCall
  <2>3. CASE AuthenticateResumed(c)
    BY <1>0, <1>8, <1>a, <2>1, <2>3, ResumeEffects DEF OnlyRuns, MatchedCall
  <2>4. CASE CleanupResumed(c)
    BY <1>0, <1>8, <1>a, <2>1, <2>4, ResumeEffects DEF OnlyRuns, MatchedCall
  <2> QED
    BY <1>9, <2>2, <2>3, <2>4
<1>10. ASSUME NEW c \in Callers,
              GetValidTokenResumed(c) \/ RefreshResumed(c) \/ DeleteResumed(c)
       PROVE  StepsMatch'
  <2>1. MatchedCall(call[c])
    BY <1>0, <1>1
  <2>2. CASE GetValidTokenResumed(c)
    BY <1>0, <1>8, <2>2, ResumeEffects
  <2>3. CASE RefreshResumed(c)
    BY <1>0, <1>8, <1>a, <2>1, <2>3, ResumeEffects DEF OnlyRuns, MatchedCall
  <2>4. CASE DeleteResumed(c)
    BY <1>0, <1>8, <2>4, ResumeEffects
  <2> QED
    BY <1>10, <2>2, <2>3, <2>4
<1>11. CASE Expire \/ UNCHANGED vars
  <2>1. call' = call
    BY <1>11, Zenon DEF Expire, vars
  <2> QED
    BY <1>0, <1>1, <1>2, <2>1
<1> QED
  BY <1>4, <1>5, <1>7, <1>9, <1>10, <1>11, Zenon DEF Next

\* PATs in use were numbered by a call that was made.
LEMMA NumberedStep ==
  ASSUME TypeOK, LoginInv, [Next]_vars
  PROVE  Numbered'
<1>0. StepsMatch /\ FaultsCounted /\ Numbered /\ RotationsExact
  BY DEF LoginInv
<1>t. /\ calls \in Nat /\ scopedTokenId \in Nat
      /\ cachedToken.issued \in Nat /\ cachedToken.refresh \in Nat
      /\ sessionCookies.session \in Nat
      /\ \A d \in Callers : call[d].pat \in Nat /\ call[d].target \in Nat /\ call[d].cookies.session \in Nat
  <2>1. \A p \in Pats \cup {NoPat} : p \in Nat
    BY BoundsAssumption DEF Pats, NoPat
  <2>2. \A k \in Cookies \cup {NoCookies} : k.session \in Pats \cup {NoPat}
    BY DEF Cookies, NoCookies
  <2>3. \A k \in Token \cup {NoToken} : {k.issued, k.refresh} \subseteq Pats \cup {NoPat}
    BY DEF Token, NoToken
  <2>4. \A k \in Call : /\ {k.pat, k.target} \subseteq Pats \cup {NoPat}
                        /\ k.cookies \in Cookies \cup {NoCookies}
    BY DEF Call
  <2>5. calls \in Nat
    BY BoundsAssumption DEF TypeOK
  <2> QED
    BY <2>1, <2>2, <2>3, <2>4, <2>5 DEF TypeOK
<1>a. ASSUME NEW c \in Callers, OthersKeep(c), calls' \in Nat, calls' >= calls,
             cachedToken'.issued <= calls', cachedToken'.refresh <= calls', scopedTokenId' <= calls',
             sessionCookies'.session <= calls',
             call'[c].pat <= calls', call'[c].target <= calls', call'[c].cookies.session <= calls',
             \A p \in Pats : p > calls' => generation'[p] = 0
      PROVE  Numbered'
  <2>1. \A d \in Callers \ {c} :
          call'[d].pat <= calls' /\ call'[d].target <= calls' /\ call'[d].cookies.session <= calls'
    BY <1>0, <1>t, <1>a DEF OthersKeep, Numbered
  <2> QED
    BY <1>a, <2>1 DEF Numbered
<1>b. \A p \in Pats : p \in Nat
  BY DEF Pats
<1>1. ASSUME NEW c \in Callers, Authenticate(c) \/ GetValidToken(c) \/ Revoke(c)
      PROVE  Numbered'
  <2>1. /\ OnlyStarts(c)
        /\ \/ call'[c].pat = calls + 1 /\ call'[c].cookies = [session |-> calls + 1, generation |-> 0]
           \/ call'[c].pat = cachedToken.refresh /\ call'[c].cookies = NoCookies
           \/ call'[c].pat = cachedToken.issued /\ call'[c].cookies = sessionCookies
    BY <1>1, StartEffects
  <2>2. cachedToken.issued <= calls /\ cachedToken.refresh <= calls
    BY <1>0 DEF Numbered
  <2>3. calls' = calls + 1
    BY <2>1 DEF OnlyStarts
  <2>4. call'[c].pat <= calls' /\ call'[c].cookies.session <= calls' /\ call'[c].target <= calls'
    BY <1>0, <1>t, <2>1, <2>2, <2>3 DEF OnlyStarts, Numbered, NoCookies, NoPat
  <2>5. \A p \in Pats : p > calls' => generation'[p] = 0
    BY <1>0, <1>b, <1>t, <2>1, <2>3 DEF OnlyStarts, Numbered
  <2> QED
    BY <1>0, <1>t, <1>a, <2>1, <2>3, <2>4, <2>5 DEF OnlyStarts, Numbered
<1>2. ASSUME NEW c \in Callers,
             CreateServed(c) \/ ExchangeServed(c) \/ DeleteServed(c)
      PROVE  Numbered'
  <2>1. OnlyAnswers(c) /\ generation' = generation
    BY <1>2, AnswerEffects, Zenon
  <2> QED
    BY <1>0, <1>t, <1>a, <2>1 DEF OnlyAnswers, Numbered
<1>3. ASSUME NEW c \in Callers, RefreshServed(c)
      PROVE  Numbered'
  <2> DEFINE s == call[c].cookies.session
  <2>1. /\ OnlyAnswers(c)
        /\ generation' = generation \/ generation' = [generation EXCEPT ![s] = @ + 1]
    BY <1>3, AnswerEffects
  <2>2. s <= calls /\ s \in Nat
    BY <1>0, <1>t DEF Numbered
  <2>3. \A p \in Pats : p > calls => generation'[p] = generation[p]
    BY <1>t, <1>b, <2>1, <2>2 DEF TypeOK
  <2> QED
    BY <1>0, <1>t, <1>a, <2>1, <2>3 DEF OnlyAnswers, Numbered
<1>4. ASSUME NEW c \in Callers, CreateResumed(c) \/ CleanupResumed(c)
      PROVE  Numbered'
  <2>1. /\ FieldsKeep /\ \E s : OnlyRuns(c, s)
        /\ call'[c].target \in {call[c].target, call[c].pat}
    BY <1>0, <1>4, ResumeEffects
  <2> QED
    BY <1>0, <1>t, <1>a, <2>1 DEF OnlyRuns, FieldsKeep, Numbered
<1>5. ASSUME NEW c \in Callers, AuthenticateResumed(c)
      PROVE  Numbered'
  <2>1. /\ \E s : OnlyRuns(c, s)
        /\ call'[c].target = call[c].target
        /\ \/ FieldsKeep
           \/ /\ cachedToken'.refresh = call[c].pat /\ cachedToken'.issued = call[c].pat
              /\ scopedTokenId' = call[c].pat
              /\ sessionCookies' = call[c].cookies
    BY <1>0, <1>5, ResumeEffects
  <2> QED
    BY <1>0, <1>t, <1>a, <2>1 DEF OnlyRuns, FieldsKeep, Numbered
<1>6. ASSUME NEW c \in Callers, GetValidTokenResumed(c)
      PROVE  Numbered'
  <2>1. /\ \E s : OnlyRuns(c, s)
        /\ call'[c].target = call[c].target
        /\ scopedTokenId' = scopedTokenId /\ sessionCookies' = sessionCookies
        /\ cachedToken'.refresh = cachedToken.refresh
        /\ cachedToken'.issued \in {cachedToken.issued, call[c].pat}
    BY <1>0, <1>6, ResumeEffects
  <2> QED
    BY <1>0, <1>t, <1>a, <2>1 DEF OnlyRuns, Numbered
<1>7. ASSUME NEW c \in Callers, RefreshResumed(c)
      PROVE  Numbered'
  <2>1. /\ \E s : OnlyRuns(c, s)
        /\ call'[c].target \in {call[c].target, scopedTokenId}
        /\ scopedTokenId' = scopedTokenId /\ cachedToken' = cachedToken
        /\ \/ sessionCookies' = sessionCookies
           \/ sessionCookies' = [call[c].cookies EXCEPT !.generation = @ + 1]
    BY <1>0, <1>7, ResumeEffects
  <2>2. sessionCookies'.session \in {sessionCookies.session, call[c].cookies.session}
    BY <2>1 DEF TypeOK, Call, Cookies, NoCookies
  <2> QED
    BY <1>0, <1>t, <1>a, <2>1, <2>2 DEF OnlyRuns, Numbered
<1>8. ASSUME NEW c \in Callers, DeleteResumed(c)
      PROVE  Numbered'
  <2>1. /\ \E s : OnlyRuns(c, s)
        /\ call'[c].target = call[c].target
        /\ \/ FieldsKeep
           \/ cachedToken' = NoToken /\ scopedTokenId' = NoPat /\ sessionCookies' = NoCookies
    BY <1>0, <1>8, ResumeEffects
  <2> QED
    BY <1>0, <1>t, <1>a, <2>1 DEF OnlyRuns, FieldsKeep, Numbered, NoToken, NoPat, NoCookies
<1>9. CASE Expire
  <2>1. cachedToken'.refresh = cachedToken.refresh /\ cachedToken'.issued = cachedToken.issued
    BY <1>9 DEF Expire, TypeOK, Token, NoToken
  <2> QED
    BY <1>0, <1>9, <2>1 DEF Expire, Numbered, server
<1>10. CASE UNCHANGED vars
  BY <1>0, <1>10 DEF vars, fields, server, Numbered
<1> QED
  BY <1>1, <1>2, <1>3, <1>4, <1>5, <1>6, <1>7, <1>8, <1>9, <1>10, Zenon DEF Next

\* What NewIsPrivate says of a call that creates a PAT: about its own record,
\* about the fields and the server, and about every other call.
CreatingCall(k) == k.op = "authenticate" /\ k.step \in {"create", "exchange", "cleanup"}
Unshared(p) ==
  /\ p # cachedToken.refresh /\ p # scopedTokenId /\ p # sessionCookies.session
  /\ generation[p] = 0
Accepted(k) == k.step = "exchange" \/ (k.step = "create" /\ k.answer = "ok") => k.pat \in live
Apart(k, p) == k.target # p /\ k.cookies.session # p /\ (CreatingCall(k) => k.pat # p)

LEMMA NewIsPrivateStep ==
  ASSUME TypeOK, LoginInv, [Next]_vars
  PROVE  NewIsPrivate'
<1>0. StepsMatch /\ FaultsCounted /\ Numbered /\ NewIsPrivate
  BY DEF LoginInv
<1>n. NoPat \notin Pats
  BY DEF Pats, NoPat
<1>p. ASSUME NEW e \in Callers, CreatingCall(call[e])
      PROVE  /\ Unshared(call[e].pat) /\ Accepted(call[e])
             /\ call[e].cookies = [session |-> call[e].pat, generation |-> 0]
             /\ \A d \in Callers \ {e} : Apart(call[d], call[e].pat)
             /\ call[e].pat \in Pats /\ call[e].pat <= calls
  <2>1. call[e].pat \in Pats
    BY <1>0, <1>p DEF StepsMatch, CreatingCall, TypeOK, Call
  <2>2. call[e].pat <= calls
    BY <1>0 DEF Numbered
  <2> QED
    BY <1>0, <1>p, <2>1, <2>2, Zenon
    DEF NewIsPrivate, Creating, CreatingCall, Unshared, Accepted, Apart, Answered
<1>q. ASSUME \A e \in Callers : CreatingCall(call'[e]) =>
               /\ Unshared(call[e].pat)' /\ Accepted(call[e])'
               /\ call'[e].cookies = [session |-> call'[e].pat, generation |-> 0]
               /\ \A d \in Callers \ {e} : Apart(call'[d], call'[e].pat)
      PROVE  NewIsPrivate'
  BY <1>q, Zenon DEF NewIsPrivate, Creating, CreatingCall, Unshared, Accepted, Apart, Answered
\* It is enough to look at the call that makes the step.
<1>a. ASSUME NEW c \in Callers, OthersKeep(c),
             \A e \in Callers \ {c} : CreatingCall(call[e]) =>
               /\ Apart(call'[c], call[e].pat)
               /\ call[e].pat \notin {cachedToken'.refresh, scopedTokenId', sessionCookies'.session}
               /\ generation'[call[e].pat] = generation[call[e].pat]
               /\ call[e].pat \in live => call[e].pat \in live',
             CreatingCall(call'[c]) =>
               /\ Unshared(call[c].pat)' /\ Accepted(call[c])'
               /\ call'[c].cookies = [session |-> call'[c].pat, generation |-> 0]
               /\ \A d \in Callers \ {c} : Apart(call[d], call'[c].pat)
      PROVE  NewIsPrivate'
  <2> SUFFICES ASSUME NEW e \in Callers, CreatingCall(call'[e])
               PROVE  /\ Unshared(call[e].pat)' /\ Accepted(call[e])'
                      /\ call'[e].cookies = [session |-> call'[e].pat, generation |-> 0]
                      /\ \A d \in Callers \ {e} : Apart(call'[d], call'[e].pat)
    BY <1>q
  <2>1. CASE e = c
    <3>1. \A d \in Callers \ {e} : Apart(call'[d], call'[e].pat)
      BY <1>a, <2>1, Zenon DEF OthersKeep
    <3> QED
      BY <1>a, <2>1, <3>1, Zenon
  <2>2. CASE e # c
    <3>1. call'[e] = call[e] /\ CreatingCall(call[e])
      BY <1>a, <2>2, Zenon DEF OthersKeep
    <3>2. Unshared(call[e].pat)'
      BY <1>a, <1>p, <2>2, <3>1 DEF Unshared
    <3>3. Accepted(call[e])'
      BY <1>a, <1>p, <2>2, <3>1 DEF Accepted
    <3>4. ASSUME NEW d \in Callers \ {e} PROVE Apart(call'[d], call'[e].pat)
      <4>1. CASE d = c
        BY <1>a, <2>2, <3>1, <4>1, Zenon
      <4>2. CASE d # c
        <5>1. call'[d] = call[d]
          BY <1>a, <4>2, Zenon DEF OthersKeep
        <5> QED
          BY <1>p, <3>1, <5>1, Zenon
      <4> QED
        BY <4>1, <4>2
    <3> QED
      BY <1>p, <3>1, <3>2, <3>3, <3>4
  <2> QED
    BY <2>1, <2>2
\* A step that creates nothing and leaves the fields and the server alone.
<1>b. ASSUME NEW c \in Callers, OthersKeep(c), ~CreatingCall(call'[c]), FieldsKeep,
             generation' = generation, live' = live,
             call'[c].target \in {NoPat, call[c].target, scopedTokenId},
             call'[c].cookies \in {call[c].cookies, sessionCookies, NoCookies}
      PROVE  NewIsPrivate'
  <2>1. ASSUME NEW e \in Callers \ {c}, CreatingCall(call[e])
        PROVE  /\ Apart(call'[c], call[e].pat)
               /\ call[e].pat \notin {cachedToken'.refresh, scopedTokenId', sessionCookies'.session}
    <3>1. call[e].pat # NoPat
      BY <1>n, <1>p, <2>1, Zenon
    <3>2. Unshared(call[e].pat) /\ Apart(call[c], call[e].pat)
      BY <1>p, <2>1
    <3> QED
      BY <1>b, <3>1, <3>2 DEF Unshared, Apart, FieldsKeep, NoCookies
  <2> QED
    BY <1>a, <1>b, <2>1
<1>1. ASSUME NEW c \in Callers, Authenticate(c) PROVE NewIsPrivate'
  <2>1. /\ OnlyStarts(c)
        /\ call'[c].op = "authenticate" /\ call'[c].step = "create"
        /\ call'[c].pat = calls + 1
        /\ call'[c].cookies = [session |-> calls + 1, generation |-> 0]
    BY <1>1, StartEffects
  <2>n. /\ calls \in Nat /\ calls + 1 \in Pats /\ calls + 1 # NoPat
        /\ \A p \in Pats : p \in Nat
    BY <2>1, BoundsAssumption DEF TypeOK, OnlyStarts, Pats, NoPat
  <2>2. ASSUME NEW e \in Callers \ {c}, CreatingCall(call[e])
        PROVE  /\ Apart(call'[c], call[e].pat)
               /\ call[e].pat \notin {cachedToken'.refresh, scopedTokenId', sessionCookies'.session}
    <3>1. /\ call[e].pat \in Pats /\ call[e].pat <= calls /\ Unshared(call[e].pat)
      BY <1>p, <2>2
    <3>2. call[e].pat # calls + 1 /\ call[e].pat # NoPat
      BY <2>n, <3>1 DEF Pats, NoPat
    <3> QED
      BY <2>1, <3>1, <3>2 DEF OnlyStarts, Apart, Unshared
  <2>3. ASSUME NEW d \in Callers \ {c} PROVE Apart(call[d], calls + 1)
    <3>1. /\ call[d].pat <= calls /\ call[d].target <= calls /\ call[d].cookies.session <= calls
      BY <1>0 DEF Numbered
    <3>2. \A x : x <= calls => x # calls + 1
      BY <2>n
    <3> QED
      BY <3>1, <3>2, Zenon DEF Apart
  <2>4. generation[calls + 1] = 0 /\ calls + 1 > calls
    BY <1>0, <2>n DEF Numbered
  <2>5. Unshared(call[c].pat)'
    <3>1. /\ cachedToken.refresh <= calls /\ scopedTokenId <= calls /\ sessionCookies.session <= calls
      BY <1>0 DEF Numbered
    <3>2. \A x : x <= calls => x # calls + 1
      BY <2>n
    <3> QED
      BY <2>1, <2>4, <3>1, <3>2 DEF Unshared, OnlyStarts
  <2>6. Accepted(call[c])'
    BY <2>1 DEF Accepted, OnlyStarts
  <2> QED
    BY <1>a, <2>1, <2>2, <2>3, <2>5, <2>6 DEF OnlyStarts
<1>2. ASSUME NEW c \in Callers, GetValidToken(c) PROVE NewIsPrivate'
  <2>1. OnlyStarts(c) /\ call'[c].op = "getValidToken" /\ call'[c].cookies = NoCookies
    BY <1>2, StartEffects
  <2> QED
    BY <1>b, <2>1 DEF OnlyStarts, CreatingCall, FieldsKeep
<1>3. ASSUME NEW c \in Callers, Revoke(c) PROVE NewIsPrivate'
  <2>1. OnlyStarts(c) /\ call'[c].op = "revoke" /\ call'[c].cookies = sessionCookies
    BY <1>3, StartEffects
  <2> QED
    BY <1>b, <2>1 DEF OnlyStarts, CreatingCall, FieldsKeep
\* The server answers, and what it does spares the PATs of the others.
<1>c. ASSUME NEW c \in Callers, OnlyAnswers(c),
             \A e \in Callers : CreatingCall(call[e]) =>
               generation'[call[e].pat] = generation[call[e].pat],
             \A e \in Callers \ {c} : CreatingCall(call[e]) /\ call[e].pat \in live =>
               call[e].pat \in live',
             CreatingCall(call[c]) => Accepted(call[c])'
      PROVE  NewIsPrivate'
  <2>1. CreatingCall(call'[c]) <=> CreatingCall(call[c])
    BY <1>c, Zenon DEF OnlyAnswers, CreatingCall
  <2>2. ASSUME NEW e \in Callers \ {c}, CreatingCall(call[e])
        PROVE  /\ Apart(call'[c], call[e].pat)
               /\ call[e].pat \notin {cachedToken'.refresh, scopedTokenId', sessionCookies'.session}
    <3>1. Unshared(call[e].pat) /\ Apart(call[c], call[e].pat)
      BY <1>p, <2>2
    <3> QED
      BY <1>c, <2>1, <3>1 DEF Unshared, Apart, OnlyAnswers
  <2>3. ASSUME CreatingCall(call'[c])
        PROVE  /\ Unshared(call[c].pat)' /\ Accepted(call[c])'
               /\ call'[c].cookies = [session |-> call'[c].pat, generation |-> 0]
               /\ \A d \in Callers \ {c} : Apart(call[d], call'[c].pat)
    <3>1. /\ Unshared(call[c].pat)
          /\ call[c].cookies = [session |-> call[c].pat, generation |-> 0]
          /\ \A d \in Callers \ {c} : Apart(call[d], call[c].pat)
      BY <1>p, <2>1, <2>3
    <3>2. Unshared(call[c].pat)'
      BY <1>c, <2>1, <2>3, <3>1 DEF Unshared, OnlyAnswers
    <3> QED
      BY <1>c, <2>1, <2>3, <3>1, <3>2 DEF OnlyAnswers
  <2> QED
    BY <1>a, <1>c, <2>2, <2>3 DEF OnlyAnswers
<1>4. ASSUME NEW c \in Callers, CreateServed(c) PROVE NewIsPrivate'
  <2>1. /\ OnlyAnswers(c) /\ generation' = generation /\ live \subseteq live'
        /\ call[c].step = "create" /\ (call'[c].answer = "ok" => call[c].pat \in live')
    BY <1>4, AnswerEffects
  <2>2. Accepted(call[c])'
    BY <2>1 DEF Accepted, OnlyAnswers
  <2> QED
    BY <1>c, <2>1, <2>2
<1>5. ASSUME NEW c \in Callers, ExchangeServed(c) PROVE NewIsPrivate'
  <2>1. /\ OnlyAnswers(c) /\ generation' = generation /\ live = live'
        /\ call[c].step = "exchange"
    BY <1>5, AnswerEffects
  <2>2. CreatingCall(call[c]) => Accepted(call[c])'
    BY <1>p, <2>1 DEF Accepted, OnlyAnswers
  <2> QED
    BY <1>c, <2>1, <2>2
<1>6. ASSUME NEW c \in Callers, RefreshServed(c) PROVE NewIsPrivate'
  <2> DEFINE s == call[c].cookies.session
  <2>1. /\ OnlyAnswers(c) /\ live' = live /\ call[c].step = "refresh"
        /\ generation' = generation \/ generation' = [generation EXCEPT ![s] = @ + 1]
    BY <1>6, AnswerEffects
  <2>2. ~CreatingCall(call[c])
    BY <2>1 DEF CreatingCall
  <2>3. ASSUME NEW e \in Callers, CreatingCall(call[e])
        PROVE  generation'[call[e].pat] = generation[call[e].pat]
    <3>1. call[e].pat # s /\ call[e].pat \in Pats
      BY <1>p, <2>2, <2>3 DEF Apart
    <3> QED
      BY <2>1, <3>1 DEF TypeOK
  <2> QED
    BY <1>c, <2>1, <2>2, <2>3
<1>7. ASSUME NEW c \in Callers, DeleteServed(c) PROVE NewIsPrivate'
  <2>1. /\ OnlyAnswers(c) /\ generation' = generation
        /\ call[c].step \in {"delete", "cleanup"}
        /\ live \ {call[c].target} \subseteq live'
    BY <1>7, AnswerEffects
  <2>2. Accepted(call[c])'
    BY <2>1 DEF Accepted, OnlyAnswers
  <2>3. ASSUME NEW e \in Callers \ {c}, CreatingCall(call[e]), call[e].pat \in live
        PROVE  call[e].pat \in live'
    <3>1. call[c].target # call[e].pat
      BY <1>p, <2>3 DEF Apart
    <3> QED
      BY <2>1, <2>3, <3>1
  <2> QED
    BY <1>c, <2>1, <2>2, <2>3
\* A call that goes on creating, for itself.
<1>d. ASSUME NEW c \in Callers, NEW s \in {"exchange", "cleanup"}, OnlyRuns(c, s), FieldsKeep,
             CreatingCall(call[c]), call'[c].target \in {call[c].pat, call[c].target},
             s = "exchange" => call[c].pat \in live
      PROVE  NewIsPrivate'
  <2>1. ASSUME NEW e \in Callers \ {c}, CreatingCall(call[e])
        PROVE  /\ Apart(call'[c], call[e].pat)
               /\ call[e].pat \notin {cachedToken'.refresh, scopedTokenId', sessionCookies'.session}
    <3>1. Unshared(call[e].pat) /\ Apart(call[c], call[e].pat)
      BY <1>p, <2>1
    <3> QED
      BY <1>d, <3>1 DEF Unshared, Apart, OnlyRuns, FieldsKeep
  <2>2. /\ Unshared(call[c].pat)
        /\ call[c].cookies = [session |-> call[c].pat, generation |-> 0]
        /\ \A d \in Callers \ {c} : Apart(call[d], call[c].pat)
    BY <1>d, <1>p
  <2>3. Unshared(call[c].pat)'
    BY <1>d, <2>2 DEF Unshared, OnlyRuns, FieldsKeep
  <2>4. Accepted(call[c])'
    BY <1>d DEF Accepted, OnlyRuns
  <2> QED
    BY <1>a, <1>d, <2>1, <2>2, <2>3, <2>4 DEF OnlyRuns
<1>8. ASSUME NEW c \in Callers, CreateResumed(c) PROVE NewIsPrivate'
  <2>1. /\ FieldsKeep /\ call[c].step = "create"
        /\ \/ /\ OnlyRuns(c, "exchange") /\ call[c].answer = "ok"
              /\ call'[c].target = call[c].pat
           \/ OnlyRuns(c, "rejected") /\ call'[c].target = call[c].target
    BY <1>0, <1>8, ResumeEffects
  <2>2. CreatingCall(call[c])
    BY <1>0, <2>1 DEF StepsMatch, CreatingCall
  <2>3. CASE OnlyRuns(c, "exchange") /\ call[c].answer = "ok" /\ call'[c].target = call[c].pat
    <3>1. call[c].pat \in live
      BY <1>p, <2>1, <2>2, <2>3 DEF Accepted
    <3> QED
      BY <1>d, <2>1, <2>2, <2>3, <3>1
  <2>4. CASE OnlyRuns(c, "rejected") /\ call'[c].target = call[c].target
    BY <1>b, <2>1, <2>4 DEF OnlyRuns, CreatingCall
  <2> QED
    BY <2>1, <2>3, <2>4
<1>9. ASSUME NEW c \in Callers, AuthenticateResumed(c) PROVE NewIsPrivate'
  <2>1. /\ call[c].op = "authenticate" /\ call[c].step = "exchange"
        /\ call'[c].target = call[c].target
        /\ \/ /\ OnlyRuns(c, "resolved")
              /\ cachedToken'.refresh = call[c].pat
              /\ scopedTokenId' = call[c].pat
              /\ sessionCookies' = call[c].cookies
           \/ OnlyRuns(c, "cleanup") /\ FieldsKeep
    BY <1>0, <1>9, ResumeEffects
  <2>2. CreatingCall(call[c])
    BY <2>1 DEF CreatingCall
  <2>3. CASE OnlyRuns(c, "cleanup") /\ FieldsKeep
    BY <1>d, <2>1, <2>2, <2>3
  <2>4. CASE /\ OnlyRuns(c, "resolved")
             /\ cachedToken'.refresh = call[c].pat
             /\ scopedTokenId' = call[c].pat
             /\ sessionCookies' = call[c].cookies
    <3>1. ASSUME NEW e \in Callers \ {c}, CreatingCall(call[e])
          PROVE  /\ Apart(call'[c], call[e].pat)
                 /\ call[e].pat \notin {cachedToken'.refresh, scopedTokenId', sessionCookies'.session}
      <4>1. Apart(call[c], call[e].pat)
        BY <1>p, <3>1
      <4> QED
        BY <2>1, <2>2, <2>4, <4>1 DEF Apart, OnlyRuns, CreatingCall
    <3>2. ~CreatingCall(call'[c])
      BY <2>4 DEF OnlyRuns, CreatingCall
    <3> QED
      BY <1>a, <2>4, <3>1, <3>2 DEF OnlyRuns
  <2> QED
    BY <2>1, <2>3, <2>4
<1>10. ASSUME NEW c \in Callers, CleanupResumed(c) PROVE NewIsPrivate'
  <2>1. /\ FieldsKeep /\ call[c].step = "cleanup" /\ call'[c].target = call[c].target
        /\ OnlyRuns(c, "rejected") \/ OnlyRuns(c, "cleanup")
    BY <1>0, <1>10, ResumeEffects
  <2>2. CreatingCall(call[c])
    BY <1>0, <2>1 DEF StepsMatch, CreatingCall
  <2>3. CASE OnlyRuns(c, "cleanup")
    BY <1>d, <2>1, <2>2, <2>3
  <2>4. CASE OnlyRuns(c, "rejected")
    BY <1>b, <2>1, <2>4 DEF OnlyRuns, CreatingCall
  <2> QED
    BY <2>1, <2>3, <2>4
\* A call that ends, or revokes, and moves the fields away from the others.
<1>e. ASSUME NEW c \in Callers, NEW s \in {"resolved", "rejected", "delete"}, OnlyRuns(c, s),
             cachedToken'.refresh \in {NoPat, cachedToken.refresh},
             scopedTokenId' \in {NoPat, scopedTokenId},
             sessionCookies'.session \in {NoPat, sessionCookies.session, call[c].cookies.session},
             call'[c].target \in {call[c].target, scopedTokenId}
      PROVE  NewIsPrivate'
  <2>1. ASSUME NEW e \in Callers \ {c}, CreatingCall(call[e])
        PROVE  /\ Apart(call'[c], call[e].pat)
               /\ call[e].pat \notin {cachedToken'.refresh, scopedTokenId', sessionCookies'.session}
    <3>1. Unshared(call[e].pat) /\ Apart(call[c], call[e].pat)
      BY <1>p, <2>1
    <3>2. call[e].pat # NoPat
      BY <1>n, <1>p, <2>1, Zenon
    <3> QED
      BY <1>e, <3>1, <3>2 DEF Unshared, Apart, OnlyRuns, CreatingCall
  <2>2. ~CreatingCall(call'[c])
    BY <1>e DEF OnlyRuns, CreatingCall
  <2> QED
    BY <1>a, <1>e, <2>1, <2>2 DEF OnlyRuns
<1>11. ASSUME NEW c \in Callers, GetValidTokenResumed(c) PROVE NewIsPrivate'
  <2>1. /\ OnlyRuns(c, "resolved") \/ OnlyRuns(c, "rejected")
        /\ scopedTokenId' = scopedTokenId /\ sessionCookies' = sessionCookies
        /\ call'[c].target = call[c].target /\ cachedToken'.refresh = cachedToken.refresh
    BY <1>0, <1>11, ResumeEffects
  <2> QED
    BY <1>e, <2>1
<1>12. ASSUME NEW c \in Callers, RefreshResumed(c) PROVE NewIsPrivate'
  <2>1. /\ OnlyRuns(c, "delete") \/ OnlyRuns(c, "rejected")
        /\ cachedToken' = cachedToken /\ scopedTokenId' = scopedTokenId
        /\ call'[c].target \in {call[c].target, scopedTokenId}
        /\ \/ sessionCookies' = sessionCookies
           \/ sessionCookies' = [call[c].cookies EXCEPT !.generation = @ + 1]
    BY <1>0, <1>12, ResumeEffects
  <2>2. sessionCookies'.session \in {sessionCookies.session, call[c].cookies.session}
    BY <2>1 DEF TypeOK, Call, Cookies, NoCookies
  <2> QED
    BY <1>e, <2>1, <2>2
<1>13. ASSUME NEW c \in Callers, DeleteResumed(c) PROVE NewIsPrivate'
  <2>1. /\ OnlyRuns(c, "resolved") \/ OnlyRuns(c, "rejected")
        /\ call'[c].target = call[c].target
        /\ \/ cachedToken' = NoToken /\ scopedTokenId' = NoPat /\ sessionCookies' = NoCookies
           \/ FieldsKeep
    BY <1>0, <1>13, ResumeEffects
  <2>2. /\ cachedToken'.refresh \in {NoPat, cachedToken.refresh}
        /\ scopedTokenId' \in {NoPat, scopedTokenId}
        /\ sessionCookies'.session \in {NoPat, sessionCookies.session}
    BY <2>1 DEF FieldsKeep, NoToken, NoCookies
  <2> QED
    BY <1>e, <2>1, <2>2
<1>14. CASE Expire
  <2>1. cachedToken'.refresh = cachedToken.refresh
    BY <1>14 DEF Expire, TypeOK, Token, NoToken
  <2>2. UNCHANGED <<scopedTokenId, sessionCookies, call, live, generation>>
    BY <1>14 DEF Expire, server
  <2> QED
    BY <1>p, <1>q, <2>1, <2>2 DEF Unshared, Accepted
<1>15. CASE UNCHANGED vars
  BY <1>p, <1>q, <1>15 DEF Unshared, Accepted, vars, fields, server
<1> QED
  BY <1>1, <1>2, <1>3, <1>4, <1>5, <1>6, <1>7, <1>8, <1>9, <1>10, <1>11, <1>12, <1>13,
     <1>14, <1>15, Zenon DEF Next

\* What RotationsExact says of the cookies kept and of calls that refresh.
KeptWithin ==
  sessionCookies # NoCookies =>
    sessionCookies.generation <= generation[sessionCookies.session]
RefreshWithin(k) ==
  k.step = "refresh" =>
    /\ k.cookies.session # NoPat
    /\ k.cookies.generation <= generation[k.cookies.session]
    /\ k.cookies.generation < generation[k.cookies.session] \/ k.answer # "ok"
Rotated(k) == k.step = "refresh" /\ k.answer = "ok"
Newest(k) ==
  /\ generation[k.cookies.session] = k.cookies.generation + 1
  /\ sessionCookies.session = k.cookies.session =>
       sessionCookies.generation <= k.cookies.generation
Older(j, k) ==
  j.step = "refresh" /\ j.cookies.session = k.cookies.session =>
    j.answer # "ok" /\ j.cookies.generation <= k.cookies.generation

LEMMA RotationsExactMeans ==
  RotationsExact <=>
    /\ KeptWithin
    /\ \A c \in Callers : RefreshWithin(call[c])
    /\ \A c \in Callers : Rotated(call[c]) =>
         Newest(call[c]) /\ \A d \in Callers \ {c} : Older(call[d], call[c])
  BY Zenon DEF RotationsExact, KeptWithin, RefreshWithin, Rotated, Newest, Older, Answered

LEMMA RotationsExactNext ==
  RotationsExact' <=>
    /\ KeptWithin'
    /\ \A c \in Callers : RefreshWithin(call[c])'
    /\ \A c \in Callers : Rotated(call'[c]) =>
         Newest(call[c])' /\ \A d \in Callers \ {c} : Older(call'[d], call'[c])
  BY Zenon DEF RotationsExact, KeptWithin, RefreshWithin, Rotated, Newest, Older, Answered

\* Cookies are rotated one holder at a time.
LEMMA RotationsExactStep ==
  ASSUME TypeOK, LoginInv, [Next]_vars
  PROVE  RotationsExact'
<1>0. StepsMatch /\ FaultsCounted /\ RotationsExact
  BY DEF LoginInv
<1>r. /\ KeptWithin
      /\ \A c \in Callers : RefreshWithin(call[c])
      /\ \A c \in Callers : Rotated(call[c]) =>
           Newest(call[c]) /\ \A d \in Callers \ {c} : Older(call[d], call[c])
  BY <1>0, RotationsExactMeans
\* The caller stops refreshing, or never did; the sessions are left alone.
<1>a. ASSUME NEW c \in Callers, OthersKeep(c), generation' = generation,
             call'[c].step # "refresh", KeptWithin',
             \A e \in Callers \ {c} : Rotated(call[e]) => Newest(call[e])'
      PROVE  RotationsExact'
  <2>1. ASSUME NEW e \in Callers PROVE RefreshWithin(call[e])'
    <3>1. CASE e = c
      BY <1>a, <3>1 DEF RefreshWithin
    <3>2. CASE e # c
      BY <1>a, <1>r, <3>2 DEF RefreshWithin, OthersKeep
    <3> QED
      BY <3>1, <3>2
  <2>2. ASSUME NEW e \in Callers, Rotated(call'[e])
        PROVE  Newest(call[e])' /\ \A d \in Callers \ {e} : Older(call'[d], call'[e])
    <3>1. e # c /\ call'[e] = call[e]
      BY <1>a, <2>2, Zenon DEF Rotated, OthersKeep
    <3>2. ASSUME NEW d \in Callers \ {e} PROVE Older(call'[d], call'[e])
      <4>1. CASE d = c
        BY <1>a, <4>1, Zenon DEF Older
      <4>2. CASE d # c
        BY <1>a, <1>r, <2>2, <3>1, <4>2, Zenon DEF OthersKeep
      <4> QED
        BY <4>1, <4>2
    <3> QED
      BY <1>a, <2>2, <3>1, <3>2
  <2> QED
    BY <1>a, <2>1, <2>2, RotationsExactNext
<1>b. ASSUME NEW c \in Callers, OthersKeep(c), generation' = generation,
             call'[c].step # "refresh", sessionCookies' = sessionCookies
      PROVE  RotationsExact'
  <2>1. KeptWithin'
    BY <1>b, <1>r DEF KeptWithin
  <2>2. \A e \in Callers \ {c} : Rotated(call[e]) => Newest(call[e])'
    BY <1>b, <1>r DEF Newest, OthersKeep
  <2> QED
    BY <1>a, <1>b, <2>1, <2>2
<1>1. ASSUME NEW c \in Callers, Authenticate(c) \/ GetValidToken(c) PROVE RotationsExact'
  <2>1. OnlyStarts(c) /\ call'[c].step \in {"create", "exchange"}
    BY <1>1, StartEffects
  <2> QED
    BY <1>b, <2>1 DEF OnlyStarts
<1>2. ASSUME NEW c \in Callers, CreateServed(c) \/ ExchangeServed(c) \/ DeleteServed(c)
      PROVE  RotationsExact'
  <2>1. /\ OnlyAnswers(c) /\ generation' = generation
        /\ call[c].step \in {"create", "exchange", "delete", "cleanup"}
    BY <1>2, AnswerEffects
  <2> QED
    BY <1>b, <2>1 DEF OnlyAnswers
<1>3. ASSUME NEW c \in Callers,
             CreateResumed(c) \/ CleanupResumed(c) \/ GetValidTokenResumed(c)
      PROVE  RotationsExact'
  <2>1. /\ \E s \in {"exchange", "cleanup", "resolved", "rejected"} : OnlyRuns(c, s)
        /\ sessionCookies' = sessionCookies
    BY <1>0, <1>3, ResumeEffects DEF FieldsKeep
  <2> QED
    BY <1>b, <2>1 DEF OnlyRuns
<1>4. ASSUME NEW c \in Callers, Revoke(c) PROVE RotationsExact'
  <2>1. /\ OnlyStarts(c) /\ call'[c].step = "refresh"
        /\ call'[c].cookies = sessionCookies /\ sessionCookies # NoCookies
    BY <1>4, StartEffects
  <2>2. sessionCookies.session # NoPat
    BY <2>1 DEF TypeOK, Cookies, Pats, NoPat
  <2>3. KeptWithin'
    BY <1>r, <2>1 DEF KeptWithin, OnlyStarts
  <2>4. ASSUME NEW e \in Callers PROVE RefreshWithin(call[e])'
    <3>1. CASE e = c
      BY <1>r, <2>1, <2>2, <3>1 DEF RefreshWithin, KeptWithin, OnlyStarts
    <3>2. CASE e # c
      BY <1>r, <2>1, <3>2 DEF RefreshWithin, OnlyStarts, OthersKeep
    <3> QED
      BY <3>1, <3>2
  <2>5. ASSUME NEW e \in Callers, Rotated(call'[e])
        PROVE  Newest(call[e])' /\ \A d \in Callers \ {e} : Older(call'[d], call'[e])
    <3>1. e # c /\ call'[e] = call[e]
      BY <2>1, <2>5 DEF Rotated, OnlyStarts, OthersKeep
    <3>2. Newest(call[e])'
      BY <1>r, <2>1, <2>5, <3>1 DEF Newest, OnlyStarts
    <3>3. ASSUME NEW d \in Callers \ {e} PROVE Older(call'[d], call'[e])
      <4>1. CASE d = c
        BY <1>r, <2>1, <2>5, <3>1, <4>1 DEF Older, Newest, OnlyStarts
      <4>2. CASE d # c
        BY <1>r, <2>1, <2>5, <3>1, <4>2, Zenon DEF OnlyStarts, OthersKeep
      <4> QED
        BY <4>1, <4>2
    <3> QED
      BY <3>2, <3>3
  <2> QED
    BY <2>3, <2>4, <2>5, RotationsExactNext
<1>5. ASSUME NEW c \in Callers, RefreshServed(c) PROVE RotationsExact'
  <2> DEFINE s == call[c].cookies.session
             g == call[c].cookies.generation
  <2>1. /\ OnlyAnswers(c) /\ call[c].step = "refresh"
        /\ \/ generation' = generation /\ call'[c].answer = "failed"
           \/ g = generation[s] /\ generation' = [generation EXCEPT ![s] = @ + 1]
    BY <1>5, AnswerEffects
  <2>2. s \in Pats /\ g \in Nat
    BY <1>r, <2>1 DEF RefreshWithin, TypeOK, Call, Cookies, NoCookies
  <2>n. /\ generation \in [Pats -> Nat]
        /\ sessionCookies # NoCookies => sessionCookies.session \in Pats /\ sessionCookies.generation \in Nat
        /\ sessionCookies.session # NoPat => sessionCookies # NoCookies
        /\ \A e \in Callers : call[e].step = "refresh" =>
             call[e].cookies.session \in Pats /\ call[e].cookies.generation \in Nat
    <3>1. \A e \in Callers : call[e].step = "refresh" =>
             call[e].cookies.session \in Pats /\ call[e].cookies.generation \in Nat
      BY <1>r DEF RefreshWithin, TypeOK, Call, Cookies, NoCookies
    <3> QED
      BY <3>1 DEF TypeOK, Cookies, NoCookies
  <2>s. /\ call'[c].step = "refresh" /\ call'[c].cookies = call[c].cookies
        /\ sessionCookies' = sessionCookies
        /\ \A e \in Callers \ {c} : call'[e] = call[e]
    BY <2>1 DEF OnlyAnswers, OthersKeep
  <2> HIDE DEF s, g
  <2>3. CASE generation' = generation /\ call'[c].answer = "failed"
    <3>1. KeptWithin'
      BY <1>r, <2>s, <2>3 DEF KeptWithin
    <3>2. ASSUME NEW e \in Callers PROVE RefreshWithin(call[e])'
      <4>1. CASE e = c
        BY <1>r, <2>1, <2>s, <2>3, <4>1 DEF RefreshWithin
      <4>2. CASE e # c
        BY <1>r, <2>s, <2>3, <4>2 DEF RefreshWithin
      <4> QED
        BY <4>1, <4>2
    <3>3. ASSUME NEW e \in Callers, Rotated(call'[e])
          PROVE  Newest(call[e])' /\ \A d \in Callers \ {e} : Older(call'[d], call'[e])
      <4>1. e # c /\ call'[e] = call[e]
        BY <2>s, <2>3, <3>3 DEF Rotated
      <4>2. Newest(call[e])'
        BY <1>r, <2>s, <2>3, <3>3, <4>1 DEF Newest
      <4>3. ASSUME NEW d \in Callers \ {e} PROVE Older(call'[d], call'[e])
        <5>1. CASE d = c
          BY <1>r, <2>1, <2>s, <2>3, <3>3, <4>1, <5>1 DEF Older
        <5>2. CASE d # c
          BY <1>r, <2>s, <3>3, <4>1, <5>2, Zenon
        <5> QED
          BY <5>1, <5>2
      <4> QED
        BY <4>2, <4>3
    <3> QED
      BY <3>1, <3>2, <3>3, RotationsExactNext
  <2>4. CASE g = generation[s] /\ generation' = [generation EXCEPT ![s] = @ + 1]
    <3>g. /\ generation'[s] = g + 1
          /\ \A p \in Pats : p # s => generation'[p] = generation[p]
          /\ \A p \in Pats : generation[p] <= generation'[p] /\ generation[p] \in Nat /\ generation'[p] \in Nat
      BY <2>2, <2>4, <2>n
    <3>1. KeptWithin'
      BY <1>r, <2>s, <2>n, <3>g DEF KeptWithin
    <3>2. ASSUME NEW e \in Callers PROVE RefreshWithin(call[e])'
      <4>1. CASE e = c
        BY <1>r, <2>1, <2>2, <2>s, <2>4, <3>g, <4>1 DEF RefreshWithin, s, g
      <4>2. CASE e # c
        BY <1>r, <2>s, <2>n, <3>g, <4>2 DEF RefreshWithin
      <4> QED
        BY <4>1, <4>2
    <3>3. ASSUME NEW e \in Callers \ {c}, Rotated(call[e]) PROVE call[e].cookies.session # s
      <4>1. Newest(call[e]) /\ Older(call[c], call[e])
        BY <1>r, <3>3
      <4> QED
        BY <2>1, <2>2, <2>n, <2>4, <3>3, <4>1 DEF Newest, Older, Rotated, s, g
    <3>4. ASSUME NEW e \in Callers, Rotated(call'[e])
          PROVE  Newest(call[e])' /\ \A d \in Callers \ {e} : Older(call'[d], call'[e])
      <4>1. CASE e = c
        <5>1. Newest(call[c])'
          BY <1>r, <2>2, <2>s, <2>n, <2>4, <3>g DEF Newest, KeptWithin, s, g, NoPat, Pats
        <5>2. ASSUME NEW d \in Callers \ {c} PROVE Older(call'[d], call'[c])
          BY <1>r, <2>2, <2>s, <2>n, <2>4, <3>3, <5>2 DEF Older, RefreshWithin, Rotated, s, g
        <5> QED
          BY <4>1, <5>1, <5>2
      <4>2. CASE e # c
        <5>1. call'[e] = call[e] /\ Rotated(call[e]) /\ call[e].cookies.session # s
          BY <2>s, <3>3, <3>4, <4>2
        <5>2. Newest(call[e])'
          BY <1>r, <2>s, <2>n, <3>g, <5>1 DEF Newest, Rotated
        <5>3. ASSUME NEW d \in Callers \ {e} PROVE Older(call'[d], call'[e])
          <6>1. CASE d = c
            BY <2>s, <5>1, <6>1 DEF Older, s
          <6>2. CASE d # c
            BY <1>r, <2>s, <5>1, <6>2, Zenon
          <6> QED
            BY <6>1, <6>2
        <5> QED
          BY <5>2, <5>3
      <4> QED
        BY <4>1, <4>2
    <3> QED
      BY <3>1, <3>2, <3>4, RotationsExactNext
  <2> QED
    BY <2>1, <2>3, <2>4
<1>6. ASSUME NEW c \in Callers, AuthenticateResumed(c) PROVE RotationsExact'
  <2>1. /\ call[c].op = "authenticate" /\ call[c].step = "exchange"
        /\ \/ OnlyRuns(c, "resolved") /\ sessionCookies' = call[c].cookies
           \/ OnlyRuns(c, "cleanup") /\ sessionCookies' = sessionCookies
    BY <1>0, <1>6, ResumeEffects DEF FieldsKeep
  <2>2. CASE OnlyRuns(c, "cleanup") /\ sessionCookies' = sessionCookies
    BY <1>b, <2>2 DEF OnlyRuns
  <2>3. CASE OnlyRuns(c, "resolved") /\ sessionCookies' = call[c].cookies
    <3> DEFINE p == call[c].pat
    <3>1. /\ call[c].cookies = [session |-> p, generation |-> 0] /\ generation[p] = 0
          /\ \A d \in Callers \ {c} : call[d].cookies.session # p
      BY <2>1 DEF LoginInv, NewIsPrivate, Creating
    <3>2. sessionCookies'.session = p /\ sessionCookies'.generation = 0
      BY <2>3, <3>1
    <3>3. KeptWithin'
      BY <2>3, <3>1, <3>2 DEF KeptWithin, OnlyRuns
    <3>4. \A e \in Callers \ {c} : Rotated(call[e]) => Newest(call[e])'
      BY <1>r, <2>3, <3>1, <3>2 DEF Newest, OnlyRuns, OthersKeep
    <3> QED
      BY <1>a, <2>3, <3>3, <3>4 DEF OnlyRuns
  <2> QED
    BY <2>1, <2>2, <2>3
<1>7. ASSUME NEW c \in Callers, RefreshResumed(c) PROVE RotationsExact'
  <2>1. /\ call[c].step = "refresh"
        /\ \/ /\ OnlyRuns(c, "delete") /\ call[c].answer = "ok"
              /\ sessionCookies' = [call[c].cookies EXCEPT !.generation = @ + 1]
           \/ OnlyRuns(c, "rejected") /\ sessionCookies' = sessionCookies
    BY <1>0, <1>7, ResumeEffects
  <2>2. CASE OnlyRuns(c, "rejected") /\ sessionCookies' = sessionCookies
    BY <1>b, <2>2 DEF OnlyRuns
  <2>3. CASE /\ OnlyRuns(c, "delete") /\ call[c].answer = "ok"
             /\ sessionCookies' = [call[c].cookies EXCEPT !.generation = @ + 1]
    <3>1. call[c].cookies \in Cookies
      BY <1>r, <2>1 DEF RefreshWithin, TypeOK, Call, NoCookies
    <3>2. /\ sessionCookies'.session = call[c].cookies.session
          /\ sessionCookies'.generation = call[c].cookies.generation + 1
      BY <2>3, <3>1 DEF Cookies
    <3>3. /\ generation[call[c].cookies.session] = call[c].cookies.generation + 1
          /\ \A d \in Callers \ {c} : Older(call[d], call[c])
      BY <1>r, <2>1, <2>3 DEF Rotated, Newest
    <3>4. KeptWithin'
      BY <2>3, <3>1, <3>2, <3>3 DEF KeptWithin, OnlyRuns, Cookies
    <3>5. \A e \in Callers \ {c} : Rotated(call[e]) => Newest(call[e])'
      BY <1>r, <2>3, <3>2, <3>3 DEF Newest, Older, Rotated, OnlyRuns, OthersKeep
    <3> QED
      BY <1>a, <2>3, <3>4, <3>5 DEF OnlyRuns
  <2> QED
    BY <2>1, <2>2, <2>3
<1>8. ASSUME NEW c \in Callers, DeleteResumed(c) PROVE RotationsExact'
  <2>1. \/ OnlyRuns(c, "resolved") /\ sessionCookies' = NoCookies
        \/ OnlyRuns(c, "rejected") /\ sessionCookies' = sessionCookies
    BY <1>0, <1>8, ResumeEffects DEF FieldsKeep
  <2>2. CASE OnlyRuns(c, "rejected") /\ sessionCookies' = sessionCookies
    BY <1>b, <2>2 DEF OnlyRuns
  <2>3. CASE OnlyRuns(c, "resolved") /\ sessionCookies' = NoCookies
    <3>1. KeptWithin'
      BY <2>3 DEF KeptWithin
    <3>2. sessionCookies'.session = NoPat
      BY <2>3 DEF NoCookies
    <3>3. \A e \in Callers \ {c} : Rotated(call[e]) => Newest(call[e])'
      BY <1>r, <2>3, <3>2 DEF Newest, RefreshWithin, Rotated, OnlyRuns, OthersKeep
    <3> QED
      BY <1>a, <2>3, <3>1, <3>3 DEF OnlyRuns
  <2> QED
    BY <2>1, <2>2, <2>3
<1>9. CASE Expire \/ UNCHANGED vars
  <2>1. UNCHANGED <<sessionCookies, call, generation>>
    BY <1>9, Zenon DEF Expire, server, vars, fields
  <2> QED
    BY <1>0, <2>1, RotationsExactMeans, RotationsExactNext
    DEF KeptWithin, RefreshWithin, Newest
<1> QED
  BY <1>1, <1>2, <1>3, <1>4, <1>5, <1>6, <1>7, <1>8, <1>9, Zenon DEF Next

\* What FaultsCounted says of a call.
Counted(k) ==
  k.op = "authenticate" =>
    /\ k.step = "exchange" /\ k.answer = "failed" => faults >= 1
    /\ k.step = "cleanup" =>
         /\ k.attempt < Attempts
         /\ faults >= 1 + k.attempt
         /\ k.answer \in {"ok", "gone"} => k.target \notin live
         /\ k.answer = "failed" => faults >= 2 + k.attempt
    /\ k.step = "rejected" => k.target \notin live \/ faults > Attempts

LEMMA FaultsCountedMeans ==
  /\ FaultsCounted <=> \A c \in Callers : Counted(call[c])
  /\ FaultsCounted' <=> \A c \in Callers : Counted(call[c])'
  BY Zenon DEF FaultsCounted, Counted, Answered, Attempts

\* A cleanup that gives up has seen the exchange and every attempt fail.
LEMMA FaultsCountedStep ==
  ASSUME TypeOK, LoginInv, [Next]_vars
  PROVE  FaultsCounted'
<1>0. StepsMatch /\ FaultsCounted /\ NewIsPrivate
  BY DEF LoginInv
<1>n. \A d \in Callers : Counted(call[d])
  BY <1>0, FaultsCountedMeans
<1>t. faults \in Nat /\ Attempts \in Nat /\ \A d \in Callers : call[d].attempt \in Nat
  BY BoundsAssumption DEF TypeOK, Call, Attempts
<1>a. ASSUME NEW c \in Callers, OthersKeep(c), faults' \in {faults, faults + 1},
             \A d \in Callers \ {c} : call[d].target \in live' => call[d].target \in live,
             Counted(call[c])'
      PROVE  FaultsCounted'
  <2>1. ASSUME NEW d \in Callers PROVE Counted(call[d])'
    <3>1. CASE d = c
      BY <1>a, <3>1
    <3>2. CASE d # c
      BY <1>a, <1>n, <1>t, <3>2 DEF Counted, OthersKeep
    <3> QED
      BY <3>1, <3>2
  <2> QED
    BY <2>1, FaultsCountedMeans
<1>1. ASSUME NEW c \in Callers, Authenticate(c) \/ GetValidToken(c) \/ Revoke(c)
      PROVE  FaultsCounted'
  <2>1. /\ OnlyStarts(c)
        /\ call'[c].op # "authenticate" \/ call'[c].step = "create"
    BY <1>1, StartEffects
  <2> QED
    BY <1>a, <2>1 DEF OnlyStarts, Counted
<1>2. ASSUME NEW c \in Callers, CreateServed(c) PROVE FaultsCounted'
  <2>1. /\ OnlyAnswers(c) /\ call[c].step = "create"
        /\ live' \in {live, live \cup {call[c].pat}}
    BY <1>2, AnswerEffects
  <2>2. \A d \in Callers \ {c} : call[d].target # call[c].pat
    BY <1>0, <2>1 DEF StepsMatch, NewIsPrivate, Creating
  <2> QED
    BY <1>a, <2>1, <2>2 DEF OnlyAnswers, Counted
<1>3. ASSUME NEW c \in Callers, ExchangeServed(c) PROVE FaultsCounted'
  <2>1. /\ OnlyAnswers(c) /\ live' = live /\ call[c].step = "exchange"
        /\ call[c].pat \in live /\ call'[c].answer = "failed" => faults' = faults + 1
    BY <1>3, AnswerEffects
  <2>2. call[c].op = "authenticate" => call[c].pat \in live
    BY <1>0, <2>1 DEF NewIsPrivate, Creating
  <2>3. Counted(call[c])'
    BY <1>t, <2>1, <2>2 DEF OnlyAnswers, Counted
  <2> QED
    BY <1>a, <2>1, <2>3 DEF OnlyAnswers
<1>4. ASSUME NEW c \in Callers, RefreshServed(c) PROVE FaultsCounted'
  <2>1. OnlyAnswers(c) /\ live' = live /\ call[c].step = "refresh"
    BY <1>4, AnswerEffects
  <2> QED
    BY <1>a, <2>1 DEF OnlyAnswers, Counted
<1>5. ASSUME NEW c \in Callers, DeleteServed(c) PROVE FaultsCounted'
  <2>1. /\ OnlyAnswers(c) /\ call[c].step \in {"delete", "cleanup"} /\ live' \subseteq live
        /\ \/ live' = live \ {call[c].target} /\ call'[c].answer # "failed"
           \/ call'[c].answer = "failed" /\ faults' = faults + 1
    BY <1>5, AnswerEffects
  <2>2. Counted(call[c])
    BY <1>n
  <2>3. ASSUME call'[c].answer = "failed", faults' = faults + 1 PROVE Counted(call[c])'
    BY <1>t, <2>1, <2>2, <2>3 DEF OnlyAnswers, Counted
  <2>4. ASSUME live' = live \ {call[c].target}, call'[c].answer # "failed"
        PROVE  Counted(call[c])'
    <3>1. call'[c].target \notin live' /\ call'[c].step \in {"delete", "cleanup"}
      BY <2>1, <2>4 DEF OnlyAnswers
    <3> QED
      BY <1>t, <2>1, <2>2, <2>4, <3>1 DEF OnlyAnswers, Counted
  <2>5. Counted(call[c])'
    BY <2>1, <2>3, <2>4
  <2> QED
    BY <1>a, <2>1, <2>5 DEF OnlyAnswers
<1>6. ASSUME NEW c \in Callers, CreateResumed(c) PROVE FaultsCounted'
  <2>1. /\ call[c].step = "create"
        /\ OnlyRuns(c, "exchange") \/ (OnlyRuns(c, "rejected") /\ call'[c].target = call[c].target)
    BY <1>0, <1>6, ResumeEffects
  <2>2. call[c].target \notin live
    BY <1>0, <2>1 DEF StepsMatch, Creating, TypeOK, Pats, NoPat
  <2>3. Counted(call[c])'
    BY <2>1, <2>2 DEF OnlyRuns, Counted
  <2> QED
    BY <1>a, <2>1, <2>3 DEF OnlyRuns
<1>7. ASSUME NEW c \in Callers, AuthenticateResumed(c) PROVE FaultsCounted'
  <2>1. /\ call[c].op = "authenticate" /\ call[c].step = "exchange"
        /\ call'[c].attempt = call[c].attempt
        /\ OnlyRuns(c, "resolved") \/ (OnlyRuns(c, "cleanup") /\ call[c].answer = "failed")
    BY <1>0, <1>7, ResumeEffects
  <2>2. call[c].attempt = 0 /\ Attempts > 0
    BY <1>0, <2>1, BoundsAssumption DEF StepsMatch, Attempts
  <2>3. Counted(call[c])'
    BY <1>n, <1>t, <2>1, <2>2 DEF OnlyRuns, Counted
  <2> QED
    BY <1>a, <2>1, <2>3 DEF OnlyRuns
<1>8. ASSUME NEW c \in Callers, CleanupResumed(c) PROVE FaultsCounted'
  <2>1. /\ call[c].step = "cleanup" /\ call'[c].target = call[c].target
        /\ \/ OnlyRuns(c, "rejected") /\ call[c].answer \in {"ok", "gone"}
           \/ /\ OnlyRuns(c, "cleanup") /\ call[c].answer = "failed"
              /\ call'[c].attempt = call[c].attempt + 1
              /\ call[c].attempt + 1 < Attempts
           \/ /\ OnlyRuns(c, "rejected") /\ call[c].answer = "failed"
              /\ call[c].attempt + 1 >= Attempts
    BY <1>0, <1>8, ResumeEffects
  <2>2. Counted(call[c])'
    BY <1>n, <1>t, <2>1 DEF OnlyRuns, Counted
  <2> QED
    BY <1>a, <2>1, <2>2 DEF OnlyRuns
<1>9. ASSUME NEW c \in Callers, GetValidTokenResumed(c) \/ RefreshResumed(c) \/ DeleteResumed(c)
      PROVE  FaultsCounted'
  <2>1. /\ \E s : OnlyRuns(c, s)
        /\ call[c].op = "getValidToken" \/ call[c].step \in {"refresh", "delete"}
    BY <1>0, <1>9, ResumeEffects
  <2>2. call'[c].op # "authenticate"
    BY <1>0, <2>1 DEF StepsMatch, OnlyRuns
  <2> QED
    BY <1>a, <2>1, <2>2 DEF OnlyRuns, Counted
<1>10. CASE Expire \/ UNCHANGED vars
  <2>1. UNCHANGED <<call, live, faults>>
    BY <1>10, Zenon DEF Expire, server, vars, fields
  <2> QED
    BY <1>n, <2>1, FaultsCountedMeans DEF Counted
<1> QED
  BY <1>1, <1>2, <1>3, <1>4, <1>5, <1>6, <1>7, <1>8, <1>9, <1>10, Zenon DEF Next

\* The cookies kept fall behind only to a rotation that somebody still holds.
LEMMA CookiesCurrentStep ==
  ASSUME TypeOK, LoginInv, [Next]_vars
  PROVE  CookiesCurrent'
<1>0. StepsMatch /\ FaultsCounted /\ NewIsPrivate /\ RotationsExact /\ CookiesCurrent
  BY DEF LoginInv
<1> DEFINE s == sessionCookies.session
           current == sessionCookies.generation = generation[s]
           reported == <<"refresh", s>> \in lost
<1>w. sessionCookies # NoCookies =>
        current \/ reported \/ \E d \in Callers : Rotated(call[d]) /\ call[d].cookies.session = s
  BY <1>0 DEF CookiesCurrent, Answered, Rotated
<1>m. CookiesCurrent' <=>
        (sessionCookies' # NoCookies =>
           \/ current' \/ reported'
           \/ \E d \in Callers : Rotated(call'[d]) /\ call'[d].cookies.session = sessionCookies'.session)
  BY DEF CookiesCurrent, Answered, Rotated
<1>a. ASSUME NEW c \in Callers, OthersKeep(c), sessionCookies' = sessionCookies,
             generation' = generation, lost \subseteq lost', ~Rotated(call[c])
      PROVE  CookiesCurrent'
  BY <1>w, <1>m, <1>a DEF OthersKeep
<1>1. ASSUME NEW c \in Callers, Authenticate(c) \/ GetValidToken(c) \/ Revoke(c)
      PROVE  CookiesCurrent'
  <2>1. OnlyStarts(c)
    BY <1>1, StartEffects
  <2> QED
    BY <1>a, <2>1 DEF OnlyStarts, Rotated
<1>2. ASSUME NEW c \in Callers, CreateServed(c) \/ ExchangeServed(c) \/ DeleteServed(c)
      PROVE  CookiesCurrent'
  <2>1. /\ OnlyAnswers(c) /\ generation' = generation /\ lost \subseteq lost'
        /\ call[c].step \in {"create", "exchange", "delete", "cleanup"}
    BY <1>2, AnswerEffects
  <2> QED
    BY <1>a, <2>1 DEF OnlyAnswers, Rotated
<1>3. ASSUME NEW c \in Callers, RefreshServed(c) PROVE CookiesCurrent'
  <2> DEFINE r == call[c].cookies.session
  <2>1. /\ OnlyAnswers(c) /\ call[c].step = "refresh"
        /\ \/ generation' = generation /\ lost' = lost
           \/ /\ generation' = [generation EXCEPT ![r] = @ + 1]
              /\ \/ lost' = lost /\ call'[c].answer = "ok"
                 \/ lost' = lost \cup {<<"refresh", r>>}
    BY <1>3, AnswerEffects
  <2>2. ~Rotated(call[c])
    BY <2>1 DEF OnlyAnswers, Rotated
  <2>3. CASE generation' = generation /\ lost' = lost
    BY <1>a, <2>1, <2>2, <2>3 DEF OnlyAnswers
  <2>4. CASE /\ generation' = [generation EXCEPT ![r] = @ + 1]
             /\ \/ lost' = lost /\ call'[c].answer = "ok"
                \/ lost' = lost \cup {<<"refresh", r>>}
    <3>1. sessionCookies' = sessionCookies
      BY <2>1 DEF OnlyAnswers
    <3>2. CASE s = r
      <4>1. Rotated(call'[c]) \/ <<"refresh", r>> \in lost'
        BY <2>1, <2>4 DEF OnlyAnswers, Rotated
      <4>2. call'[c].cookies.session = r
        BY <2>1 DEF OnlyAnswers
      <4> QED
        BY <1>m, <3>1, <3>2, <4>1, <4>2
    <3>3. CASE s # r
      <4>1. ASSUME sessionCookies # NoCookies PROVE s \in Pats
        BY <4>1 DEF TypeOK, Cookies
      <4>2. sessionCookies # NoCookies => generation'[s] = generation[s]
        BY <2>4, <3>3, <4>1 DEF TypeOK
      <4>3. \A d \in Callers : Rotated(call[d]) => call'[d] = call[d]
        BY <2>1, <2>2 DEF OnlyAnswers, OthersKeep
      <4> QED
        BY <1>w, <1>m, <2>4, <3>1, <4>2, <4>3
    <3> QED
      BY <3>2, <3>3
  <2> QED
    BY <2>1, <2>3, <2>4
<1>4. ASSUME NEW c \in Callers,
             CreateResumed(c) \/ CleanupResumed(c) \/ GetValidTokenResumed(c)
      PROVE  CookiesCurrent'
  <2>1. /\ \E t \in {"exchange", "cleanup", "resolved", "rejected"} : OnlyRuns(c, t)
        /\ sessionCookies' = sessionCookies
        /\ call[c].step # "refresh"
    BY <1>0, <1>4, ResumeEffects DEF FieldsKeep
  <2> QED
    BY <1>a, <2>1 DEF OnlyRuns, Rotated
<1>5. ASSUME NEW c \in Callers, AuthenticateResumed(c) PROVE CookiesCurrent'
  <2>1. /\ call[c].op = "authenticate" /\ call[c].step = "exchange"
        /\ \/ OnlyRuns(c, "resolved") /\ sessionCookies' = call[c].cookies
           \/ OnlyRuns(c, "cleanup") /\ sessionCookies' = sessionCookies
    BY <1>0, <1>5, ResumeEffects DEF FieldsKeep
  <2>2. CASE OnlyRuns(c, "cleanup") /\ sessionCookies' = sessionCookies
    BY <1>a, <2>1, <2>2 DEF OnlyRuns, Rotated
  <2>3. CASE OnlyRuns(c, "resolved") /\ sessionCookies' = call[c].cookies
    <3> DEFINE p == call[c].pat
    <3>1. call[c].cookies = [session |-> p, generation |-> 0] /\ generation[p] = 0
      BY <1>0, <2>1 DEF NewIsPrivate, Creating
    <3>2. sessionCookies'.session = p /\ sessionCookies'.generation = 0 /\ generation' = generation
      BY <2>3, <3>1 DEF OnlyRuns
    <3> QED
      BY <1>m, <3>1, <3>2
  <2> QED
    BY <2>1, <2>2, <2>3
<1>6. ASSUME NEW c \in Callers, RefreshResumed(c) PROVE CookiesCurrent'
  <2>1. /\ call[c].step = "refresh"
        /\ \/ /\ OnlyRuns(c, "delete") /\ call[c].answer = "ok"
              /\ sessionCookies' = [call[c].cookies EXCEPT !.generation = @ + 1]
           \/ /\ OnlyRuns(c, "rejected") /\ call[c].answer = "failed"
              /\ sessionCookies' = sessionCookies
    BY <1>0, <1>6, ResumeEffects
  <2>2. CASE OnlyRuns(c, "rejected") /\ call[c].answer = "failed" /\ sessionCookies' = sessionCookies
    BY <1>a, <2>2 DEF OnlyRuns, Rotated
  <2>3. CASE /\ OnlyRuns(c, "delete") /\ call[c].answer = "ok"
             /\ sessionCookies' = [call[c].cookies EXCEPT !.generation = @ + 1]
    <3>1. call[c].cookies \in Cookies
      BY <1>0, <2>1 DEF RotationsExact, TypeOK, Call, NoCookies
    <3>2. /\ sessionCookies'.session = call[c].cookies.session
          /\ sessionCookies'.generation = call[c].cookies.generation + 1
      BY <2>3, <3>1 DEF Cookies
    <3>3. generation[call[c].cookies.session] = call[c].cookies.generation + 1
      BY <1>0, <2>1, <2>3 DEF RotationsExact, Answered
    <3> QED
      BY <1>m, <2>3, <3>2, <3>3 DEF OnlyRuns
  <2> QED
    BY <2>1, <2>2, <2>3
<1>7. ASSUME NEW c \in Callers, DeleteResumed(c) PROVE CookiesCurrent'
  <2>1. /\ call[c].step = "delete"
        /\ \/ OnlyRuns(c, "resolved") /\ sessionCookies' = NoCookies
           \/ OnlyRuns(c, "rejected") /\ sessionCookies' = sessionCookies
    BY <1>0, <1>7, ResumeEffects DEF FieldsKeep
  <2> QED
    BY <1>a, <1>m, <2>1 DEF OnlyRuns, Rotated
<1>8. CASE Expire \/ UNCHANGED vars
  <2>1. UNCHANGED <<sessionCookies, call, generation, lost>>
    BY <1>8, Zenon DEF Expire, server, vars, fields
  <2> QED
    BY <1>w, <1>m, <2>1
<1> QED
  BY <1>1, <1>2, <1>3, <1>4, <1>5, <1>6, <1>7, <1>8, Zenon DEF Next

\* A PAT dies either as the target of a revoke, or as the private PAT of an
\* authenticate that failed.
LEMMA DeadTokenIsBeingRevokedStep ==
  ASSUME TypeOK, LoginInv, [Next]_vars
  PROVE  DeadTokenIsBeingRevoked'
<1>0. StepsMatch /\ FaultsCounted /\ NewIsPrivate /\ DeadTokenIsBeingRevoked
  BY DEF LoginInv
<1> DEFINE p == cachedToken.refresh
           Deleted(k) == k.step = "delete" /\ k.answer = "ok"
<1>w. cachedToken # NoToken /\ p \notin live =>
        <<"delete", p>> \in lost \/ \E d \in Callers : Deleted(call[d]) /\ call[d].target = p
  BY <1>0 DEF DeadTokenIsBeingRevoked, Answered
<1>m. DeadTokenIsBeingRevoked' <=>
        (cachedToken' # NoToken /\ p' \notin live' =>
           \/ <<"delete", p'>> \in lost'
           \/ \E d \in Callers : Deleted(call'[d]) /\ call'[d].target = cachedToken'.refresh)
  BY DEF DeadTokenIsBeingRevoked, Answered
<1>a. ASSUME NEW c \in Callers, OthersKeep(c), p' = p,
             cachedToken = NoToken => cachedToken' = NoToken,
             p \in live => p \in live', lost \subseteq lost', ~Deleted(call[c])
      PROVE  DeadTokenIsBeingRevoked'
  BY <1>w, <1>m, <1>a DEF OthersKeep
<1>1. ASSUME NEW c \in Callers, Authenticate(c) \/ GetValidToken(c) \/ Revoke(c)
      PROVE  DeadTokenIsBeingRevoked'
  <2>1. OnlyStarts(c)
    BY <1>1, StartEffects
  <2> QED
    BY <1>a, <2>1 DEF OnlyStarts
<1>2. ASSUME NEW c \in Callers, CreateServed(c) \/ ExchangeServed(c) \/ RefreshServed(c)
      PROVE  DeadTokenIsBeingRevoked'
  <2>1. /\ OnlyAnswers(c) /\ live \subseteq live' /\ lost \subseteq lost'
        /\ call[c].step \in {"create", "exchange", "refresh"}
    BY <1>2, AnswerEffects
  <2> QED
    BY <1>a, <2>1 DEF OnlyAnswers
<1>3. ASSUME NEW c \in Callers, DeleteServed(c) PROVE DeadTokenIsBeingRevoked'
  <2> DEFINE t == call[c].target
  <2>1. /\ OnlyAnswers(c) /\ call[c].step \in {"delete", "cleanup"}
        /\ \/ /\ live' = live \ {t} /\ lost' = lost
              /\ call'[c].answer = IF t \in live THEN "ok" ELSE "gone"
           \/ live' = live /\ lost' = lost
           \/ live' = live \ {t} /\ lost' = lost \cup {<<"delete", t>>}
    BY <1>3, AnswerEffects
  <2>2. p' = p /\ cachedToken' = cachedToken /\ ~Deleted(call[c]) /\ OthersKeep(c)
        /\ lost \subseteq lost'
    BY <2>1 DEF OnlyAnswers
  <2>3. CASE p # t \/ p \notin live \/ live' = live
    <3>1. p \in live => p \in live'
      BY <2>1, <2>3
    <3> QED
      BY <1>a, <2>2, <3>1
  <2>4. CASE p = t /\ p \in live /\ live' # live
    <3>1. call[c].step = "delete"
      <4>1. call[c].step = "cleanup" => call[c].target # p
        BY <1>0 DEF StepsMatch, NewIsPrivate, Creating
      <4> QED
        BY <2>1, <2>4, <4>1
    <3>2. Deleted(call'[c]) \/ <<"delete", t>> \in lost'
      BY <2>1, <2>4, <3>1 DEF OnlyAnswers
    <3>3. call'[c].target = t
      BY <2>1 DEF OnlyAnswers
    <3> QED
      BY <1>m, <2>2, <2>4, <3>2, <3>3
  <2> QED
    BY <2>3, <2>4
<1>4. ASSUME NEW c \in Callers,
             CreateResumed(c) \/ CleanupResumed(c) \/ RefreshResumed(c)
      PROVE  DeadTokenIsBeingRevoked'
  <2>1. /\ \E s : OnlyRuns(c, s)
        /\ cachedToken' = cachedToken /\ call[c].step # "delete"
    BY <1>0, <1>4, ResumeEffects DEF FieldsKeep
  <2> QED
    BY <1>a, <2>1 DEF OnlyRuns
<1>5. ASSUME NEW c \in Callers, AuthenticateResumed(c) PROVE DeadTokenIsBeingRevoked'
  <2>1. /\ call[c].op = "authenticate" /\ call[c].step = "exchange"
        /\ \/ OnlyRuns(c, "resolved") /\ p' = call[c].pat
           \/ OnlyRuns(c, "cleanup") /\ cachedToken' = cachedToken
    BY <1>0, <1>5, ResumeEffects DEF FieldsKeep
  <2>2. CASE OnlyRuns(c, "cleanup") /\ cachedToken' = cachedToken
    BY <1>a, <2>1, <2>2 DEF OnlyRuns
  <2>3. CASE OnlyRuns(c, "resolved") /\ p' = call[c].pat
    <3>1. call[c].pat \in live
      BY <1>0, <2>1 DEF NewIsPrivate, Creating
    <3> QED
      BY <1>m, <2>3, <3>1 DEF OnlyRuns
  <2> QED
    BY <2>1, <2>2, <2>3
<1>6. ASSUME NEW c \in Callers, GetValidTokenResumed(c) PROVE DeadTokenIsBeingRevoked'
  <2>1. /\ \E s : OnlyRuns(c, s)
        /\ call[c].step = "exchange" /\ p' = p
        /\ cachedToken = NoToken => cachedToken' = NoToken
    BY <1>0, <1>6, ResumeEffects
  <2> QED
    BY <1>a, <2>1 DEF OnlyRuns
<1>7. ASSUME NEW c \in Callers, DeleteResumed(c) PROVE DeadTokenIsBeingRevoked'
  <2>1. \/ cachedToken' = NoToken
        \/ OnlyRuns(c, "rejected") /\ cachedToken' = cachedToken /\ call[c].answer # "ok"
    BY <1>0, <1>7, ResumeEffects DEF FieldsKeep
  <2> QED
    BY <1>a, <1>m, <2>1 DEF OnlyRuns
<1>8. CASE Expire
  <2>1. p' = p /\ cachedToken # NoToken
    BY <1>8 DEF Expire, TypeOK, Token, NoToken
  <2>2. UNCHANGED <<call, live, lost>>
    BY <1>8 DEF Expire, server
  <2> QED
    BY <1>w, <1>m, <2>1, <2>2
<1>9. CASE UNCHANGED vars
  <2>1. UNCHANGED <<cachedToken, call, live, lost>>
    BY <1>9 DEF vars, fields, server
  <2> QED
    BY <1>w, <1>m, <2>1
<1> QED
  BY <1>1, <1>2, <1>3, <1>4, <1>5, <1>6, <1>7, <1>8, <1>9, Zenon DEF Next

\* The only step that caches a token where there is none ends an authenticate.
LEMMA CachesOnlyByAuthenticate ==
  ASSUME TypeOK, LoginInv, [Next]_vars, cachedToken = NoToken, cachedToken' # NoToken
  PROVE  \E c \in Callers : call[c].op = "authenticate" /\ call'[c].step = "resolved"
<1>0. StepsMatch /\ FaultsCounted
  BY DEF LoginInv
<1>1. ASSUME NEW c \in Callers, Authenticate(c) \/ GetValidToken(c) \/ Revoke(c)
      PROVE  cachedToken' = cachedToken
  BY <1>1, StartEffects DEF OnlyStarts
<1>2. ASSUME NEW c \in Callers,
             CreateServed(c) \/ ExchangeServed(c) \/ RefreshServed(c) \/ DeleteServed(c)
      PROVE  cachedToken' = cachedToken
  BY <1>2, AnswerEffects DEF OnlyAnswers
<1>3. ASSUME NEW c \in Callers, CreateResumed(c) \/ CleanupResumed(c) \/ RefreshResumed(c)
      PROVE  cachedToken' = cachedToken
  BY <1>0, <1>3, ResumeEffects DEF FieldsKeep
<1>4. ASSUME NEW c \in Callers, GetValidTokenResumed(c) \/ DeleteResumed(c)
      PROVE  cachedToken = NoToken => cachedToken' = NoToken
  BY <1>0, <1>4, ResumeEffects DEF FieldsKeep
<1>5. ASSUME NEW c \in Callers, AuthenticateResumed(c)
      PROVE  \/ cachedToken' = cachedToken
             \/ call[c].op = "authenticate" /\ call'[c].step = "resolved"
  BY <1>0, <1>5, ResumeEffects DEF FieldsKeep, OnlyRuns
<1>6. CASE Expire
  BY <1>6 DEF Expire, NoToken
<1>7. CASE UNCHANGED vars
  BY <1>7 DEF vars, fields
<1> QED
  BY <1>1, <1>2, <1>3, <1>4, <1>5, <1>6, <1>7, Zenon DEF Next

-----------------------------------------------------------------------------
(* The theorems                                                            *)

LEMMA InvInit == Init => LoginInv
<1> SUFFICES ASSUME Init PROVE LoginInv
  OBVIOUS
<1>1. /\ cachedToken = NoToken /\ scopedTokenId = NoPat /\ sessionCookies = NoCookies
      /\ calls = 0 /\ generation = [p \in Pats |-> 0]
      /\ \A c \in Callers : call[c] = NoCall
  BY DEF Init
<1>2. StepsMatch /\ NewIsPrivate /\ FaultsCounted
  BY <1>1 DEF StepsMatch, NewIsPrivate, FaultsCounted, Creating, Answered, NoCall
<1>3. RotationsExact /\ CookiesCurrent /\ DeadTokenIsBeingRevoked
  BY <1>1 DEF RotationsExact, CookiesCurrent, DeadTokenIsBeingRevoked, Answered, NoCall
<1>4. Numbered
  BY <1>1 DEF Numbered, NoCall, NoToken, NoCookies, NoPat
<1> QED
  BY <1>2, <1>3, <1>4 DEF LoginInv

\* The variables keep their types, and the invariant behind the other theorems
\* is inductive: the calls of OpenSeaAuth (src/src/auth/index.ts) may overlap
\* in any way and any request may be lost.
THEOREM LoginInvariant == Spec => [](TypeOK /\ LoginInv)
<1>1. TypeOK /\ LoginInv /\ [Next]_vars => (TypeOK /\ LoginInv)'
  <2> SUFFICES ASSUME TypeOK, LoginInv, [Next]_vars PROVE TypeOK' /\ LoginInv'
    BY Zenon
  <2>1. TypeOK'
    BY TypeStep DEF LoginInv
  <2> QED
    BY <2>1, StepsMatchStep, NumberedStep, NewIsPrivateStep, RotationsExactStep,
       FaultsCountedStep, CookiesCurrentStep, DeadTokenIsBeingRevokedStep, Zenon DEF LoginInv
<1> QED
  BY <1>1, TypeInit, InvInit, PTL DEF Spec

\* Every field, call and PAT is of its kind: no PAT beyond the calls made, and no
\* attempt beyond SCOPED_TOKEN_CLEANUP_ATTEMPTS (cleanupScopedToken).
THEOREM TypeCorrect == Spec => []TypeOK
  BY LoginInvariant, PTL

\* A PAT whose exchange failed stays behind only when every attempt to delete
\* it failed as well (cleanupScopedToken).
THEOREM OrphanNeedsEveryAttemptHolds == Spec => []OrphanNeedsEveryAttempt
<1>1. TypeOK /\ LoginInv => OrphanNeedsEveryAttempt
  BY DEF LoginInv, FaultsCounted, OrphanNeedsEveryAttempt
<1> QED
  BY <1>1, LoginInvariant, PTL

\* The cookies kept are the ones the session accepts, but for a rotation that
\* is under way or whose answer was lost (index.ts:163-165).
THEOREM CookiesCurrentHolds == Spec => []CookiesCurrent
<1>1. TypeOK /\ LoginInv => CookiesCurrent
  BY DEF LoginInv
<1> QED
  BY <1>1, LoginInvariant, PTL

\* A token whose PAT the server has deleted is cached only until the revoke that
\* deleted it is resumed, unless its answer was lost.
THEOREM DeadTokenIsBeingRevokedHolds == Spec => []DeadTokenIsBeingRevoked
<1>1. TypeOK /\ LoginInv => DeadTokenIsBeingRevoked
  BY DEF LoginInv
<1> QED
  BY <1>1, LoginInvariant, PTL

\* A revoked token is never cached again, whatever was under way when it was
\* revoked: only authenticate caches one (index.ts:120-124).
THEOREM RevokedStaysGoneHolds == Spec => RevokedStaysGone
<1>1. TypeOK /\ LoginInv /\ [Next]_vars
        => [cachedToken = NoToken /\ cachedToken' # NoToken =>
              \E c \in Callers : call[c].op = "authenticate" /\ call'[c].step = "resolved"]_vars
  BY CachesOnlyByAuthenticate
<1> QED
  BY <1>1, LoginInvariant, PTL DEF Spec, RevokedStaysGone
=============================================================================
