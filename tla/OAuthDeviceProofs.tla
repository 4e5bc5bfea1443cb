--------------------------- MODULE OAuthDeviceProofs ---------------------------
(***************************************************************************)
(* Theorems about OAuthDevice, for every interval, lifetime, timeout and   *)
(* bound on slow_down answers.                                             *)
(***************************************************************************)
EXTENDS OAuthDevice, TLAPS

Requesting == {"discovery", "authorize", "poll"}

\* What the server may answer at each step that has a request.
Answers ==
  [discovery |-> {"ok", "invalid"}, authorize |-> {"ok"},
   poll |-> {"ok", "authorization_pending", "slow_down", "expired_token",
             "access_denied"}]

FlagsOK == redeemed \in BOOLEAN /\ failed \in BOOLEAN

ValuesOK ==
  /\ step \in Requesting \cup {"start", "shown", "sleep", "token", "rejected"}
  /\ timer \in Nat /\ intervalMs \in Nat /\ deadline \in Nat /\ wait \in Nat
  /\ approvedLeft \in Nat /\ validity \in Nat /\ sincePoll \in Nat
  /\ slowDowns \in 0..MaxSlowDowns
  /\ user \in {"undecided", "approved", "denied"}
TypeOK == FlagsOK /\ ValuesOK

\* A request is under way at the steps that send one, and only there; what is
\* being read has been answered, by an answer that its step can get.
RequestShape ==
  /\ awaiting \in {"nothing", "headers", "body"}
  /\ awaiting = "nothing" <=> step \notin Requesting
  /\ awaiting = "nothing" => answer = "none"
  /\ awaiting = "body" => answer # "none" /\ timer = 0
  /\ answer # "none" => answer \in Answers[step]
  /\ timer <= timeoutMs

\* The interval that the server has asked for so far.
Asked == Interval + SlowDown * slowDowns

\* The client's interval is the one it was asked for, but for a slow_down that
\* it has not read yet; a sleep ends no sooner than that after the poll.
Pace ==
  /\ step # "rejected" =>
       Asked = IF answer = "slow_down" THEN intervalMs + SlowDown ELSE intervalMs
  /\ step = "sleep" => wait <= intervalMs /\ sincePoll + wait >= intervalMs

\* An issued token is the client's, or on its way, or was lost by a failure.
TokenKept ==
  redeemed => \/ step = "token"
              \/ step = "poll" /\ answer = "ok"
              \/ step = "rejected" /\ failed

\* The inductive invariant of the pace of polling and of the token's fate.
DeviceInv == TypeOK /\ RequestShape /\ Pace /\ TokenKept

\* The code runs out no later than the client stops polling.  Before there is a
\* code the user has nothing to decide, and a flow that was rejected without a
\* failure has a decision or no valid code left.
CodeLife ==
  /\ validity <= Lifetime
  /\ step \in {"start", "discovery"} => validity = 0 /\ user = "undecided"
  /\ step \in {"poll", "sleep"} => validity <= deadline
  /\ step = "rejected" /\ ~failed => validity = 0 \/ user # "undecided"

\* What an approval can still cost: the rest of a poll that was answered before
\* it, the sleep after that poll and a poll that sees it, each with the code
\* still valid; or the approval came too late for that.
StillInTime ==
  \/ approvedLeft <= 2 * timeoutMs + Asked
  \/ step \in {"authorize", "shown", "token"}
  \/ step = "rejected" /\ failed
  \/ step = "poll" /\ answer = "ok"
  \/ /\ step = "poll" /\ answer = "none" /\ validity > 0
     /\ approvedLeft + timer <= validity + 2 * timeoutMs + Asked
  \/ /\ step = "poll" /\ answer \in {"authorization_pending", "slow_down"}
     /\ validity > 0
     /\ approvedLeft + timer <= validity + timeoutMs
  \/ /\ step = "sleep" /\ validity > 0
     /\ approvedLeft + wait <= validity + timeoutMs + Asked

\* The inductive invariant of the approval, next to DeviceInv.
ApprovalInv ==
  /\ CodeLife
  /\ answer = "access_denied" => user = "denied"
  /\ answer = "expired_token" => validity = 0
  /\ user = "approved" => StillInTime

-----------------------------------------------------------------------------

LEMMA AskedGrows ==
  ASSUME TypeOK
  PROVE  /\ Asked \in Nat
         /\ Asked <= LongestInterval
         /\ slowDowns' = slowDowns => Asked' = Asked
         /\ slowDowns' = slowDowns + 1 => Asked' = Asked + SlowDown
<1>1. /\ slowDowns \in Nat /\ MaxSlowDowns \in Nat /\ slowDowns <= MaxSlowDowns
      /\ SlowDown \in Nat /\ Interval \in Nat
  BY TimesAssumption DEF TypeOK, ValuesOK
<1>2. \A s, m, n \in Nat : m <= n => s * m \in Nat /\ s * m <= s * n
  <2> SUFFICES ASSUME NEW s \in Nat, NEW m \in Nat, NEW n \in Nat, m <= n
               PROVE  s * m \in Nat /\ s * m <= s * n
    OBVIOUS
  <2>1. PICK d \in Nat : n = m + d
    <3>1. n - m \in Nat /\ n = m + (n - m)
      OBVIOUS
    <3> QED
      BY <3>1
  <2>2. s * n = s * m + s * d /\ s * m \in Nat /\ s * d \in Nat
    BY <2>1
  <2> QED
    BY <2>2
<1>3. SlowDown * slowDowns \in Nat /\ SlowDown * slowDowns <= SlowDown * MaxSlowDowns
  BY <1>1, <1>2
<1>4. SlowDown * (slowDowns + 1) = SlowDown * slowDowns + SlowDown
  BY <1>1
<1> QED
  BY <1>1, <1>3, <1>4 DEF Asked, LongestInterval

LEMMA DeviceInit == Init => DeviceInv
<1> SUFFICES ASSUME Init PROVE DeviceInv
  OBVIOUS
<1>1. TypeOK
  <2>1. ValuesOK
    BY TimesAssumption DEF Init, ValuesOK
  <2>2. FlagsOK
    BY Zenon DEF Init, FlagsOK
  <2> QED
    BY <2>1, <2>2 DEF TypeOK
<1>2. RequestShape
  BY TimesAssumption DEF Init, RequestShape, Requesting
<1>3. Asked = intervalMs
  BY TimesAssumption DEF Init, Asked
<1> QED
  BY <1>1, <1>2, <1>3 DEF Init, DeviceInv, Pace, TokenKept

LEMMA TypeStep ==
  ASSUME TypeOK, [Next]_vars
  PROVE  TypeOK'
<1>1. FlagsOK'
  <2> USE Zenon DEF TypeOK, FlagsOK, Send, Goto, Serve
  <2>1. CASE RequestDeviceAuthorization \/ Discovered \/ Authorized \/ PollDeviceToken
    BY <2>1 DEF RequestDeviceAuthorization, Discovered, Authorized, PollDeviceToken, outside
  <2>2. CASE Polled \/ Wake \/ Headers \/ RequestFails
    BY <2>2 DEF Polled, Wake, Headers, RequestFails, outside
  <2>3. CASE DiscoveryServed \/ CodeIssued \/ PollServed
    BY <2>3 DEF DiscoveryServed, CodeIssued, PollServed
  <2>4. CASE Decide \/ Tick \/ UNCHANGED vars
    BY <2>4 DEF Decide, Tick, vars, client, outside
  <2> QED
    BY <2>1, <2>2, <2>3, <2>4 DEF Next
<1>2. ValuesOK'
  <2> USE TimesAssumption DEF TypeOK, ValuesOK, Requesting, Send, Goto, Serve
  <2>1. CASE RequestDeviceAuthorization \/ Discovered \/ Authorized \/ PollDeviceToken
    BY <2>1 DEF RequestDeviceAuthorization, Discovered, Authorized, PollDeviceToken, outside
  <2>2. CASE Polled
    <3>1. intervalAfter \in Nat
      BY DEF intervalAfter
    <3> QED
      BY <2>2, <3>1 DEF Polled, outside
  <2>3. CASE Wake \/ Headers \/ RequestFails
    BY <2>3 DEF Wake, Headers, RequestFails, outside
  <2>4. CASE DiscoveryServed \/ CodeIssued \/ PollServed
    BY <2>4 DEF DiscoveryServed, CodeIssued, PollServed
  <2>5. CASE Decide \/ Tick \/ UNCHANGED vars
    BY <2>5 DEF Decide, Tick, Left, vars, client, request, outside
  <2> QED
    BY <2>1, <2>2, <2>3, <2>4, <2>5 DEF Next
<1> QED
  BY <1>1, <1>2 DEF TypeOK

LEMMA ShapeStep ==
  ASSUME TypeOK, RequestShape, [Next]_vars
  PROVE  RequestShape'
<1> USE TimesAssumption DEF TypeOK, ValuesOK, RequestShape, Requesting, Answers, Send, Goto,
                            Serve
<1>1. CASE RequestDeviceAuthorization \/ Discovered \/ Authorized \/ PollDeviceToken
  BY <1>1 DEF RequestDeviceAuthorization, Discovered, Authorized, PollDeviceToken
<1>2. CASE Polled
  BY <1>2 DEF Polled
<1>3. CASE Wake \/ Headers \/ RequestFails
  BY <1>3 DEF Wake, Headers, RequestFails
<1>4. CASE DiscoveryServed \/ CodeIssued \/ PollServed
  BY <1>4 DEF DiscoveryServed, CodeIssued, PollServed, Waiting
<1>5. CASE Decide \/ Tick \/ UNCHANGED vars
  BY <1>5 DEF Decide, Tick, TimerDue, Left, vars, client, request
<1> QED
  BY <1>1, <1>2, <1>3, <1>4, <1>5 DEF Next

\* Only a slow_down changes the interval asked for; the poll it answers is
\* read before the next sleep starts.
LEMMA PaceStep ==
  ASSUME TypeOK, RequestShape, Pace, [Next]_vars
  PROVE  Pace'
<1> USE TimesAssumption DEF TypeOK, ValuesOK, RequestShape, Requesting, Answers, Pace
<1>1. CASE RequestDeviceAuthorization \/ Discovered \/ Authorized \/ PollDeviceToken
  BY <1>1, AskedGrows DEF RequestDeviceAuthorization, Discovered, Authorized,
                          PollDeviceToken, Answered, Send, Goto, outside
<1>2. CASE Polled
  <2>1. Asked' = Asked /\ step = "poll"
    BY <1>2, AskedGrows DEF Polled, outside
  <2>2. CASE answer \in {"authorization_pending", "slow_down"}
    <3>1. intervalMs' = Asked
      BY <1>2, <2>1, <2>2 DEF Polled, intervalAfter
    <3> QED
      BY <1>2, <2>1, <2>2, <3>1, AskedGrows DEF Polled, Goto
  <2>3. CASE answer \notin {"authorization_pending", "slow_down"}
    BY <1>2, <2>1, <2>3 DEF Polled, Goto
  <2> QED
    BY <2>2, <2>3
<1>3. CASE Wake \/ Headers \/ RequestFails
  BY <1>3, AskedGrows DEF Wake, Headers, RequestFails, Send, Goto, outside
<1>4. CASE DiscoveryServed \/ CodeIssued
  BY <1>4, AskedGrows DEF DiscoveryServed, CodeIssued, Waiting, Serve
<1>5. CASE PollServed
  BY <1>5, AskedGrows DEF PollServed, Waiting, Serve
<1>6. CASE Decide
  BY <1>6, AskedGrows DEF Decide, client, request
<1>7. CASE Tick
  <2>1. Asked' = Asked /\ Asked <= LongestInterval /\ Asked \in Nat
    BY <1>7, AskedGrows DEF Tick
  <2>2. LongestInterval \in Nat
    BY DEF LongestInterval
  <2> QED
    BY <1>7, <2>1, <2>2 DEF Tick, TimerDue, Left
<1>8. CASE UNCHANGED vars
  BY <1>8, AskedGrows DEF vars, client, request, outside
<1> QED
  BY <1>1, <1>2, <1>3, <1>4, <1>5, <1>6, <1>7, <1>8 DEF Next

\* Only a poll that is answered redeems the code, and only a failure takes the
\* answer away.
LEMMA TokenStep ==
  ASSUME TypeOK, RequestShape, TokenKept, [Next]_vars
  PROVE  TokenKept'
<1> USE Zenon DEF TokenKept, Send, Goto, Serve
<1>1. CASE RequestDeviceAuthorization \/ Discovered \/ Authorized \/ PollDeviceToken
  BY <1>1 DEF RequestDeviceAuthorization, Discovered, Authorized, PollDeviceToken,
              Answered, outside
<1>2. CASE Polled
  BY <1>2 DEF Polled, takesToken, outside
<1>3. CASE Wake \/ Headers \/ RequestFails
  BY <1>3 DEF Wake, Headers, RequestFails, outside, RequestShape, Requesting
<1>4. CASE DiscoveryServed \/ CodeIssued
  BY <1>4 DEF DiscoveryServed, CodeIssued, Waiting
<1>5. CASE PollServed
  BY <1>5 DEF PollServed, Waiting
<1>6. CASE Decide \/ Tick \/ UNCHANGED vars
  BY <1>6 DEF Decide, Tick, vars, client, request, outside
<1> QED
  BY <1>1, <1>2, <1>3, <1>4, <1>5, <1>6 DEF Next

\* The inductive invariant: requests are shaped by their steps, the client
\* keeps the pace it was asked for and an issued token is accounted for.
THEOREM DeviceInvariant == Spec => []DeviceInv
<1>1. DeviceInv /\ [Next]_vars => DeviceInv'
  BY TypeStep, ShapeStep, PaceStep, TokenStep DEF DeviceInv
<1> QED
  BY <1>1, DeviceInit, PTL DEF Spec

\* A token the server has issued is not dropped, however late it comes: only a
\* request that fails can lose it (pollDeviceToken).
THEOREM IssuedIsTakenHolds == Spec => []IssuedIsTaken
<1>1. DeviceInv => IssuedIsTaken
  BY Zenon DEF DeviceInv, TokenKept, IssuedIsTaken
<1> QED
  BY <1>1, DeviceInvariant, PTL

\* Between a poll and the next one passes the interval the server asked for,
\* every slow_down so far included (pollDeviceToken).
THEOREM KeepsDistanceHolds == Spec => KeepsDistance
<1>1. DeviceInv /\ [Next]_vars
        => [step = "sleep" /\ step' = "poll" =>
              sincePoll >= Interval + SlowDown * slowDowns]_vars
  <2> SUFFICES ASSUME DeviceInv, Next, step = "sleep", step' = "poll"
               PROVE  sincePoll >= Asked
    BY DEF Asked
  <2>1. Wake
    BY DEF Next, RequestDeviceAuthorization, Discovered, Authorized, PollDeviceToken,
           Polled, Headers, RequestFails, DiscoveryServed, CodeIssued, PollServed, Decide,
           Tick, Answered, Waiting, Serve, Goto, Send, client, request
  <2>2. wait = 0 /\ wait \in Nat /\ sincePoll \in Nat
    BY <2>1 DEF Wake, DeviceInv, TypeOK, ValuesOK
  <2>3. sincePoll + wait >= intervalMs /\ (answer # "slow_down" => Asked = intervalMs)
    BY DEF DeviceInv, Pace
  <2>4. answer = "none"
    BY DEF DeviceInv, RequestShape, Requesting
  <2> QED
    BY <2>2, <2>3, <2>4
<1> QED
  BY <1>1, DeviceInvariant, PTL DEF Spec, KeepsDistance

-----------------------------------------------------------------------------

LEMMA CodeLifeStep ==
  ASSUME DeviceInv, ApprovalInv, [Next]_vars
  PROVE  CodeLife'
<1> USE TimesAssumption DEF DeviceInv, TypeOK, ValuesOK, RequestShape, Requesting, Answers,
                            ApprovalInv, CodeLife
<1>1. CASE RequestDeviceAuthorization \/ Discovered \/ Authorized \/ PollDeviceToken
  BY <1>1 DEF RequestDeviceAuthorization, Discovered, Authorized, PollDeviceToken, Answered,
              Send, Goto, outside
<1>2. CASE Polled
  BY <1>2 DEF Polled, takesToken, Goto, outside
<1>3. CASE Wake
  BY <1>3 DEF Wake, beforeDeadline, Send, Goto, outside
<1>4. CASE Headers
  BY <1>4 DEF Headers, outside
<1>5. CASE RequestFails
  BY <1>5 DEF RequestFails, Goto, outside
<1>6. CASE DiscoveryServed \/ CodeIssued \/ PollServed
  BY <1>6 DEF DiscoveryServed, CodeIssued, PollServed, Waiting, Serve
<1>7. CASE Decide
  BY <1>7 DEF Decide, client, request
<1>8. CASE Tick
  BY <1>8 DEF Tick, Left
<1>9. CASE UNCHANGED vars
  BY <1>9 DEF vars, client, request, outside
<1> QED
  BY <1>1, <1>2, <1>3, <1>4, <1>5, <1>6, <1>7, <1>8, <1>9 DEF Next

\* The server refuses a code only for what the user decided, or for its age.
LEMMA RefusalStep ==
  ASSUME DeviceInv, ApprovalInv, [Next]_vars
  PROVE  /\ (answer = "access_denied" => user = "denied")'
         /\ (answer = "expired_token" => validity = 0)'
<1> USE DEF DeviceInv, TypeOK, ValuesOK, ApprovalInv
<1>1. CASE RequestDeviceAuthorization \/ Discovered \/ Authorized \/ PollDeviceToken
  BY <1>1 DEF RequestDeviceAuthorization, Discovered, Authorized, PollDeviceToken, Send, Goto
<1>2. CASE Polled \/ Wake \/ RequestFails
  BY <1>2 DEF Polled, Wake, RequestFails, Send, Goto
<1>3. CASE Headers
  BY <1>3 DEF Headers, outside
<1>4. CASE DiscoveryServed \/ CodeIssued \/ PollServed
  BY <1>4 DEF DiscoveryServed, CodeIssued, PollServed, Serve
<1>5. CASE Decide \/ Tick \/ UNCHANGED vars
  BY <1>5 DEF Decide, Tick, Left, vars, client, request, outside
<1> QED
  BY <1>1, <1>2, <1>3, <1>4, <1>5 DEF Next

\* The time an approval can still cost only shrinks: as a poll is answered, a
\* sleep ends and time passes, what is left of them covers what is left.
LEMMA InTimeStep ==
  ASSUME DeviceInv, ApprovalInv, [Next]_vars
  PROVE  (user = "approved" => StillInTime)'
<1> USE TimesAssumption DEF DeviceInv, TypeOK, ValuesOK, RequestShape, Requesting, Answers,
                            ApprovalInv, CodeLife, StillInTime
<1> SUFFICES ASSUME user' = "approved" PROVE StillInTime'
  OBVIOUS
<1>0. Asked \in Nat
  BY AskedGrows
<1>1. CASE RequestDeviceAuthorization \/ Discovered \/ Authorized
  BY <1>0, <1>1, AskedGrows DEF RequestDeviceAuthorization, Discovered, Authorized, Answered,
                     Send, Goto, outside
<1>2. CASE PollDeviceToken
  BY <1>0, <1>2, AskedGrows DEF PollDeviceToken, Send
<1>3. CASE Polled
  BY <1>0, <1>3, AskedGrows DEF Polled, intervalAfter, takesToken, Goto, outside, Pace
<1>4. CASE Wake
  BY <1>0, <1>4, AskedGrows DEF Wake, beforeDeadline, Send, Goto, outside
<1>5. CASE Headers
  BY <1>0, <1>5, AskedGrows DEF Headers, outside
<1>6. CASE RequestFails
  BY <1>0, <1>6, AskedGrows DEF RequestFails, Goto, outside
<1>7. CASE DiscoveryServed \/ CodeIssued
  BY <1>0, <1>7, AskedGrows DEF DiscoveryServed, CodeIssued, Waiting, Serve
<1>8. CASE PollServed
  BY <1>0, <1>8, AskedGrows DEF PollServed, Waiting, Serve
<1>9. CASE Decide
  BY <1>0, <1>9, AskedGrows DEF Decide, client, request, Pace
<1>10. CASE Tick
  BY <1>0, <1>10, AskedGrows DEF Tick, TimerDue, Left, Settled
<1>11. CASE UNCHANGED vars
  BY <1>0, <1>11, AskedGrows DEF vars, client, request, outside
<1> QED
  BY <1>1, <1>2, <1>3, <1>4, <1>5, <1>6, <1>7, <1>8, <1>9, <1>10, <1>11 DEF Next

\* The inductive invariant of the approval, on top of DeviceInv.
THEOREM ApprovalInvariant == Spec => []ApprovalInv
<1>1. Init => ApprovalInv
  BY TimesAssumption DEF Init, ApprovalInv, CodeLife
<1>2. DeviceInv /\ ApprovalInv /\ [Next]_vars => ApprovalInv'
  BY CodeLifeStep, RefusalStep, InTimeStep DEF ApprovalInv
<1> QED
  BY <1>1, <1>2, DeviceInvariant, PTL DEF Spec

\* A user who approves while there is time for a poll under way, a sleep and one
\* more poll gets the token (pollDeviceToken).
THEOREM ApprovedInTimeHolds == Spec => []ApprovedInTime
<1>1. DeviceInv /\ ApprovalInv => ApprovedInTime
  <2> SUFFICES ASSUME DeviceInv, StillInTime, step = "rejected", ~failed
               PROVE  approvedLeft <= 2 * timeoutMs + Interval + SlowDown * slowDowns
    BY Zenon DEF ApprovalInv, ApprovedInTime
  <2>1. step \notin {"authorize", "shown", "token", "poll", "sleep"}
    OBVIOUS
  <2>2. approvedLeft <= 2 * timeoutMs + Asked
    BY <2>1, Zenon DEF StillInTime
  <2> QED
    BY <2>2, TimesAssumption DEF Asked, DeviceInv, TypeOK, ValuesOK
<1> QED
  BY <1>1, DeviceInvariant, ApprovalInvariant, PTL
=============================================================================
