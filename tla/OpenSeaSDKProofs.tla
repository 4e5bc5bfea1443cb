--------------------------- MODULE OpenSeaSDKProofs ---------------------------
(***************************************************************************)
(* Theorems about OpenSeaSDK: what its events, its bulk reports, the       *)
(* orders it has signed and the checks before its transactions promise,    *)
(* for any calls, orders, prices, fees, collections, wallets and bounds.   *)
(***************************************************************************)
EXTENDS OpenSeaSDK, SequenceTheorems, FiniteSetTheorems, TLAPS

-----------------------------------------------------------------------------
(* Lists                                                                   *)

Sums == INSTANCE Folding WITH Op <- LAMBDA p, sum, number : sum + number, Base <- 0

Filters == INSTANCE Folding
  WITH Op <- LAMBDA set, kept, item : IF item \in set THEN Append(kept, item) ELSE kept,
       Base <- <<>>

Powers == INSTANCE Folding WITH Op <- LAMBDA p, power, i : 10 * power, Base <- 1

\* The total of an empty list, and of a list with one amount more.
LEMMA TotalOfEmpty == Total(<<>>) = 0
<1>1. Sums!Fold({}, <<>>) = 0
  BY Sums!FoldEmpty
<1> QED
  BY <1>1 DEF Sums!Fold, Sums!FoldLeft, Sums!MapThenFoldSet, Sums!Max,
              Total, FoldLeft, MapThenFoldSet, Max

LEMMA TotalOfAppend ==
  ASSUME NEW S, NEW s \in Seq(S), NEW e \in S
  PROVE  Total(Append(s, e)) = Total(s) + e
<1>1. Sums!Fold({}, Append(s, e)) = Sums!Fold({}, s) + e
  BY Sums!FoldAppend
<1> QED
  BY <1>1 DEF Sums!Fold, Sums!FoldLeft, Sums!MapThenFoldSet, Sums!Max,
              Total, FoldLeft, MapThenFoldSet, Max

\* What is left of an empty list, and of a list with one element more.
LEMMA FilterOfEmpty ==
  ASSUME NEW K
  PROVE  Filter(<<>>, K) = <<>>
<1>1. Filters!Fold(K, <<>>) = <<>>
  BY Filters!FoldEmpty
<1> QED
  BY <1>1 DEF Filters!Fold, Filters!FoldLeft, Filters!MapThenFoldSet, Filters!Max,
              Filter, FoldLeft, MapThenFoldSet, Max

LEMMA FilterOfAppend ==
  ASSUME NEW K, NEW S, NEW s \in Seq(S), NEW e \in S
  PROVE  Filter(Append(s, e), K) = IF e \in K THEN Append(Filter(s, K), e) ELSE Filter(s, K)
<1>1. Filters!Fold(K, Append(s, e)) =
        IF e \in K THEN Append(Filters!Fold(K, s), e) ELSE Filters!Fold(K, s)
  BY Filters!FoldAppend
<1> QED
  BY <1>1 DEF Filters!Fold, Filters!FoldLeft, Filters!MapThenFoldSet, Filters!Max,
              Filter, FoldLeft, MapThenFoldSet, Max

\* The elements of a list with one more, of two lists in a row, and of a list of one.
LEMMA RangeOfAppend ==
  ASSUME NEW S, NEW s \in Seq(S), NEW e \in S
  PROVE  Append(s, e) \in Seq(S) /\ Range(Append(s, e)) = Range(s) \cup {e}
<1>1. /\ Append(s, e) \in Seq(S) /\ Len(Append(s, e)) = Len(s) + 1
      /\ \A i \in 1..Len(s) : Append(s, e)[i] = s[i]
      /\ Append(s, e)[Len(s) + 1] = e
  OBVIOUS
<1>2. DOMAIN s = 1..Len(s) /\ DOMAIN Append(s, e) = 1..(Len(s) + 1) /\ Len(s) \in Nat
  OBVIOUS
<1>3. 1..(Len(s) + 1) = (1..Len(s)) \cup {Len(s) + 1}
  BY <1>2
<1> QED
  BY <1>1, <1>2, <1>3 DEF Range

LEMMA RangeOfConcat ==
  ASSUME NEW S, NEW s \in Seq(S), NEW t \in Seq(S)
  PROVE  s \o t \in Seq(S) /\ Range(s \o t) = Range(s) \cup Range(t)
<1>1. /\ s \o t \in Seq(S) /\ Len(s \o t) = Len(s) + Len(t)
      /\ \A i \in 1..Len(s) : (s \o t)[i] = s[i]
      /\ \A i \in 1..Len(t) : (s \o t)[Len(s) + i] = t[i]
      /\ \A i \in 1..(Len(s) + Len(t)) : (s \o t)[i] = IF i <= Len(s) THEN s[i] ELSE t[i - Len(s)]
  OBVIOUS
<1>2. /\ DOMAIN s = 1..Len(s) /\ DOMAIN t = 1..Len(t) /\ Len(s) \in Nat /\ Len(t) \in Nat
      /\ DOMAIN (s \o t) = 1..(Len(s) + Len(t))
  OBVIOUS
<1>3. ASSUME NEW e \in Range(s \o t) PROVE e \in Range(s) \cup Range(t)
  <2>1. PICK i \in 1..(Len(s) + Len(t)) : e = (s \o t)[i]
    BY <1>2 DEF Range
  <2>2. CASE i <= Len(s)
    BY <1>1, <1>2, <2>1, <2>2 DEF Range
  <2>3. CASE i > Len(s)
    <3>1. i - Len(s) \in 1..Len(t)
      BY <1>2, <2>3
    <3> QED
      BY <1>1, <1>2, <2>1, <2>3, <3>1 DEF Range
  <2> QED
    BY <1>2, <2>2, <2>3
<1>4. ASSUME NEW e \in Range(s) PROVE e \in Range(s \o t)
  <2>1. PICK i \in 1..Len(s) : e = s[i]
    BY <1>2 DEF Range
  <2>2. i \in 1..(Len(s) + Len(t)) /\ e = (s \o t)[i]
    BY <1>1, <1>2, <2>1
  <2> QED
    BY <1>2, <2>2 DEF Range
<1>5. ASSUME NEW e \in Range(t) PROVE e \in Range(s \o t)
  <2>1. PICK i \in 1..Len(t) : e = t[i]
    BY <1>2 DEF Range
  <2>2. Len(s) + i \in 1..(Len(s) + Len(t)) /\ e = (s \o t)[Len(s) + i]
    BY <1>1, <1>2, <2>1
  <2> QED
    BY <1>2, <2>2 DEF Range
<1> QED
  BY <1>1, <1>3, <1>4, <1>5

LEMMA RangeOfOne ==
  ASSUME NEW S, NEW e \in S
  PROVE  <<e>> \in Seq(S) /\ Range(<<e>>) = {e}
<1>1. DOMAIN <<e>> = {1} /\ <<e>>[1] = e
  OBVIOUS
<1> QED
  BY <1>1 DEF Range

\* A list of integers comes to an integer.
LEMMA TotalIsInteger == \A s \in Seq(Int) : Total(s) \in Int
<1> DEFINE P == {s \in Seq(Int) : Total(s) \in Int}
<1>1. <<>> \in P
  <2>1. <<>> \in Seq(Int)
    OBVIOUS
  <2> QED
    BY <2>1, TotalOfEmpty
<1>2. ASSUME NEW s \in Seq(Int), NEW e \in Int, s \in P PROVE Append(s, e) \in P
  <2>1. Total(Append(s, e)) = Total(s) + e
    BY TotalOfAppend
  <2>2. Append(s, e) \in Seq(Int)
    OBVIOUS
  <2> QED
    BY <1>2, <2>1, <2>2
<1> HIDE DEF P
<1>3. \A s \in Seq(Int) : s \in P
  BY <1>1, <1>2, Sums!SequenceInduction
<1> QED
  BY <1>3 DEF P

\* Totals of lists in a row add up.
LEMMA TotalOfConcat ==
  ASSUME NEW s \in Seq(Int)
  PROVE  \A t \in Seq(Int) : Total(s \o t) = Total(s) + Total(t)
<1> DEFINE P == {t \in Seq(Int) : Total(s \o t) = Total(s) + Total(t)}
<1>0. Total(s) \in Int
  BY TotalIsInteger
<1>1. <<>> \in P
  <2>1. <<>> \in Seq(Int) /\ s \o <<>> = s
    OBVIOUS
  <2> QED
    BY <1>0, <2>1, TotalOfEmpty
<1>2. ASSUME NEW t \in Seq(Int), NEW e \in Int, t \in P PROVE Append(t, e) \in P
  <2>1. /\ Append(t, e) \in Seq(Int) /\ s \o t \in Seq(Int)
        /\ s \o Append(t, e) = Append(s \o t, e)
    OBVIOUS
  <2>2. Total(Append(t, e)) = Total(t) + e /\ Total(Append(s \o t, e)) = Total(s \o t) + e
    BY <2>1, TotalOfAppend
  <2>3. Total(t) \in Int /\ Total(s \o t) = Total(s) + Total(t)
    BY <1>2, TotalIsInteger
  <2>4. Total(s \o Append(t, e)) = Total(s) + (Total(t) + e)
    <3>1. Total(s \o Append(t, e)) = (Total(s) + Total(t)) + e
      BY <2>1, <2>2, <2>3
    <3> QED
      BY <1>0, <2>3, <3>1
  <2> QED
    BY <2>1, <2>2, <2>4
<1> HIDE DEF P
<1>3. \A t \in Seq(Int) : t \in P
  BY <1>1, <1>2, Sums!SequenceInduction
<1> QED
  BY <1>3 DEF P

\* What is left of a list is a list of the elements in the set, and no longer.
LEMMA FilterIsSequence ==
  ASSUME NEW S, NEW K
  PROVE  \A s \in Seq(S) : /\ Filter(s, K) \in Seq(S)
                           /\ Range(Filter(s, K)) = Range(s) \cap K
                           /\ Len(Filter(s, K)) <= Len(s)
<1> DEFINE P == {s \in Seq(S) : /\ Filter(s, K) \in Seq(S)
                                /\ Range(Filter(s, K)) = Range(s) \cap K
                                /\ Len(Filter(s, K)) <= Len(s)}
<1>1. <<>> \in P
  <2>1. <<>> \in Seq(S) /\ Range(<<>>) = {} /\ Len(<<>>) = 0 /\ 0 <= 0
    BY DEF Range
  <2>2. Filter(<<>>, K) = <<>>
    BY FilterOfEmpty
  <2> QED
    BY <2>1, <2>2, Zenon
<1>2. ASSUME NEW s \in Seq(S), NEW e \in S, s \in P PROVE Append(s, e) \in P
  <2>1. Filter(Append(s, e), K) = IF e \in K THEN Append(Filter(s, K), e) ELSE Filter(s, K)
    BY FilterOfAppend
  <2>2. /\ Filter(s, K) \in Seq(S) /\ Range(Filter(s, K)) = Range(s) \cap K
        /\ Len(Filter(s, K)) <= Len(s)
    BY <1>2
  <2>3. /\ Append(s, e) \in Seq(S) /\ Range(Append(s, e)) = Range(s) \cup {e}
        /\ Append(Filter(s, K), e) \in Seq(S)
        /\ Range(Append(Filter(s, K), e)) = Range(Filter(s, K)) \cup {e}
    BY <2>2, RangeOfAppend
  <2>4. /\ Len(Append(s, e)) = Len(s) + 1 /\ Len(s) \in Nat
        /\ Len(Append(Filter(s, K), e)) = Len(Filter(s, K)) + 1 /\ Len(Filter(s, K)) \in Nat
    BY <2>2
  <2>5. CASE e \in K
    <3>1. Filter(Append(s, e), K) = Append(Filter(s, K), e)
      BY <2>1, <2>5
    <3>2. Range(Append(Filter(s, K), e)) = Range(Append(s, e)) \cap K
      BY <2>2, <2>3, <2>5
    <3>3. Len(Append(Filter(s, K), e)) <= Len(Append(s, e))
      BY <2>2, <2>4
    <3> QED
      BY <2>3, <3>1, <3>2, <3>3, Zenon
  <2>6. CASE e \notin K
    BY <2>1, <2>2, <2>3, <2>4, <2>6
  <2> QED
    BY <2>5, <2>6
<1> HIDE DEF P
<1>3. \A s \in Seq(S) : s \in P
  BY <1>1, <1>2, Sums!SequenceInduction
<1> QED
  BY <1>3 DEF P

\* What a list has in the set and what it has not.
LEMMA FilterOfConcat ==
  ASSUME NEW S, NEW K, NEW s \in Seq(S)
  PROVE  \A t \in Seq(S) :
           /\ Range(t) \subseteq K => Filter(s \o t, K) = Filter(s, K) \o t
           /\ Range(t) \cap K = {} => Filter(s \o t, K) = Filter(s, K)
<1> DEFINE P == {t \in Seq(S) : /\ Range(t) \subseteq K => Filter(s \o t, K) = Filter(s, K) \o t
                                /\ Range(t) \cap K = {} => Filter(s \o t, K) = Filter(s, K)}
<1>0. Filter(s, K) \in Seq(S)
  BY FilterIsSequence
<1>1. <<>> \in P
  <2>1. <<>> \in Seq(S) /\ s \o <<>> = s /\ Filter(s, K) \o <<>> = Filter(s, K)
    BY <1>0
  <2> QED
    BY <2>1
<1>2. ASSUME NEW t \in Seq(S), NEW e \in S, t \in P PROVE Append(t, e) \in P
  <2>1. /\ Append(t, e) \in Seq(S) /\ s \o t \in Seq(S)
        /\ s \o Append(t, e) = Append(s \o t, e)
        /\ Filter(s, K) \o Append(t, e) = Append(Filter(s, K) \o t, e)
    BY <1>0
  <2>2. Range(Append(t, e)) = Range(t) \cup {e}
    BY RangeOfAppend
  <2>3. Filter(Append(s \o t, e), K) = IF e \in K THEN Append(Filter(s \o t, K), e)
                                                  ELSE Filter(s \o t, K)
    BY <2>1, FilterOfAppend
  <2> QED
    BY <1>2, <2>1, <2>2, <2>3
<1> HIDE DEF P
<1>3. \A t \in Seq(S) : t \in P
  BY <1>1, <1>2, Sums!SequenceInduction
<1> QED
  BY <1>3 DEF P

\* A list of elements that are all in the set is left as it is, and one of none
\* is left empty.
LEMMA FilterOfAll ==
  ASSUME NEW S, NEW K, NEW s \in Seq(S)
  PROVE  /\ Range(s) \subseteq K => Filter(s, K) = s
         /\ Range(s) \cap K = {} => Filter(s, K) = <<>>
<1>1. <<>> \in Seq(S) /\ <<>> \o s = s
  OBVIOUS
<1>2. Filter(<<>>, K) = <<>>
  BY FilterOfEmpty
<1>3. /\ Range(s) \subseteq K => Filter(<<>> \o s, K) = Filter(<<>>, K) \o s
      /\ Range(s) \cap K = {} => Filter(<<>> \o s, K) = Filter(<<>>, K)
  BY <1>1, FilterOfConcat, Zenon
<1> QED
  BY <1>1, <1>2, <1>3, Zenon

\* A power of ten is no zero.
LEMMA PowerOfTenPositive == \A k \in Nat : PowerOfTen(k) \in Nat \ {0}
<1> DEFINE P == {k \in Nat : PowerOfTen(k) \in Nat \ {0}}
           tens(k) == [i \in 1..k |-> i]
<1>0. ASSUME NEW k \in Nat
      PROVE  PowerOfTen(k) = Powers!Fold({}, tens(k))
  BY DEF PowerOfTen, Powers!Fold, Powers!FoldLeft, Powers!MapThenFoldSet, Powers!Max,
         FoldLeft, MapThenFoldSet, Max
<1>1. 0 \in P
  <2>1. tens(0) = <<>>
    OBVIOUS
  <2>2. PowerOfTen(0) = 1
    BY <1>0, <2>1, Powers!FoldEmpty
  <2> QED
    BY <2>2
<1>2. ASSUME NEW k \in Nat, k \in P PROVE k + 1 \in P
  <2>1. tens(k) \in Seq(Nat) /\ Append(tens(k), k + 1) = tens(k + 1) /\ k + 1 \in Nat
    OBVIOUS
  <2> HIDE DEF tens
  <2>2. Powers!Fold({}, tens(k + 1)) = 10 * Powers!Fold({}, tens(k))
    BY <2>1, Powers!FoldAppend
  <2>3. PowerOfTen(k + 1) = 10 * PowerOfTen(k)
    BY <1>0, <2>1, <2>2
  <2> QED
    BY <1>2, <2>1, <2>3
<1> HIDE DEF P, tens
<1>3. \A k \in Nat : k \in P
  BY <1>1, <1>2, Sums!Induction
<1> QED
  BY <1>3 DEF P


\* A function on the places of a list is as long as the list.
LEMMA LengthOfMap ==
  ASSUME NEW S, NEW s \in Seq(S), NEW f, f = [i \in DOMAIN s |-> f[i]]
  PROVE  Len(f) = Len(s) /\ Len(s) \in Nat
<1>1. DOMAIN s = 1..Len(s) /\ Len(s) \in Nat
  OBVIOUS
<1>2. f = [i \in 1..Len(s) |-> f[i]]
  BY <1>1
<1>3. f \in Seq({f[i] : i \in 1..Len(s)})
  BY <1>1, <1>2, IsASeq
<1>4. DOMAIN f = 1..Len(f) /\ Len(f) \in Nat
  BY <1>3
<1> QED
  BY <1>1, <1>2, <1>4

-----------------------------------------------------------------------------
(* Events                                                                  *)

Events == {"Announced", "TransactionCreated", "TransactionConfirmed", "TransactionFailed",
           "TransactionDenied"}

BeforeSending == {"idle", "start", "data", "check", "compare", "fetch", "approvals", "token",
                  "announce", "send"}

\* Where a call is tells whether its transaction was sent and what was heard.
EventsFollowTx ==
  /\ heard \in Seq(Events)
  /\ pc \in BeforeSending \cup {"receipt", "created", "wait", "settled"}
  /\ pc \in BeforeSending => tx = "none" /\ outcome = "none" /\ Range(heard) \subseteq {"Announced"}
  /\ pc \in {"receipt", "created"} =>
       tx # "none" /\ outcome = "none" /\ Range(heard) \subseteq {"Announced"}
  /\ pc = "receipt" => call.kind = "fulfillOrder" /\ call.private
  /\ pc = "wait" => /\ tx # "none" /\ outcome = "none" /\ Heard("TransactionCreated")
                    /\ Range(heard) \subseteq {"Announced", "TransactionCreated"}
  /\ EventsTellTruth
  /\ AnnouncedOrNeverSent

\* What every action before the one that sends does to the call.
Preparation ==
  /\ pc \in BeforeSending
  /\ heard' = heard /\ tx' = tx /\ call' = call /\ deaf' = deaf
  /\ pc' \in BeforeSending \cup {"settled"}
  /\ pc' # "settled" => outcome' = outcome

LEMMA PreparationSteps ==
  ASSUME \/ FulfillOrder \/ GenerateFulfillmentData \/ ReadSpendState
         \/ RequireErc20PaymentIsSpendable \/ IsOrderFulfillable \/ OffchainCancelOrder
         \/ ValidateOrder \/ CancelOrder \/ CancelOrders \/ GetOrderByHash
         \/ MoveTokens \/ BulkStart \/ CheckAssetApproval \/ GetApproved
  PROVE  Preparation
<1> USE DEF Preparation, BeforeSending, Account, Throw, Continue, Finish, ToSend, Quiet, Same, chainVars
<1>1. CASE FulfillOrder
  BY <1>1 DEF FulfillOrder
<1>2. CASE GenerateFulfillmentData
  BY <1>2 DEF GenerateFulfillmentData
<1>3. CASE ReadSpendState
  BY <1>3 DEF ReadSpendState
<1>4. CASE RequireErc20PaymentIsSpendable
  BY <1>4 DEF RequireErc20PaymentIsSpendable
<1>5. CASE IsOrderFulfillable
  BY <1>5 DEF IsOrderFulfillable
<1>6. CASE OffchainCancelOrder
  BY <1>6 DEF OffchainCancelOrder
<1>7. CASE ValidateOrder
  BY <1>7 DEF ValidateOrder
<1>8. CASE CancelOrder
  BY <1>8 DEF CancelOrder
<1>9. CASE CancelOrders
  BY <1>9 DEF CancelOrders
<1>10. CASE GetOrderByHash
  BY <1>10 DEF GetOrderByHash
<1>11. CASE MoveTokens
  BY <1>11 DEF MoveTokens
<1>12. CASE BulkStart
  BY <1>12 DEF BulkStart
<1>13. CASE CheckAssetApproval
  BY <1>13 DEF CheckAssetApproval, AssetChecked, Checked
<1>14. CASE GetApproved
  BY <1>14 DEF GetApproved, AssetChecked, Checked
<1> QED
  BY <1>1, <1>2, <1>3, <1>4, <1>5, <1>6, <1>7, <1>8, <1>9, <1>10, <1>11, <1>12, <1>13, <1>14

\* A call that fails says so, and says that it was denied only if it reports.
LEMMA FailEffect ==
  ASSUME heard \in Seq(Events), NEW hs \in {<<>>, <<"TransactionFailed">>,
           <<"TransactionCreated", "TransactionFailed">>,
           <<"TransactionConfirmed", "TransactionFailed">>}, Fail(hs)
  PROVE  /\ heard' \in Seq(Events) /\ pc' = "settled"
         /\ Range(heard') = Range(heard) \cup Range(hs)
                              \cup (IF Reports THEN {"TransactionDenied"} ELSE {})
         /\ outcome' # "rejected" => outcome' = "resolved" /\ Reports
<1>1. heard \o hs \in Seq(Events) /\ Range(heard \o hs) = Range(heard) \cup Range(hs)
  <2>1. /\ "TransactionCreated" \in Events /\ "TransactionConfirmed" \in Events
        /\ "TransactionFailed" \in Events
    BY DEF Events
  <2>2. /\ <<>> \in Seq(Events) /\ <<"TransactionFailed">> \in Seq(Events)
        /\ <<"TransactionCreated", "TransactionFailed">> \in Seq(Events)
        /\ <<"TransactionConfirmed", "TransactionFailed">> \in Seq(Events)
    BY <2>1
  <2>3. hs \in Seq(Events)
    BY <2>2, Zenon
  <2> QED
    BY <2>3, RangeOfConcat
<1>2. CASE Reports
  <2>1. /\ <<"TransactionDenied">> \in Seq(Events)
        /\ Range(<<"TransactionDenied">>) = {"TransactionDenied"}
    BY RangeOfOne DEF Events
  <2>2. heard' = (heard \o hs) \o <<"TransactionDenied">>
    BY <1>1, <1>2 DEF Fail, Events
  <2>3. /\ heard' \in Seq(Events)
        /\ Range(heard') = Range(heard \o hs) \cup {"TransactionDenied"}
    <3> DEFINE before == heard \o hs
               last == <<"TransactionDenied">>
    <3>1. before \in Seq(Events) /\ last \in Seq(Events)
      BY <1>1, <2>1
    <3>2. heard' = before \o last /\ Range(last) = {"TransactionDenied"}
      BY <2>1, <2>2
    <3> HIDE DEF before, last
    <3>3. before \o last \in Seq(Events) /\ Range(before \o last) = Range(before) \cup Range(last)
      BY <3>1, RangeOfConcat
    <3> QED
      BY <3>2, <3>3, Zenon DEF before
  <2> QED
    BY <1>1, <1>2, <2>3 DEF Fail, Finish, Reports
<1>3. CASE ~Reports
  <2>1. heard' = heard \o hs
    BY <1>1, <1>3 DEF Fail, Events
  <2> QED
    BY <1>1, <1>3, <2>1 DEF Fail, Finish, Reports, Swallows
<1> QED
  BY <1>2, <1>3

LEMMA RangesOfFailures ==
  /\ Range(<<>>) = {}
  /\ <<"TransactionCreated">> \o <<"TransactionFailed">> = <<"TransactionCreated", "TransactionFailed">>
  /\ <<"TransactionConfirmed">> \o <<"TransactionFailed">> = <<"TransactionConfirmed", "TransactionFailed">>
  /\ <<>> \o <<"TransactionFailed">> = <<"TransactionFailed">>
  /\ Range(<<"TransactionFailed">>) = {"TransactionFailed"}
  /\ Range(<<"TransactionCreated", "TransactionFailed">>) = {"TransactionCreated", "TransactionFailed"}
  /\ Range(<<"TransactionConfirmed", "TransactionFailed">>) = {"TransactionConfirmed", "TransactionFailed"}
<1>1. ASSUME NEW a, NEW b PROVE Range(<<a, b>>) = {a, b}
  <2>1. DOMAIN <<a, b>> = {1, 2} /\ <<a, b>>[1] = a /\ <<a, b>>[2] = b
    OBVIOUS
  <2> QED
    BY <2>1 DEF Range
<1>2. ASSUME NEW a PROVE Range(<<a>>) = {a}
  BY RangeOfOne
<1>3. Range(<<>>) = {}
  BY DEF Range
<1>4. ASSUME NEW a, NEW b PROVE <<a>> \o <<b>> = <<a, b>>
  <2>1. /\ <<a>> \in Seq({a, b}) /\ <<b>> \in Seq({a, b}) /\ <<a, b>> \in Seq({a, b})
        /\ <<a>> \o <<b>> \in Seq({a, b})
    OBVIOUS
  <2>2. /\ Len(<<a>> \o <<b>>) = 2 /\ (<<a>> \o <<b>>)[1] = a /\ (<<a>> \o <<b>>)[2] = b
        /\ Len(<<a, b>>) = 2 /\ <<a, b>>[1] = a /\ <<a, b>>[2] = b
    BY <2>1
  <2> DEFINE s == <<a>> \o <<b>>
             t == <<a, b>>
  <2>3. s \in Seq({a, b}) /\ t \in Seq({a, b}) /\ Len(s) = Len(t)
    BY <2>1, <2>2
  <2>4. \A i \in 1..Len(s) : s[i] = t[i]
    BY <2>2
  <2> HIDE DEF s, t
  <2>5. s = t
    BY <2>3, <2>4, SeqEqual
  <2> QED
    BY <2>5 DEF s, t
<1>5. <<>> \o <<"TransactionFailed">> = <<"TransactionFailed">>
  OBVIOUS
<1> QED
  BY <1>1, <1>2, <1>3, <1>4, <1>5, Zenon

LEMMA SendStep ==
  ASSUME EventsFollowTx, Send
  PROVE  EventsFollowTx'
<1> USE DEF Heard, Mined
<1>1. /\ pc = "send" /\ tx = "none" /\ outcome = "none" /\ call' = call /\ deaf' = deaf
      /\ Range(heard) \subseteq {"Announced"} /\ heard \in Seq(Events)
  BY DEF Send, Same, EventsFollowTx, BeforeSending
<1>2. CASE tx' = "pending" /\ heard' = heard /\ Continue(nextAfterSending)
  <2>1. /\ outcome' = "none" /\ pc' \in {"receipt", "created"}
        /\ pc' = "receipt" => call.kind = "fulfillOrder" /\ call.private
    BY <1>1, <1>2 DEF Continue, nextAfterSending
  <2> QED
    BY <1>1, <1>2, <2>1 DEF EventsFollowTx, EventsTellTruth, AnnouncedOrNeverSent, BeforeSending
<1>3. CASE Fail(<<>>) /\ tx' = tx
  <2>1. /\ heard' \in Seq(Events) /\ pc' = "settled"
        /\ Range(heard') \subseteq {"Announced", "TransactionDenied"}
    BY <1>1, <1>3, FailEffect, RangesOfFailures
  <2> QED
    BY <1>1, <1>3, <2>1 DEF EventsFollowTx, EventsTellTruth, AnnouncedOrNeverSent, BeforeSending
<1> QED
  BY <1>2, <1>3 DEF Send

LEMMA AwaitReceiptStep ==
  ASSUME EventsFollowTx, AwaitReceipt
  PROVE  EventsFollowTx'
<1> USE DEF Heard, Mined
<1>1. /\ pc = "receipt" /\ tx # "none" /\ tx' = tx /\ outcome = "none"
      /\ call' = call /\ deaf' = deaf /\ call.kind = "fulfillOrder" /\ call.private
      /\ Range(heard) \subseteq {"Announced"} /\ heard \in Seq(Events)
  BY DEF AwaitReceipt, Quiet, Same, EventsFollowTx
<1>2. CASE tx = "success" /\ heard' = heard /\ Continue("created")
  BY <1>1, <1>2 DEF Continue, EventsFollowTx, EventsTellTruth, AnnouncedOrNeverSent, BeforeSending
<1>3. CASE Fail(<<>>)
  <2>1. ~Reports
    BY <1>1 DEF Reports, Swallows
  <2>2. /\ heard' \in Seq(Events) /\ pc' = "settled" /\ outcome' = "rejected"
        /\ Range(heard') \subseteq {"Announced"}
    BY <1>1, <1>3, <2>1, FailEffect, RangesOfFailures
  <2> QED
    BY <1>1, <2>2 DEF EventsFollowTx, EventsTellTruth, AnnouncedOrNeverSent, BeforeSending
<1> QED
  BY <1>2, <1>3 DEF AwaitReceipt

LEMMA TransactionCreatedStep ==
  ASSUME EventsFollowTx, TransactionCreated
  PROVE  EventsFollowTx'
<1> USE DEF Heard, Mined
<1>1. /\ pc = "created" /\ tx # "none" /\ tx' = tx /\ outcome = "none"
      /\ call' = call /\ deaf' = deaf
      /\ Range(heard) \subseteq {"Announced"} /\ heard \in Seq(Events)
  BY DEF TransactionCreated, Quiet, Same, EventsFollowTx
<1>2. CASE deaf = "TransactionCreated"
  <2>1. Fail(<<"TransactionCreated", "TransactionFailed">>)
    BY <1>2, RangesOfFailures DEF TransactionCreated, confirmFails
  <2>2. /\ heard' \in Seq(Events) /\ pc' = "settled"
        /\ Range(heard') = Range(heard) \cup {"TransactionCreated", "TransactionFailed"}
                              \cup (IF Reports THEN {"TransactionDenied"} ELSE {})
        /\ outcome' # "rejected" => outcome' = "resolved" /\ Reports
    BY <1>1, <2>1, FailEffect, RangesOfFailures
  <2>3. /\ {"TransactionCreated", "TransactionFailed"} \subseteq Range(heard')
        /\ "TransactionConfirmed" \notin Range(heard')
        /\ Reports => "TransactionDenied" \in Range(heard')
    BY <1>1, <2>2
  <2> QED
    BY <1>1, <2>2, <2>3 DEF EventsFollowTx, EventsTellTruth, AnnouncedOrNeverSent, BeforeSending
<1>3. CASE deaf # "TransactionCreated"
  <2>1. heard' = Append(heard, "TransactionCreated") /\ pc' = "wait" /\ outcome' = "none"
    BY <1>1, <1>3 DEF TransactionCreated, Continue
  <2>2. /\ heard' \in Seq(Events)
        /\ Range(heard') = Range(heard) \cup {"TransactionCreated"}
    BY <1>1, <2>1, RangeOfAppend DEF Events
  <2> QED
    BY <1>1, <2>1, <2>2 DEF EventsFollowTx, EventsTellTruth, AnnouncedOrNeverSent, BeforeSending
<1> QED
  BY <1>2, <1>3

LEMMA TransactionConfirmedStep ==
  ASSUME EventsFollowTx, TransactionConfirmed
  PROVE  EventsFollowTx'
<1> USE DEF Heard, Mined
<1>1. /\ pc = "wait" /\ tx \notin {"none", "pending"} /\ tx' = tx /\ outcome = "none"
      /\ call' = call /\ deaf' = deaf /\ "TransactionCreated" \in Range(heard)
      /\ Range(heard) \subseteq {"Announced", "TransactionCreated"} /\ heard \in Seq(Events)
  BY DEF TransactionConfirmed, minedByNow, Quiet, Same, EventsFollowTx
<1>2. CASE deaf = "TransactionConfirmed"
  <2>1. Fail(<<"TransactionConfirmed", "TransactionFailed">>)
    BY <1>2, RangesOfFailures DEF TransactionConfirmed, confirmFails
  <2>2. /\ heard' \in Seq(Events) /\ pc' = "settled"
        /\ Range(heard') = Range(heard) \cup {"TransactionConfirmed", "TransactionFailed"}
                              \cup (IF Reports THEN {"TransactionDenied"} ELSE {})
    BY <1>1, <2>1, FailEffect, RangesOfFailures
  <2>3. {"TransactionCreated", "TransactionConfirmed", "TransactionFailed"} \subseteq Range(heard')
    BY <1>1, <2>2
  <2> QED
    BY <1>1, <1>2, <2>2, <2>3 DEF EventsFollowTx, EventsTellTruth, AnnouncedOrNeverSent, BeforeSending
<1>3. CASE deaf # "TransactionConfirmed"
  <2>1. heard' = Append(heard, "TransactionConfirmed") /\ pc' = "settled" /\ outcome' = "resolved"
    BY <1>1, <1>3 DEF TransactionConfirmed, Finish
  <2>2. /\ heard' \in Seq(Events)
        /\ Range(heard') = Range(heard) \cup {"TransactionConfirmed"}
    BY <1>1, <2>1, RangeOfAppend DEF Events
  <2> QED
    BY <1>1, <2>1, <2>2 DEF EventsFollowTx, EventsTellTruth, AnnouncedOrNeverSent, BeforeSending
<1> QED
  BY <1>2, <1>3

LEMMA WaitRejectsStep ==
  ASSUME EventsFollowTx, WaitRejects
  PROVE  EventsFollowTx'
<1> USE DEF Heard, Mined
<1>1. /\ pc = "wait" /\ tx # "none" /\ tx' = tx /\ outcome = "none"
      /\ call' = call /\ deaf' = deaf /\ "TransactionCreated" \in Range(heard)
      /\ Range(heard) \subseteq {"Announced", "TransactionCreated"} /\ heard \in Seq(Events)
  BY DEF WaitRejects, Quiet, Same, EventsFollowTx
<1>2. Fail(<<"TransactionFailed">>)
  BY RangesOfFailures DEF WaitRejects, confirmFails
<1>3. /\ heard' \in Seq(Events) /\ pc' = "settled"
      /\ Range(heard') = Range(heard) \cup {"TransactionFailed"}
                            \cup (IF Reports THEN {"TransactionDenied"} ELSE {})
      /\ outcome' # "rejected" => outcome' = "resolved" /\ Reports
  BY <1>1, <1>2, FailEffect, RangesOfFailures
<1>4. /\ {"TransactionCreated", "TransactionFailed"} \subseteq Range(heard')
      /\ "TransactionConfirmed" \notin Range(heard')
      /\ Reports => "TransactionDenied" \in Range(heard')
  BY <1>1, <1>3
<1> QED
  BY <1>1, <1>3, <1>4 DEF EventsFollowTx, EventsTellTruth, AnnouncedOrNeverSent, BeforeSending

LEMMA PreparationStep ==
  ASSUME EventsFollowTx, Preparation
  PROVE  EventsFollowTx'
<1>1. /\ tx' = "none" /\ heard' = heard /\ Range(heard) \subseteq {"Announced"}
      /\ heard \in Seq(Events) /\ pc' \in BeforeSending \cup {"settled"}
      /\ pc' # "settled" => outcome' = "none"
  BY DEF Preparation, EventsFollowTx
<1> QED
  BY <1>1 DEF EventsFollowTx, EventsTellTruth, AnnouncedOrNeverSent, BeforeSending, Heard, Mined

LEMMA AnnounceStep ==
  ASSUME EventsFollowTx, Announce
  PROVE  EventsFollowTx'
<1>1. /\ pc = "announce" /\ tx = "none" /\ tx' = tx /\ outcome = "none"
      /\ Range(heard) \subseteq {"Announced"} /\ heard \in Seq(Events)
      /\ heard' = Append(heard, "Announced")
      /\ pc' = "settled" \/ pc' = "send"
      /\ pc' = "send" => outcome' = outcome
  BY DEF Announce, Quiet, Same, EventsFollowTx, BeforeSending, Finish, Continue
<1>2. /\ heard' \in Seq(Events) /\ Range(heard') \subseteq {"Announced"}
  BY <1>1, RangeOfAppend DEF Events
<1> QED
  BY <1>1, <1>2 DEF EventsFollowTx, EventsTellTruth, AnnouncedOrNeverSent, BeforeSending, Heard, Mined

LEMMA MineStep ==
  ASSUME EventsFollowTx, Mine
  PROVE  EventsFollowTx'
<1>1. /\ tx = "pending" /\ tx' \notin {"none", "pending"}
      /\ heard' = heard /\ pc' = pc /\ outcome' = outcome /\ call' = call /\ deaf' = deaf
  BY DEF Mine, Fill, Cancel, TransferAll, Approve, OtherEffect, Revert, Same
<1> QED
  BY <1>1 DEF EventsFollowTx, EventsTellTruth, AnnouncedOrNeverSent, BeforeSending, Heard, Mined

\* The events of a call tell what became of its transaction, and no transaction
\* that was sent goes unannounced but for that of fulfillPrivateOrder, whatever
\* the call, its listeners and the chain do (base.ts:642-663).
THEOREM EventsInvariant == Spec => []EventsFollowTx
<1>1. Init => EventsFollowTx
  <2> SUFFICES ASSUME Init PROVE EventsFollowTx
    OBVIOUS
  <2>1. pc \in {"idle", "start"} /\ heard = <<>> /\ tx = "none" /\ outcome = "none"
    BY DEF Init, TransactionsIdle, CallStart
  <2>2. heard \in Seq(Events) /\ Range(heard) = {}
    BY <2>1, RangesOfFailures
  <2> QED
    BY <2>1, <2>2 DEF EventsFollowTx, EventsTellTruth, AnnouncedOrNeverSent, BeforeSending, Heard
<1>2. EventsFollowTx /\ [Next]_vars => EventsFollowTx'
  <2> SUFFICES ASSUME EventsFollowTx, [Next]_vars PROVE EventsFollowTx'
    OBVIOUS
  <2>1. CASE \/ OrdersNext /\ UNCHANGED txVars
             \/ WalletMoves \/ OrderTaken \/ UNCHANGED vars
    <3>1. UNCHANGED <<call, pc, heard, outcome, tx, deaf>>
      BY <2>1 DEF WalletMoves, OrderTaken, vars, txVars, callVars
    <3> QED
      BY <3>1 DEF EventsFollowTx, EventsTellTruth, AnnouncedOrNeverSent, Heard, Mined
  <2>2. CASE ValidateOnchain
    <3>1. pc = "idle" /\ pc' = "start" /\ UNCHANGED <<heard, outcome, tx, deaf>>
      BY <2>2 DEF ValidateOnchain
    <3> QED
      BY <3>1 DEF EventsFollowTx, EventsTellTruth, AnnouncedOrNeverSent, Heard, Mined, BeforeSending
  <2>3. CASE Preparation
    BY <2>3, PreparationStep
  <2>4. CASE Announce \/ Send \/ AwaitReceipt
    BY <2>4, AnnounceStep, SendStep, AwaitReceiptStep
  <2>5. CASE TransactionCreated \/ TransactionConfirmed \/ WaitRejects \/ Mine
    BY <2>5, TransactionCreatedStep, TransactionConfirmedStep, WaitRejectsStep, MineStep
  <2> QED
    BY <2>1, <2>2, <2>3, <2>4, <2>5, PreparationSteps, Zenon DEF Next, TransactionsNext
<1> QED
  BY <1>1, <1>2, PTL DEF Spec

\* Confirmed, failed and denied are told apart as a call's transaction went.
THEOREM EventsTellTruthHolds == Spec => []EventsTellTruth
<1>1. EventsFollowTx => EventsTellTruth
  BY DEF EventsFollowTx
<1> QED
  BY <1>1, EventsInvariant, PTL

\* The application hears of every transaction that is sent.
THEOREM AnnouncedOrNeverSentHolds == Spec => []AnnouncedOrNeverSent
<1>1. EventsFollowTx => AnnouncedOrNeverSent
  BY DEF EventsFollowTx
<1> QED
  BY <1>1, EventsInvariant, PTL

-----------------------------------------------------------------------------
(* Bulk reports                                                            *)

Preparing == {"start", "nft", "collection", "build", "price", "sign"}

\* After some of a batch has been posted, the lists say what became of it.
PostedSoFar ==
  /\ at \in 1..Len(creation.orders)
  /\ posts \in Seq(PostOutcomes) /\ Len(posts) = at - 1
  /\ successful \in Seq(Nat) /\ failed \in Seq(Nat)
  /\ \A i \in Nat : i \in Range(successful) <=> i \in DOMAIN posts /\ posts[i] = "taken"
  /\ \A i \in Nat : i \in Range(failed) <=> i \in DOMAIN posts /\ posts[i] # "taken"
  /\ ~creation.continueOnError => \A i \in DOMAIN posts : posts[i] = "taken"

ReportFollowsPosts ==
  /\ creation.orders \in Seq(Range(creation.orders))
  /\ stage \in Preparing \cup {"idle", "post", "settled"}
  /\ Len(signed) \in Nat
  /\ stage # "settled" => result = "none"
  /\ stage \in Preparing \cup {"idle"} => posts = <<>> /\ successful = <<>> /\ failed = <<>>
  /\ stage \notin {"start", "idle", "settled"} => Len(creation.orders) > 0
  /\ stage = "sign" => at = 1
  /\ stage = "post" => Len(signed) = Len(creation.orders)
  /\ stage = "post" /\ Batch(creation) => PostedSoFar
  /\ stage = "post" /\ ~Batch(creation) => posts = <<>> /\ successful = <<>> /\ failed = <<>>
  /\ BulkReportIsTrue

\* What every action before the first order is posted does.
PreparationOfOrders ==
  /\ stage \in Preparing
  /\ UNCHANGED <<creation, posts, successful>>
  /\ stage' \in Preparing \cup {"post", "settled"} /\ stage' # "start"
  /\ stage' = "settled" => Reject \/ (creation.method \in BuildMethods /\ failed' = failed)
  /\ stage' # "settled" => failed' = failed /\ result' = result
  /\ stage = "start" /\ stage' # "settled" => Len(creation.orders) > 0
  /\ stage' = "sign" => at' = 1
  /\ stage' = "post" => stage = "sign" /\ at' = at
  /\ signed' # signed => signed' = [i \in DOMAIN creation.orders |-> OrderAt(i)]
  /\ stage' = "post" => signed' = [i \in DOMAIN creation.orders |-> OrderAt(i)]

LEMMA PreparationOfOrdersSteps ==
  ASSUME RequireAccount \/ GetNFT \/ GetCollection \/ BuildOffer \/ PriceOrder \/ PriceTogether \/ Sign
  PROVE  PreparationOfOrders
<1> USE DEF PreparationOfOrders, Preparing, Goto, Settle
<1>0. Reject => stage' = "settled"
  BY DEF Reject
<1>1. CASE RequireAccount
  BY <1>0, <1>1 DEF RequireAccount
<1>2. CASE GetNFT
  BY <1>0, <1>2 DEF GetNFT
<1>3. CASE GetCollection
  BY <1>0, <1>3 DEF GetCollection
<1>4. CASE BuildOffer
  BY <1>0, <1>4 DEF BuildOffer
<1>5. CASE PriceOrder
  BY <1>0, <1>5 DEF PriceOrder
<1>6. CASE PriceTogether
  BY <1>0, <1>6 DEF PriceTogether
<1>7. CASE Sign
  BY <1>0, <1>7 DEF Sign
<1> QED
  BY <1>1, <1>2, <1>3, <1>4, <1>5, <1>6, <1>7

LEMMA NothingPosted == Len(<<>>) = 0 /\ Range(<<>>) = {} /\ DOMAIN <<>> = {}
  BY DEF Range

\* Until the first order is posted there is nothing to report but a batch of one
\* that failed.
LEMMA PreparationKeepsReport ==
  ASSUME ReportFollowsPosts, PreparationOfOrders
  PROVE  ReportFollowsPosts'
<1>1. /\ stage \in Preparing /\ UNCHANGED <<creation, posts, successful>>
      /\ stage' \in Preparing \cup {"post", "settled"}
      /\ posts = <<>> /\ successful = <<>> /\ failed = <<>> /\ result = "none"
  BY DEF ReportFollowsPosts, PreparationOfOrders, Preparing
<1>2. creation.orders \in Seq(Range(creation.orders)) /\ Len(creation.orders) \in Nat
  BY DEF ReportFollowsPosts
<1>3. signed' # signed \/ stage' = "post" => Len(signed') = Len(creation.orders)
  <2> DEFINE made == [i \in DOMAIN creation.orders |-> OrderAt(i)]
  <2>1. made = [i \in DOMAIN creation.orders |-> made[i]]
    OBVIOUS
  <2> HIDE DEF made
  <2>2. Len(made) = Len(creation.orders)
    BY <1>2, <2>1, LengthOfMap
  <2>3. signed' # signed \/ stage' = "post" => signed' = made
    BY DEF PreparationOfOrders, made
  <2> QED
    BY <2>2, <2>3
<1>4. Len(signed') \in Nat
  BY <1>2, <1>3 DEF ReportFollowsPosts
<1>5. CASE stage' # "settled"
  <2>1. failed' = <<>> /\ result' = "none"
    BY <1>1, <1>5 DEF PreparationOfOrders
  <2>2. BulkReportIsTrue'
    BY <1>1, <1>4, <2>1, NothingPosted DEF BulkReportIsTrue
  <2>3. stage' \notin {"start", "idle", "settled"} => Len(creation.orders) > 0
    BY <1>5 DEF PreparationOfOrders, ReportFollowsPosts, Preparing
  <2>4. stage' = "post" => at' = 1 /\ Len(creation.orders) > 0
    BY <2>3 DEF PreparationOfOrders, ReportFollowsPosts
  <2>5. stage' = "post" /\ Batch(creation)' => PostedSoFar'
    <3> SUFFICES ASSUME stage' = "post" PROVE PostedSoFar'
      OBVIOUS
    <3>1. at' \in 1..Len(creation.orders) /\ at' = 1
      BY <1>2, <2>4
    <3>2. posts' = <<>> /\ successful' = <<>> /\ failed' = <<>>
      BY <1>1, <2>1
    <3>3. <<>> \in Seq(PostOutcomes) /\ <<>> \in Seq(Nat)
      OBVIOUS
    <3> QED
      BY <1>1, <3>1, <3>2, <3>3, NothingPosted DEF PostedSoFar
  <2>6. stage' = "sign" => at' = 1
    BY DEF PreparationOfOrders
  <2> QED
    BY <1>1, <1>2, <1>3, <1>4, <1>5, <2>1, <2>2, <2>3, <2>5, <2>6 DEF ReportFollowsPosts, Preparing
<1>6. CASE stage' = "settled"
  <2>1. Reject \/ (creation.method \in BuildMethods /\ failed' = failed)
    BY <1>6 DEF PreparationOfOrders
  <2>2. BulkReportIsTrue'
    <3>1. CASE creation.method \notin BulkMethods
      BY <1>1, <3>1 DEF BulkReportIsTrue
    <3>2. CASE creation.method \in BulkMethods
      <4>1. Reject
        BY <2>1, <3>2 DEF BuildMethods, BulkMethods
      <4>2. posts' = <<>> /\ successful' = <<>> /\ UNCHANGED creation
        BY <1>1
      <4>3. CASE Len(creation.orders) = 1 /\ creation.continueOnError
        <5>1. failed' = <<1>> /\ result' = "returned"
          BY <3>2, <4>1, <4>3 DEF Reject, Settle
        <5>2. DOMAIN creation.orders = {1} /\ Range(failed') = {1}
          BY <1>2, <4>3, <5>1, RangeOfOne
        <5> QED
          BY <1>4, <4>2, <4>3, <5>1, <5>2, NothingPosted DEF BulkReportIsTrue
      <4>4. CASE ~(Len(creation.orders) = 1 /\ creation.continueOnError)
        <5>1. result' = "threw"
          BY <4>1, <4>4 DEF Reject, Settle
        <5> QED
          BY <1>4, <4>2, <5>1, NothingPosted DEF BulkReportIsTrue
      <4> QED
        BY <4>3, <4>4
    <3> QED
      BY <3>1, <3>2
  <2> QED
    BY <1>1, <1>2, <1>4, <1>6, <2>2 DEF ReportFollowsPosts, Preparing
<1> QED
  BY <1>5, <1>6

\* A batch that holds one order, and a single order, are posted at once.
LEMMA PostOneKeepsReport ==
  ASSUME ReportFollowsPosts, PostOne
  PROVE  ReportFollowsPosts'
<1>1. /\ stage = "post" /\ ~Batch(creation) /\ UNCHANGED <<creation, at, signed>>
      /\ stage' = "settled" /\ Len(creation.orders) > 0
      /\ successful = <<>> /\ failed = <<>> /\ Len(signed) = Len(creation.orders)
  BY DEF PostOne, ReportFollowsPosts, Reject, Settle, Preparing
<1>2. creation.orders \in Seq(Range(creation.orders)) /\ Len(creation.orders) \in Nat
      /\ DOMAIN creation.orders = 1..Len(creation.orders)
  BY DEF ReportFollowsPosts
<1>3. ASSUME creation.method \in BulkMethods PROVE BulkReportIsTrue'
  <2>1. Len(creation.orders) = 1 /\ DOMAIN creation.orders = {1}
    <3>1. ~(Len(creation.orders) > 1)
      BY <1>1, <1>3, Zenon DEF Batch
    <3>2. 1..1 = {1}
      OBVIOUS
    <3> QED
      <4> DEFINE n == Len(creation.orders)
      <4>0. n > 0 /\ n \in Nat /\ ~(n > 1)
        BY <1>1, <1>2, <3>1, Zenon
      <4> HIDE DEF n
      <4>1. n = 1
        BY <4>0
      <4> QED
        BY <1>2, <3>2, <4>1, Zenon DEF n
  <2>2. PICK o \in PostOutcomes :
          /\ posts' = <<o>>
          /\ o = "taken" => successful' = <<1>> /\ failed' = failed /\ Settle("returned")
          /\ o # "taken" => successful' = successful /\ Reject
    BY DEF PostOne
  <2>3. Len(posts') = 1 /\ DOMAIN posts' = {1} /\ posts'[1] = o
    BY <2>2
  <2>4. CASE o = "taken"
    <3>1. Range(successful') = {1} /\ Range(failed') = {} /\ result' = "returned"
      BY <1>1, <2>2, <2>4, RangeOfOne, NothingPosted DEF Settle
    <3> QED
      BY <1>1, <2>1, <2>3, <2>4, <3>1 DEF BulkReportIsTrue
  <2>5. CASE o # "taken" /\ creation.continueOnError
    <3>1. failed' = <<1>> /\ successful' = <<>> /\ result' = "returned"
      BY <1>1, <1>3, <2>1, <2>2, <2>5 DEF Reject, Settle
    <3>2. Range(successful') = {} /\ Range(failed') = {1}
      BY <3>1, RangeOfOne, NothingPosted
    <3> QED
      BY <1>1, <2>1, <2>3, <2>5, <3>1, <3>2 DEF BulkReportIsTrue
  <2>6. CASE o # "taken" /\ ~creation.continueOnError
    <3>1. result' = "threw"
      BY <2>2, <2>6 DEF Reject, Settle
    <3> QED
      BY <1>1, <2>1, <2>3, <2>6, <3>1 DEF BulkReportIsTrue
  <2> QED
    BY <2>4, <2>5, <2>6
<1>4. BulkReportIsTrue'
  BY <1>1, <1>3 DEF BulkReportIsTrue
<1> QED
  BY <1>1, <1>2, <1>4 DEF ReportFollowsPosts, Preparing

\* An order of a batch is posted, and filed in one of the two lists.
LEMMA PostNextKeepsReport ==
  ASSUME ReportFollowsPosts, PostNext
  PROVE  ReportFollowsPosts'
<1>1. /\ stage = "post" /\ Batch(creation) /\ UNCHANGED <<creation, signed>>
      /\ PostedSoFar /\ Len(creation.orders) > 0 /\ result = "none"
      /\ Len(signed) = Len(creation.orders) /\ creation.method \in BulkMethods
  BY DEF PostNext, ReportFollowsPosts, Preparing, Batch
<1>2. creation.orders \in Seq(Range(creation.orders)) /\ Len(creation.orders) \in Nat
      /\ DOMAIN creation.orders = 1..Len(creation.orders)
  BY DEF ReportFollowsPosts
<1>3. PICK o \in PostOutcomes :
        /\ posts' = Append(posts, o)
        /\ o = "taken" => successful' = Append(successful, at) /\ failed' = failed
        /\ o # "taken" => failed' = Append(failed, at) /\ successful' = successful
        /\ o # "taken" /\ ~creation.continueOnError => Settle("threw") /\ UNCHANGED at
        /\ o = "taken" \/ creation.continueOnError => Proceed
  BY DEF PostNext, goesOnAfterFailure
<1>4. /\ posts' \in Seq(PostOutcomes) /\ Len(posts') = at /\ DOMAIN posts' = 1..at
      /\ posts'[at] = o /\ \A i \in 1..(at - 1) : posts'[i] = posts[i]
      /\ at \in 1..Len(creation.orders) /\ DOMAIN posts = 1..(at - 1)
  BY <1>1, <1>2, <1>3 DEF PostedSoFar
<1>5. /\ successful' \in Seq(Nat) /\ failed' \in Seq(Nat)
      /\ Range(successful') = Range(successful) \cup (IF o = "taken" THEN {at} ELSE {})
      /\ Range(failed') = Range(failed) \cup (IF o # "taken" THEN {at} ELSE {})
  <2>1. successful \in Seq(Nat) /\ failed \in Seq(Nat) /\ at \in Nat
    BY <1>1, <1>2, <1>4 DEF PostedSoFar
  <2>2. /\ Append(successful, at) \in Seq(Nat)
        /\ Range(Append(successful, at)) = Range(successful) \cup {at}
        /\ Append(failed, at) \in Seq(Nat)
        /\ Range(Append(failed, at)) = Range(failed) \cup {at}
    BY <2>1, RangeOfAppend
  <2>3. CASE o = "taken"
    BY <1>3, <2>1, <2>2, <2>3
  <2>4. CASE o # "taken"
    BY <1>3, <2>1, <2>2, <2>4
  <2> QED
    BY <2>3, <2>4
<1>6. ASSUME NEW i \in Nat
      PROVE  /\ i \in DOMAIN posts' <=> i \in DOMAIN posts \/ i = at
             /\ i \in DOMAIN posts => i # at /\ posts'[i] = posts[i]
  BY <1>2, <1>4
<1>7. /\ \A i \in Nat : i \in Range(successful') <=> i \in DOMAIN posts' /\ posts'[i] = "taken"
      /\ \A i \in Nat : i \in Range(failed') <=> i \in DOMAIN posts' /\ posts'[i] # "taken"
  BY <1>1, <1>4, <1>5, <1>6 DEF PostedSoFar
<1>8. ~creation.continueOnError => \A i \in 1..(at - 1) : posts'[i] = "taken"
  BY <1>1, <1>4 DEF PostedSoFar
<1>9. /\ stage' \in {"post", "settled"}
      /\ stage' = "post" => at' = at + 1 /\ at # Len(creation.orders) /\ result' = "none"
                            /\ (o = "taken" \/ creation.continueOnError)
      /\ result' = "returned" => at = Len(creation.orders)
      /\ result' = "threw" => ~creation.continueOnError \/ creation.onProgress = "throws"
  BY <1>1, <1>3 DEF Proceed, Settle, Goto, LastOrder
<1>10. BulkReportIsTrue'
  <2>1. Len(posts') <= Len(signed')
    BY <1>1, <1>2, <1>4
  <2>2. ASSUME result' = "returned", NEW i \in DOMAIN creation.orders
        PROVE  /\ (i \in Range(successful')) # (i \in Range(failed'))
               /\ i \in Range(successful') <=> i \in DOMAIN posts' /\ posts'[i] = "taken"
    <3>1. i \in Nat /\ i \in DOMAIN posts'
      BY <1>2, <1>4, <1>9, <2>2
    <3> QED
      BY <1>7, <3>1, Zenon
  <2>3. result' = "threw" => ~creation.continueOnError \/ creation.onProgress = "throws"
    BY <1>9
  <2>4. ~creation.continueOnError => \A i \in DOMAIN posts' : posts'[i] # "taken" => i = Len(posts')
    BY <1>2, <1>4, <1>8
  <2> QED
    BY <1>1, <2>1, <2>2, <2>3, <2>4, Zenon DEF BulkReportIsTrue
<1>11. stage' = "post" => PostedSoFar'
  <2> SUFFICES ASSUME stage' = "post" PROVE PostedSoFar'
    OBVIOUS
  <2>1. at' = at + 1 /\ at' \in 1..Len(creation.orders) /\ Len(posts') = at' - 1
    BY <1>2, <1>4, <1>9
  <2>2. ~creation.continueOnError => \A i \in DOMAIN posts' : posts'[i] = "taken"
    BY <1>2, <1>4, <1>8, <1>9
  <2> QED
    BY <1>1, <1>4, <1>5, <1>7, <2>1, <2>2 DEF PostedSoFar
<1> QED
  BY <1>1, <1>2, <1>9, <1>10, <1>11 DEF ReportFollowsPosts, Preparing, Batch

\* What a bulk call has filed is what the API has answered, and nothing is filed
\* before an order is posted.
THEOREM BulkReportInvariant == Spec => []ReportFollowsPosts
<1>1. Init => ReportFollowsPosts
  <2> SUFFICES ASSUME Init PROVE ReportFollowsPosts
    OBVIOUS
  <2>1. /\ stage \in {"start", "idle"} /\ result = "none"
        /\ posts = <<>> /\ successful = <<>> /\ failed = <<>> /\ signed = <<>>
    BY DEF Init, OrdersStart, OrdersIdle
  <2>2. creation.orders \in Seq(Range(creation.orders))
    <3>1. CASE creation \in Creations
      BY <3>1, CreationsAssumption
    <3>2. CASE creation = NoCreation
      <4>1. <<>> \in Seq(Range(<<>>))
        OBVIOUS
      <4> QED
        BY <3>2, <4>1 DEF NoCreation
    <3> QED
      BY <3>1, <3>2 DEF Init, OrdersStart, OrdersIdle
  <2>3. BulkReportIsTrue
    BY <2>1, NothingPosted DEF BulkReportIsTrue
  <2> QED
    BY <2>1, <2>2, <2>3, NothingPosted DEF ReportFollowsPosts, Preparing
<1>2. ReportFollowsPosts /\ [Next]_vars => ReportFollowsPosts'
  <2> SUFFICES ASSUME ReportFollowsPosts, [Next]_vars PROVE ReportFollowsPosts'
    OBVIOUS
  <2>1. CASE OrdersNext
    BY <2>1, PreparationOfOrdersSteps, PreparationKeepsReport, PostOneKeepsReport,
       PostNextKeepsReport DEF OrdersNext
  <2>2. CASE UNCHANGED ordersVars
    BY <2>2 DEF ordersVars, ReportFollowsPosts, PostedSoFar, BulkReportIsTrue, Batch
  <2> QED
    BY <2>1, <2>2, Zenon DEF Next, ValidateOnchain, vars
<1> QED
  BY <1>1, <1>2, PTL DEF Spec

\* Every order of a bulk call that returns is in exactly one of its lists, and in
\* successful exactly if the API has acknowledged it.
THEOREM BulkReportIsTrueHolds == Spec => []BulkReportIsTrue
<1>1. ReportFollowsPosts => BulkReportIsTrue
  BY DEF ReportFollowsPosts
<1> QED
  BY <1>1, BulkReportInvariant, PTL

-----------------------------------------------------------------------------
(* Prices and fees                                                         *)

\* Every part of a list of amounts is at most their total.
LEMMA TotalOfNaturals ==
  \A s \in Seq(Nat) : Total(s) \in Nat /\ \A i \in DOMAIN s : s[i] <= Total(s)
<1> DEFINE P == {s \in Seq(Nat) : Total(s) \in Nat /\ \A i \in DOMAIN s : s[i] <= Total(s)}
<1>1. <<>> \in P
  <2>1. <<>> \in Seq(Nat) /\ DOMAIN <<>> = {}
    OBVIOUS
  <2> QED
    BY <2>1, TotalOfEmpty
<1>2. ASSUME NEW s \in Seq(Nat), NEW e \in Nat, s \in P PROVE Append(s, e) \in P
  <2>1. Total(Append(s, e)) = Total(s) + e /\ Total(s) \in Nat
    BY <1>2, TotalOfAppend
  <2>2. Append(s, e) \in Seq(Nat)
    OBVIOUS
  <2>3. ASSUME NEW i \in DOMAIN Append(s, e) PROVE Append(s, e)[i] <= Total(s) + e
    <3>1. CASE i \in DOMAIN s
      <4>1. Append(s, e)[i] = s[i] /\ s[i] \in Nat /\ s[i] <= Total(s)
        BY <1>2, <3>1
      <4> QED
        BY <2>1, <4>1
    <3>2. CASE i \notin DOMAIN s
      <4>1. Append(s, e)[i] = e
        BY <3>2
      <4> QED
        BY <2>1, <4>1
    <3> QED
      BY <3>1, <3>2
  <2>4. Total(s) + e \in Nat
    BY <2>1
  <2> QED
    BY <2>1, <2>2, <2>3, <2>4
<1> HIDE DEF P
<1>3. \A s \in Seq(Nat) : s \in P
  BY <1>1, <1>2, Sums!SequenceInduction
<1> QED
  BY <1>3 DEF P

\* Mapping a list after it has grown.
Mapped(F, s) == [i \in DOMAIN s |-> F[s[i]]]

LEMMA MapOfAppend ==
  ASSUME NEW S, NEW F \in [S -> Nat], NEW s \in Seq(S), NEW e \in S
  PROVE  /\ Mapped(F, s) \in Seq(Nat) /\ Len(Mapped(F, s)) = Len(s)
         /\ Mapped(F, Append(s, e)) = Append(Mapped(F, s), F[e])
<1> DEFINE n == Len(s)
           mapped == [i \in 1..n |-> F[s[i]]]
           more == [i \in 1..(n + 1) |-> F[Append(s, e)[i]]]
<1>1. n \in Nat /\ DOMAIN s = 1..n /\ DOMAIN Append(s, e) = 1..(n + 1)
  OBVIOUS
<1>2. \A i \in 1..n : F[s[i]] \in Nat
  BY <1>1
<1>3. mapped \in Seq(Nat) /\ Len(mapped) = n
  BY <1>1, <1>2
<1>4. \A i \in 1..(n + 1) : more[i] = Append(mapped, F[e])[i]
  <2>1. ASSUME NEW i \in 1..(n + 1) PROVE more[i] = Append(mapped, F[e])[i]
    <3>1. CASE i \in 1..n
      BY <1>1, <1>3, <3>1
    <3>2. CASE i = n + 1
      BY <1>1, <1>3, <3>2
    <3> QED
      BY <1>1, <3>1, <3>2
  <2> QED
    BY <2>1
<1>5. Append(mapped, F[e]) \in Seq(Nat) /\ Len(Append(mapped, F[e])) = n + 1
  BY <1>3
<1>6. more \in Seq(Nat) /\ Len(more) = n + 1
  <2>1. \A i \in 1..(n + 1) : more[i] \in Nat
    <3>1. \A i \in 1..(n + 1) : Append(s, e)[i] \in S
      BY <1>1
    <3> QED
      BY <3>1
  <2>2. n + 1 \in Nat
    BY <1>1
  <2> QED
    BY <2>1, <2>2
<1> HIDE DEF mapped, more
<1>7. more = Append(mapped, F[e])
  BY <1>4, <1>5, <1>6, SeqEqual
<1> QED
  BY <1>1, <1>3, <1>7 DEF mapped, more, Mapped

\* The parts of a price, each rounded down, come to no more than the price's part,
\* and to less by less than a unit each.
PartOf(price) == [n \in Nat |-> getAmountWithBasisPointsApplied(price, n)]

Parts(price, basisPoints) == Mapped(PartOf(price), basisPoints)

PartsFit(price, b) ==
  /\ Parts(price, b) \in Seq(Nat) /\ Len(Parts(price, b)) = Len(b)
  /\ 10000 * Total(Parts(price, b)) <= price * Total(b)
  /\ price * Total(b) <= 10000 * Total(Parts(price, b)) + 9999 * Len(b)

\* A part of a price is rounded down, by less than one unit.
LEMMA PartIsRoundedDown ==
  \A price \in Nat :
    /\ PartOf(price) \in [Nat -> Nat]
    /\ \A n \in Nat : /\ 10000 * PartOf(price)[n] <= price * n
                      /\ price * n <= 10000 * PartOf(price)[n] + 9999
                      /\ price * n \in Nat
<1> SUFFICES ASSUME NEW price \in Nat
             PROVE  /\ PartOf(price) \in [Nat -> Nat]
                    /\ \A n \in Nat : /\ 10000 * PartOf(price)[n] <= price * n
                                      /\ price * n <= 10000 * PartOf(price)[n] + 9999
                                      /\ price * n \in Nat
  OBVIOUS
<1>1. ASSUME NEW m \in Nat
      PROVE  /\ m \div 10000 \in Nat /\ 10000 * (m \div 10000) <= m
             /\ m <= 10000 * (m \div 10000) + 9999
  OBVIOUS
<1>2. ASSUME NEW n \in Nat PROVE price * n \in Nat
  OBVIOUS
<1> QED
  BY <1>1, <1>2 DEF PartOf, getAmountWithBasisPointsApplied, INVERSE_BASIS_POINT

\* The bounds on a sum of parts, with one part more.
LEMMA OnePartMore ==
  ASSUME NEW total \in Nat, NEW exact \in Nat, NEW n \in Nat, NEW part \in Nat, NEW share \in Nat,
         10000 * total <= exact, exact <= 10000 * total + 9999 * n,
         10000 * part <= share, share <= 10000 * part + 9999
  PROVE  /\ 10000 * (total + part) <= exact + share
         /\ exact + share <= 10000 * (total + part) + 9999 * (n + 1)
  OBVIOUS

\* The parts of a price for a list of basis points come to the part for their
\* total, but for less than a unit each.
LEMMA PartsAddUp ==
  ASSUME NEW price \in Nat
  PROVE  \A b \in Seq(Nat) : PartsFit(price, b)
<1>a. PartOf(price) \in [Nat -> Nat]
  BY PartIsRoundedDown
<1>b. ASSUME NEW e \in Nat
      PROVE  /\ PartOf(price)[e] \in Nat /\ 10000 * PartOf(price)[e] <= price * e
             /\ price * e <= 10000 * PartOf(price)[e] + 9999
  <2>1. 10000 * PartOf(price)[e] <= price * e /\ price * e <= 10000 * PartOf(price)[e] + 9999
    BY PartIsRoundedDown
  <2>2. PartOf(price)[e] \in Nat
    BY <1>a
  <2> QED
    BY <2>1, <2>2
<1>c. ASSUME NEW b \in Seq(Nat), NEW e \in Nat
      PROVE  Parts(price, Append(b, e)) = Append(Parts(price, b), PartOf(price)[e])
  BY <1>a, MapOfAppend DEF Parts
<1> DEFINE P == {b \in Seq(Nat) : PartsFit(price, b)}
<1>0. ASSUME NEW n \in Nat PROVE price * n \in Nat
  OBVIOUS
<1>1. <<>> \in P
  <2>1. <<>> \in Seq(Nat) /\ Len(<<>>) = 0 /\ Parts(price, <<>>) = <<>>
    BY DEF Parts, Mapped
  <2>2. price * 0 = 0 /\ 10000 * 0 = 0 /\ 0 <= 0 /\ 9999 * 0 = 0 /\ 0 + 0 = 0
    OBVIOUS
  <2>3. PartsFit(price, <<>>)
    <3> DEFINE none == Parts(price, <<>>)
    <3>1. none \in Seq(Nat) /\ Len(none) = 0 /\ Total(none) = 0 /\ Total(<<>>) = 0 /\ Len(<<>>) = 0
      BY <2>1, TotalOfEmpty
    <3> HIDE DEF none
    <3>2. 10000 * Total(none) <= price * Total(<<>>)
      BY <2>2, <3>1
    <3>3. price * Total(<<>>) <= 10000 * Total(none) + 9999 * Len(<<>>)
      BY <2>2, <3>1
    <3> QED
      BY <3>1, <3>2, <3>3 DEF PartsFit, none
  <2> QED
    BY <2>1, <2>3
<1>2. ASSUME NEW b \in Seq(Nat), NEW e \in Nat, b \in P PROVE Append(b, e) \in P
  <2> DEFINE more == Append(b, e)
             part == PartOf(price)[e]
             parts == Parts(price, b)
  <2>1. more \in Seq(Nat) /\ Len(more) = Len(b) + 1 /\ Len(b) \in Nat
    OBVIOUS
  <2>2. Parts(price, more) = Append(parts, part)
    BY <1>c
  <2>3. Total(more) = Total(b) + e /\ Total(b) \in Nat
    BY TotalOfAppend, TotalOfNaturals
  <2>4. /\ parts \in Seq(Nat) /\ Len(parts) = Len(b)
        /\ 10000 * Total(parts) <= price * Total(b)
        /\ price * Total(b) <= 10000 * Total(parts) + 9999 * Len(b)
    BY <1>2 DEF PartsFit
  <2>5. part \in Nat /\ 10000 * part <= price * e /\ price * e <= 10000 * part + 9999
    BY <1>b
  <2>6. price * Total(b) \in Nat /\ price * e \in Nat
    BY <1>0, <2>3
  <2> HIDE DEF more, part, parts
  <2>7. /\ Append(parts, part) \in Seq(Nat) /\ Len(Append(parts, part)) = Len(parts) + 1
        /\ Total(Append(parts, part)) = Total(parts) + part /\ Total(parts) \in Nat
    BY <2>4, <2>5, TotalOfAppend, TotalOfNaturals
  <2>8. /\ 10000 * (Total(parts) + part) <= price * Total(b) + price * e
        /\ price * Total(b) + price * e <= 10000 * (Total(parts) + part) + 9999 * (Len(b) + 1)
    <3> DEFINE exact == price * Total(b)
               share == price * e
               total == Total(parts)
    <3>1. exact \in Nat /\ share \in Nat /\ total \in Nat /\ Len(b) \in Nat
          /\ 10000 * total <= exact /\ exact <= 10000 * total + 9999 * Len(b)
          /\ 10000 * part <= share /\ share <= 10000 * part + 9999
      BY <2>1, <2>4, <2>5, <2>6, <2>7
    <3> HIDE DEF exact, share, total
    <3>2. /\ 10000 * (total + part) <= exact + share
          /\ exact + share <= 10000 * (total + part) + 9999 * (Len(b) + 1)
      BY <2>5, <3>1, OnePartMore
    <3> QED
      BY <3>2 DEF exact, share, total
  <2>9. price * Total(more) = price * Total(b) + price * e
    BY <2>3
  <2>10. PartsFit(price, more)
    BY <2>1, <2>2, <2>4, <2>7, <2>8, <2>9 DEF PartsFit
  <2>11. more \in P
    BY <2>1, <2>10
  <2> QED
    BY <2>11 DEF more
<1> HIDE DEF P
<1>3. \A b \in Seq(Nat) : b \in P
  BY <1>1, <1>2, Sums!SequenceInduction
<1> QED
  BY <1>3 DEF P

\* The digits of an amount are kept whole, and a negative one is refused unless it
\* is nothing (units.ts).
LEMMA ParsedExactly ==
  ASSUME NEW amount, NEW decimals \in Nat, amount.digits \in Nat, amount.frac \in Nat,
         amount.exp \in Int, amount.negative \in BOOLEAN,
         parseUnits(amount, decimals).ok, ~(parseUnits(amount, decimals).value < 0)
  PROVE  /\ parseUnits(amount, decimals).value =
              amount.digits * PowerOfTen(decimals + amount.exp - amount.frac)
         /\ parseUnits(amount, decimals).value \in Nat
         /\ amount.negative => amount.digits = 0
<1> DEFINE zeros == decimals + amount.exp - amount.frac
           power == PowerOfTen(zeros)
           digits == amount.digits
<1>1. ~(expandScientificNotation(amount) > decimals)
  BY DEF parseUnits, Throws
<1>2. zeros \in Nat
  BY <1>1 DEF expandScientificNotation
<1>3. power \in Nat \ {0}
  BY <1>2, PowerOfTenPositive
<1>4. digits \in Nat
  OBVIOUS
<1>5. parseUnits(amount, decimals).value = (IF amount.negative THEN -1 ELSE 1) * digits * power
  BY <1>1 DEF parseUnits, Returns
<1> HIDE DEF zeros, power, digits
<1>6. /\ digits * power \in Nat /\ (-1) * digits * power = -(digits * power)
      /\ 1 * digits * power = digits * power
      /\ digits * power = 0 => digits = 0
  <2>1. ASSUME digits # 0 PROVE digits * power # 0
    BY <1>3, <1>4, <2>1
  <2> QED
    BY <1>3, <1>4, <2>1
<1> DEFINE exact == digits * power
<1>7. parseUnits(amount, decimals).value = IF amount.negative THEN -exact ELSE exact
  BY <1>5, <1>6
<1>8. exact \in Nat /\ (exact = 0 => digits = 0)
  BY <1>6
<1>9. parseUnits(amount, decimals).value = exact /\ (amount.negative => exact = 0)
  <2> HIDE DEF exact
  <2> QED
    BY <1>7, <1>8
<1> QED
  BY <1>8, <1>9 DEF digits, power, zeros

\* A price that is not refused is the price asked.
LEMMA PriceIsAsked ==
  ASSUME NEW side, NEW token \in {ZERO_ADDRESS} \cup DOMAIN Decimals, NEW item,
         item.amount # Nothing => /\ item.amount.digits \in Nat /\ item.amount.frac \in Nat
                                  /\ item.amount.exp \in Int /\ item.amount.negative \in BOOLEAN,
         getPriceParameters(side, token, item.amount).ok
  PROVE  /\ item.amount # Nothing /\ (item.amount.negative => item.amount.digits = 0)
         /\ getPriceParameters(side, token, item.amount).value = Asked(item, token)
         /\ Asked(item, token) \in Nat
<1> DEFINE decimals == IF token = ZERO_ADDRESS THEN EtherDecimals ELSE Decimals[token]
           price == parseUnits(item.amount, decimals)
<1>1. /\ item.amount # Nothing /\ price.ok /\ ~(price.value < 0)
      /\ getPriceParameters(side, token, item.amount) = price
  BY DEF getPriceParameters, Throws
<1>2. decimals \in Nat
  BY AmountsAssumption
<1>3. Asked(item, token) =
        item.amount.digits * PowerOfTen(decimals + item.amount.exp - item.amount.frac)
  BY DEF Asked
<1> HIDE DEF decimals
<1>4. /\ price.value = item.amount.digits * PowerOfTen(decimals + item.amount.exp - item.amount.frac)
      /\ price.value \in Nat /\ (item.amount.negative => item.amount.digits = 0)
  BY <1>1, <1>2, ParsedExactly
<1> QED
  BY <1>1, <1>3, <1>4

-----------------------------------------------------------------------------
(* Fees                                                                    *)

\* The basis points of each fee of a set.
BasisPoints(fees) == [fee \in fees |-> basisPointsForFee(fee)]

\* A fee is rounded to within half a basis point.
LEMMA FeeIsRounded ==
  ASSUME NEW fee, fee.fee \in Nat
  PROVE  /\ basisPointsForFee(fee) \in Nat
         /\ 10 * basisPointsForFee(fee) <= fee.fee + 5
         /\ fee.fee <= 10 * basisPointsForFee(fee) + 5
         /\ fee.fee >= 5 => basisPointsForFee(fee) > 0
<1> DEFINE f == fee.fee
<1>1. /\ f \div 10 \in Nat /\ f % 10 \in 0..9 /\ f = 10 * (f \div 10) + (f % 10)
  OBVIOUS
<1>2. basisPointsForFee(fee) = (f \div 10) + IF f % 10 >= 5 THEN 1 ELSE 0
  BY DEF basisPointsForFee
<1> DEFINE tens == f \div 10
           rest == f % 10
<1>3. tens \in Nat /\ rest \in 0..9 /\ f = 10 * tens + rest
      /\ basisPointsForFee(fee) = tens + IF rest >= 5 THEN 1 ELSE 0
  BY <1>1, <1>2
<1>4. f \in Nat
  OBVIOUS
<1> HIDE DEF tens, rest, f
<1>5. /\ basisPointsForFee(fee) \in Nat /\ 10 * basisPointsForFee(fee) <= f + 5
      /\ f <= 10 * basisPointsForFee(fee) + 5 /\ (f >= 5 => basisPointsForFee(fee) > 0)
  BY <1>3, <1>4
<1> QED
  BY <1>5 DEF f

\* What is left of a list comes to no more than the list.
LEMMA FilterTotal ==
  ASSUME NEW S, NEW K, NEW F \in [S -> Nat]
  PROVE  \A s \in Seq(S) : Total(Mapped(F, Filter(s, K))) <= Total(Mapped(F, s))
<1> DEFINE P == {s \in Seq(S) : Total(Mapped(F, Filter(s, K))) <= Total(Mapped(F, s))}
<1>1. <<>> \in P
  <2>1. <<>> \in Seq(S) /\ Mapped(F, <<>>) = <<>>
    BY DEF Mapped
  <2> QED
    BY <2>1, FilterOfEmpty, TotalOfEmpty
<1>2. ASSUME NEW s \in Seq(S), NEW e \in S, s \in P PROVE Append(s, e) \in P
  <2> DEFINE kept == Filter(s, K)
  <2>1. kept \in Seq(S) /\ Append(s, e) \in Seq(S) /\ F[e] \in Nat
    BY FilterIsSequence
  <2>2. Filter(Append(s, e), K) = IF e \in K THEN Append(kept, e) ELSE kept
    BY FilterOfAppend
  <2> HIDE DEF kept
  <2>3. /\ Mapped(F, s) \in Seq(Nat) /\ Mapped(F, Append(s, e)) = Append(Mapped(F, s), F[e])
        /\ Mapped(F, kept) \in Seq(Nat) /\ Mapped(F, Append(kept, e)) = Append(Mapped(F, kept), F[e])
    BY <2>1, MapOfAppend
  <2>4. /\ Total(Mapped(F, Append(s, e))) = Total(Mapped(F, s)) + F[e]
        /\ Total(Mapped(F, Append(kept, e))) = Total(Mapped(F, kept)) + F[e]
        /\ Total(Mapped(F, s)) \in Nat /\ Total(Mapped(F, kept)) \in Nat
    BY <2>1, <2>3, TotalOfAppend, TotalOfNaturals
  <2>5. Total(Mapped(F, kept)) <= Total(Mapped(F, s))
    BY <1>2 DEF kept
  <2>6. Total(Mapped(F, Filter(Append(s, e), K))) <= Total(Mapped(F, Append(s, e)))
    BY <2>1, <2>2, <2>4, <2>5
  <2> QED
    BY <2>1, <2>6
<1> HIDE DEF P
<1>3. \A s \in Seq(S) : s \in P
  BY <1>1, <1>2, Sums!SequenceInduction
<1> QED
  BY <1>3 DEF P

\* Fees that come to no more than all of a price.
Affordable(collection) ==
  /\ collection.fees \in Seq(Range(collection.fees))
  /\ \A fee \in Range(collection.fees) : fee.fee \in Nat
  /\ totalBasisPointsForFees(collection.fees) <= INVERSE_BASIS_POINT

Due(collection, optional, private) ==
  {fee \in Range(collection.fees) : /\ optional \/ fee.required
                                    /\ private => isNotMarketplaceFee(fee)}

\* The fees that are due come to no more than all of a price, either.
LEMMA FeesDueAreAffordable ==
  ASSUME NEW collection, Affordable(collection), NEW optional, NEW private
  PROVE  LET fees == FeesDue(collection, optional, private)
             points == Mapped(BasisPoints(Range(collection.fees)), fees)
         IN  /\ fees \in Seq(Range(collection.fees)) /\ Range(fees) = Due(collection, optional, private)
             /\ totalBasisPointsForFees(fees) = Total(points)
             /\ points \in Seq(Nat) /\ Len(points) = Len(fees)
             /\ \A i \in DOMAIN fees : points[i] = basisPointsForFee(fees[i])
             /\ totalBasisPointsForFees(fees) \in 0..INVERSE_BASIS_POINT
<1> DEFINE S == Range(collection.fees)
           F == BasisPoints(S)
           K == Due(collection, optional, private)
           fees == FeesDue(collection, optional, private)
<1>1. F \in [S -> Nat] /\ \A fee \in S : F[fee] = basisPointsForFee(fee)
  BY FeeIsRounded DEF Affordable, BasisPoints
<1>2. collection.fees \in Seq(S) /\ fees = Filter(collection.fees, K)
  BY DEF Affordable, FeesDue, Due
<1>3. fees \in Seq(S) /\ Range(fees) = S \cap K /\ S \cap K = K
  BY <1>2, FilterIsSequence DEF Due
<1>4. ASSUME NEW s \in Seq(S)
      PROVE  /\ totalBasisPointsForFees(s) = Total(Mapped(F, s))
             /\ Mapped(F, s) \in Seq(Nat) /\ Len(Mapped(F, s)) = Len(s)
             /\ \A i \in DOMAIN s : Mapped(F, s)[i] = basisPointsForFee(s[i])
  <2>1. \A i \in DOMAIN s : s[i] \in S /\ F[s[i]] = basisPointsForFee(s[i])
    BY <1>1
  <2>2. [i \in DOMAIN s |-> basisPointsForFee(s[i])] = Mapped(F, s)
    BY <2>1 DEF Mapped
  <2>3. \A i \in DOMAIN s : Mapped(F, s)[i] = basisPointsForFee(s[i])
    BY <2>2
  <2>4. Mapped(F, s) \in Seq(Nat) /\ Len(Mapped(F, s)) = Len(s)
    <3> DEFINE n == Len(s)
    <3>1. DOMAIN s = 1..n /\ n \in Nat
      OBVIOUS
    <3>2. Mapped(F, s) = [i \in 1..n |-> F[s[i]]] /\ \A i \in 1..n : F[s[i]] \in Nat
      BY <1>1, <2>1, <3>1 DEF Mapped
    <3> HIDE DEF n, F
    <3> QED
      BY <3>1, <3>2 DEF n
  <2> QED
    BY <2>2, <2>3, <2>4 DEF totalBasisPointsForFees, SumOver
<1> HIDE DEF S, F, K, fees
<1>5. totalBasisPointsForFees(fees) <= totalBasisPointsForFees(collection.fees)
  <2>1. Total(Mapped(F, Filter(collection.fees, K))) <= Total(Mapped(F, collection.fees))
    BY <1>1, <1>2, FilterTotal
  <2> QED
    BY <1>2, <1>3, <1>4, <2>1
<1>6. totalBasisPointsForFees(fees) \in Nat /\ totalBasisPointsForFees(collection.fees) \in Nat
  BY <1>2, <1>3, <1>4, TotalOfNaturals
<1>7. totalBasisPointsForFees(fees) \in 0..INVERSE_BASIS_POINT
  <2> DEFINE x == totalBasisPointsForFees(fees)
             y == totalBasisPointsForFees(collection.fees)
  <2>1. x \in Nat /\ y \in Nat /\ x <= y /\ y <= INVERSE_BASIS_POINT
    BY <1>5, <1>6 DEF Affordable
  <2> HIDE DEF x, y
  <2>2. x \in 0..INVERSE_BASIS_POINT
    BY <2>1 DEF INVERSE_BASIS_POINT
  <2> QED
    BY <2>2 DEF x
<1> QED
  BY <1>3, <1>4, <1>7 DEF S, F, K, fees

-----------------------------------------------------------------------------
(* Payments                                                                *)

Amounts(items) == [i \in DOMAIN items |-> items[i].amount]

\* Items of a currency for recipients of a set.
CurrencyItems(recipients, token) ==
  [recipient : recipients, itemType : {IF token = ZERO_ADDRESS THEN "NATIVE" ELSE "ERC20"},
   token : {token}, identifier : {"0"}, amount : Nat]

\* A payment is an item of its currency.
LEMMA CurrencyItemsAre ==
  ASSUME NEW recipients, NEW token, NEW recipient \in recipients, NEW amount \in Nat
  PROVE  /\ To(recipient, Currency(token, amount)) \in CurrencyItems(recipients, token)
         /\ To(recipient, Currency(token, amount)).amount = amount
         /\ To(recipient, Currency(token, amount)).recipient = recipient
  BY DEF To, Currency, CurrencyItems, CurrencyTypes

\* A function on 1..n is a list.
LEMMA ListOf ==
  ASSUME NEW S, NEW n \in Nat, NEW f, f = [i \in 1..n |-> f[i]], \A i \in 1..n : f[i] \in S
  PROVE  f \in Seq(S) /\ Len(f) = n
<1>1. [i \in 1..n |-> f[i]] \in Seq(S) /\ Len([i \in 1..n |-> f[i]]) = n
  OBVIOUS
<1> QED
  BY <1>1

\* The elements of two lists in a row, by their places.
LEMMA ConcatOf ==
  ASSUME NEW S, NEW s \in Seq(S), NEW t \in Seq(S)
  PROVE  /\ s \o t \in Seq(S) /\ Len(s \o t) = Len(s) + Len(t)
         /\ \A i \in 1..Len(s) : (s \o t)[i] = s[i]
         /\ \A i \in (Len(s) + 1)..(Len(s) + Len(t)) : (s \o t)[i] = t[i - Len(s)]
  OBVIOUS

\* The amounts of payments, of two lists of payments in a row, and their total for
\* one.
LEMMA AmountsAre ==
  ASSUME NEW recipients, NEW token, NEW s \in Seq(CurrencyItems(recipients, token))
  PROVE  /\ Amounts(s) \in Seq(Nat) /\ Len(Amounts(s)) = Len(s)
         /\ \A i \in 1..Len(s) : Amounts(s)[i] = s[i].amount
<1> DEFINE m == Len(s)
           f == Amounts(s)
<1>1. m \in Nat /\ DOMAIN s = 1..m /\ \A i \in 1..m : s[i] \in CurrencyItems(recipients, token)
  OBVIOUS
<1>2. f = [i \in 1..m |-> s[i].amount]
  BY <1>1 DEF Amounts
<1>3. \A i \in 1..m : s[i].amount \in Nat
  BY <1>1 DEF CurrencyItems
<1> HIDE DEF m, f
<1>4. f = [i \in 1..m |-> f[i]] /\ \A i \in 1..m : f[i] \in Nat
  BY <1>2, <1>3
<1>5. f \in Seq(Nat) /\ Len(f) = m
  BY <1>1, <1>4, ListOf
<1> QED
  BY <1>2, <1>5 DEF m, f

LEMMA AmountsOfConcat ==
  ASSUME NEW recipients, NEW token, NEW s \in Seq(CurrencyItems(recipients, token)),
         NEW t \in Seq(CurrencyItems(recipients, token))
  PROVE  Amounts(s \o t) = Amounts(s) \o Amounts(t)
<1> DEFINE C == CurrencyItems(recipients, token)
           m == Len(s)
           n == Len(t)
           all == Amounts(s \o t)
           first == Amounts(s)
           rest == Amounts(t)
<1>1. /\ m \in Nat /\ n \in Nat /\ s \o t \in Seq(C) /\ Len(s \o t) = m + n
      /\ \A i \in 1..m : (s \o t)[i] = s[i]
      /\ \A i \in (m + 1)..(m + n) : (s \o t)[i] = t[i - m] /\ i - m \in 1..n
  OBVIOUS
<1>2. /\ all \in Seq(Nat) /\ Len(all) = m + n /\ \A i \in 1..(m + n) : all[i] = (s \o t)[i].amount
      /\ first \in Seq(Nat) /\ Len(first) = m /\ \A i \in 1..m : first[i] = s[i].amount
      /\ rest \in Seq(Nat) /\ Len(rest) = n /\ \A i \in 1..n : rest[i] = t[i].amount
  <2>1. /\ all \in Seq(Nat) /\ Len(all) = Len(s \o t)
        /\ \A i \in 1..Len(s \o t) : all[i] = (s \o t)[i].amount
    BY <1>1, AmountsAre
  <2>2. /\ first \in Seq(Nat) /\ Len(first) = m /\ \A i \in 1..m : first[i] = s[i].amount
    BY AmountsAre
  <2>3. /\ rest \in Seq(Nat) /\ Len(rest) = n /\ \A i \in 1..n : rest[i] = t[i].amount
    BY AmountsAre
  <2> HIDE DEF C, m, n, all, first, rest
  <2> QED
    BY <1>1, <2>1, <2>2, <2>3
<1> HIDE DEF C, m, n, all, first, rest
<1>3. /\ first \o rest \in Seq(Nat) /\ Len(first \o rest) = m + n
      /\ \A i \in 1..m : (first \o rest)[i] = first[i]
      /\ \A i \in (m + 1)..(m + n) : (first \o rest)[i] = rest[i - m]
  <2>1. /\ first \o rest \in Seq(Nat) /\ Len(first \o rest) = Len(first) + Len(rest)
        /\ \A i \in 1..Len(first) : (first \o rest)[i] = first[i]
        /\ \A i \in (Len(first) + 1)..(Len(first) + Len(rest)) :
             (first \o rest)[i] = rest[i - Len(first)]
    <3>1. first \in Seq(Nat) /\ rest \in Seq(Nat)
      BY <1>2
    <3> QED
      BY <3>1, ConcatOf, Zenon
  <2> QED
    BY <1>2, <2>1
<1>4. ASSUME NEW i \in 1..(m + n) PROVE all[i] = (first \o rest)[i]
  <2>1. CASE i \in 1..m
    <3>1. all[i] = (s \o t)[i].amount
      BY <1>2
    <3>2. (s \o t)[i] = s[i] /\ first[i] = s[i].amount /\ (first \o rest)[i] = first[i]
      BY <1>1, <1>2, <1>3, <2>1
    <3> QED
      BY <3>1, <3>2
  <2>2. CASE i \in (m + 1)..(m + n)
    <3>1. all[i] = (s \o t)[i].amount
      BY <1>2
    <3>2. (s \o t)[i] = t[i - m] /\ i - m \in 1..n
      BY <1>1, <2>2
    <3>3. rest[i - m] = t[i - m].amount /\ (first \o rest)[i] = rest[i - m]
      BY <1>2, <1>3, <2>2, <3>2
    <3> QED
      BY <3>1, <3>2, <3>3
  <2>3. i \in 1..m \/ i \in (m + 1)..(m + n)
    BY <1>1
  <2> QED
    BY <2>1, <2>2, <2>3
<1>5. all = first \o rest
  BY <1>2, <1>3, <1>4, SeqEqual
<1> QED
  BY <1>5 DEF all, first, rest

LEMMA TotalOfOne ==
  ASSUME NEW e \in Nat
  PROVE  <<e>> \in Seq(Nat) /\ Total(<<e>>) = e
<1>1. <<e>> \in Seq(Nat) /\ <<>> \in Seq(Nat) /\ <<e>> = Append(<<>>, e)
  OBVIOUS
<1>2. Total(<<e>>) = Total(<<>>) + e
  BY <1>1, TotalOfAppend
<1> QED
  BY <1>1, <1>2, TotalOfEmpty

\* PartIsRoundedDown for one part.
LEMMA PartBounds ==
  ASSUME NEW price \in Nat, NEW n \in Nat
  PROVE  /\ PartOf(price)[n] \in Nat /\ 10000 * PartOf(price)[n] <= price * n
         /\ price * n <= 10000 * PartOf(price)[n] + 9999
<1>1. PartOf(price) \in [Nat -> Nat]
  BY PartIsRoundedDown
<1>2. 10000 * PartOf(price)[n] <= price * n /\ price * n <= 10000 * PartOf(price)[n] + 9999
  BY PartIsRoundedDown
<1> QED
  BY <1>1, <1>2

Recipients(collection, seller, optional, private) ==
  {seller} \cup {fee.recipient : fee \in Due(collection, optional, private)}

\* Payments fit a price, and no due fee is forgotten unless it is less than half a
\* basis point.
Fit(paid, collection, seller, token, amount, optional, private) ==
  /\ paid \in Seq(CurrencyItems(Recipients(collection, seller, optional, private), token))
  /\ Total(Amounts(paid)) <= amount
  /\ seller # Nothing => amount - Len(paid) < Total(Amounts(paid))
  /\ \A fee \in Due(collection, optional, private) :
       fee.fee >= 5 =>
         \E payment \in Range(paid) :
           /\ payment.recipient = fee.recipient
           /\ payment.amount = PartOf(amount)[basisPointsForFee(fee)]

\* The payments of an order fit its price (fees.ts, orders.ts:125-172).
LEMMA FeesFit ==
  ASSUME NEW collection, Affordable(collection), NEW seller, NEW token, NEW amount \in Nat,
         NEW optional, NEW private
  PROVE  Fit(getFees(collection, seller, token, amount, optional, private),
             collection, seller, token, amount, optional, private)
<1> DEFINE fees == FeesDue(collection, optional, private)
           total == totalBasisPointsForFees(fees)
           due == Due(collection, optional, private)
           recipients == {seller} \cup {fee.recipient : fee \in due}
           C == CurrencyItems(recipients, token)
           points == Mapped(BasisPoints(Range(collection.fees)), fees)
           Item(b, r) == To(r, Currency(token, PartOf(amount)[b]))
           A == IF seller = Nothing THEN <<>> ELSE <<Item(INVERSE_BASIS_POINT - total, seller)>>
           B == IF total > 0
                THEN [i \in DOMAIN fees |-> Item(basisPointsForFee(fees[i]), fees[i].recipient)]
                ELSE <<>>
           n == Len(fees)
<1>1. /\ fees \in Seq(Range(collection.fees)) /\ Range(fees) = due /\ total = Total(points)
      /\ points \in Seq(Nat) /\ Len(points) = n /\ total \in 0..INVERSE_BASIS_POINT
      /\ \A i \in DOMAIN fees : points[i] = basisPointsForFee(fees[i])
  BY FeesDueAreAffordable
<1>2. n \in Nat /\ DOMAIN fees = 1..n /\ \A i \in 1..n : fees[i] \in due
  <2>1. fees \in Seq(Range(collection.fees)) /\ Range(fees) = due
    BY <1>1
  <2> HIDE DEF fees, due
  <2>2. n \in Nat /\ DOMAIN fees = 1..n
    BY <2>1
  <2> QED
    BY <2>1, <2>2 DEF Range
<1>3. total \in Nat /\ total <= 10000 /\ 10000 - total \in Nat /\ INVERSE_BASIS_POINT - total \in Nat
  <2>1. total \in 0..INVERSE_BASIS_POINT
    BY <1>1
  <2> HIDE DEF total
  <2> QED
    BY <2>1 DEF INVERSE_BASIS_POINT
<1>4. \A b \in Nat : /\ PartOf(amount)[b] = getAmountWithBasisPointsApplied(amount, b)
                     /\ PartOf(amount)[b] \in Nat
  <2>1. PartOf(amount) \in [Nat -> Nat]
    BY PartIsRoundedDown
  <2> QED
    BY <2>1 DEF PartOf
<1>5. \A i \in 1..n : points[i] = basisPointsForFee(fees[i]) /\ basisPointsForFee(fees[i]) \in Nat
  BY <1>1, <1>2
<1>6. getFees(collection, seller, token, amount, optional, private) = A \o B
  <2>1. PartOf(amount)[INVERSE_BASIS_POINT - total] =
          getAmountWithBasisPointsApplied(amount, INVERSE_BASIS_POINT - total)
    BY <1>3, <1>4
  <2>2. [i \in DOMAIN fees |-> Item(basisPointsForFee(fees[i]), fees[i].recipient)] =
          [i \in DOMAIN fees |->
             To(fees[i].recipient,
                Currency(token, getAmountWithBasisPointsApplied(amount, basisPointsForFee(fees[i]))))]
    BY <1>2, <1>4, <1>5
  <2> QED
    BY <2>1, <2>2 DEF getFees, withheldBasisPoints
<1> HIDE DEF fees, total, due, points, n
<1>7. seller \in recipients /\ \A i \in 1..n : fees[i].recipient \in recipients
  BY <1>2
<1>8. \A b \in Nat : \A r \in recipients : /\ Item(b, r) \in C /\ Item(b, r).amount = PartOf(amount)[b]
                                           /\ Item(b, r).recipient = r
  <2>1. ASSUME NEW b \in Nat, NEW r \in recipients
        PROVE  /\ Item(b, r) \in C /\ Item(b, r).amount = PartOf(amount)[b]
               /\ Item(b, r).recipient = r
    <3> DEFINE part == PartOf(amount)[b]
    <3>1. part \in Nat
      BY <1>4
    <3> HIDE DEF recipients, part
    <3>2. /\ To(r, Currency(token, part)) \in CurrencyItems(recipients, token)
          /\ To(r, Currency(token, part)).amount = part
          /\ To(r, Currency(token, part)).recipient = r
      BY <3>1, CurrencyItemsAre
    <3> QED
      BY <3>2, Zenon DEF part
  <2> QED
    BY <2>1
<1> HIDE DEF recipients, C, Item
<1> DEFINE sellers == PartOf(amount)[10000 - total]
<1>9. /\ A \in Seq(C)
      /\ seller = Nothing => Len(A) = 0 /\ Amounts(A) = <<>>
      /\ seller # Nothing => Len(A) = 1 /\ Amounts(A) = <<sellers>>
  <2>1. CASE seller = Nothing
    BY <2>1 DEF Amounts
  <2>2. CASE seller # Nothing
    <3> DEFINE first == Item(INVERSE_BASIS_POINT - total, seller)
    <3>1. first \in C /\ first.amount = sellers
      BY <1>3, <1>7, <1>8 DEF INVERSE_BASIS_POINT
    <3>2. A = <<first>>
      BY <2>2
    <3> HIDE DEF first, A, sellers
    <3>3. A \in Seq(C) /\ Len(A) = 1 /\ DOMAIN A = {1} /\ A[1] = first
      BY <3>1, <3>2
    <3>4. Amounts(A) = <<sellers>>
      BY <3>1, <3>3 DEF Amounts
    <3> QED
      BY <2>2, <3>3, <3>4
  <2> QED
    BY <2>1, <2>2
<1>10. /\ B \in Seq(C)
       /\ total = 0 => Len(B) = 0 /\ Amounts(B) = <<>>
       /\ total > 0 => Len(B) = n /\ Amounts(B) = Parts(amount, points)
  <2>1. CASE total = 0
    BY <2>1 DEF Amounts
  <2>2. CASE total > 0
    <3>1. B = [i \in 1..n |-> Item(basisPointsForFee(fees[i]), fees[i].recipient)]
      BY <1>2, <2>2
    <3> HIDE DEF B
    <3>2. \A i \in 1..n : B[i] \in C /\ B[i].amount = PartOf(amount)[points[i]]
      BY <1>5, <1>7, <1>8, <3>1
    <3>3. B \in Seq(C) /\ Len(B) = n
      BY <1>2, <3>1, <3>2
    <3>4. Amounts(B) = [i \in 1..n |-> PartOf(amount)[points[i]]]
      BY <3>1, <3>2 DEF Amounts
    <3>5. DOMAIN points = 1..n
      BY <1>1
    <3>6. Amounts(B) = Parts(amount, points)
      BY <3>4, <3>5 DEF Parts, Mapped
    <3> QED
      BY <2>2, <3>3, <3>6
  <2> QED
    BY <1>3, <2>1, <2>2
<1> HIDE DEF A, B
<1> DEFINE TA == Total(Amounts(A))
           TB == Total(Amounts(B))
           share == amount * total
<1>11. /\ Total(Amounts(A \o B)) = TA + TB /\ Len(A \o B) = Len(A) + Len(B) /\ A \o B \in Seq(C)
       /\ TA \in Nat /\ TB \in Nat /\ Len(A) \in Nat /\ Len(B) \in Nat
  <2>1. A \in Seq(C) /\ B \in Seq(C)
    BY <1>9, <1>10
  <2>2. Amounts(A) \in Seq(Nat) /\ Amounts(B) \in Seq(Nat)
    BY <2>1, AmountsAre DEF C
  <2>3. Amounts(A \o B) = Amounts(A) \o Amounts(B)
    BY <2>1, AmountsOfConcat DEF C
  <2>4. Total(Amounts(A) \o Amounts(B)) = TA + TB
    <3>1. Amounts(A) \in Seq(Int) /\ Amounts(B) \in Seq(Int)
      BY <2>2
    <3> QED
      BY <3>1, TotalOfConcat
  <2>5. TA \in Nat /\ TB \in Nat
    BY <2>2, TotalOfNaturals
  <2> QED
    BY <2>1, <2>3, <2>4, <2>5
<1>12. /\ share \in Nat /\ share <= 10000 * amount
       /\ amount * (10000 - total) = 10000 * amount - share
  <2>1. amount * total \in Nat
    BY <1>3
  <2>2. amount * (10000 - total) = 10000 * amount - amount * total
    BY <1>3
  <2>3. amount * (10000 - total) \in Nat
    BY <1>3
  <2> QED
    BY <2>1, <2>2, <2>3
<1>13. /\ seller = Nothing => Len(A) = 0 /\ TA = 0
       /\ seller # Nothing => /\ Len(A) = 1 /\ 10000 * TA <= 10000 * amount - share
                              /\ 10000 * amount - share <= 10000 * TA + 9999
  <2>1. CASE seller = Nothing
    BY <1>9, <2>1, TotalOfEmpty
  <2>2. CASE seller # Nothing
    <3>1. sellers \in Nat /\ 10000 * sellers <= amount * (10000 - total)
          /\ amount * (10000 - total) <= 10000 * sellers + 9999
      <4> DEFINE m == 10000 - total
      <4>1. m \in Nat
        BY <1>3
      <4> HIDE DEF m
      <4>2. /\ PartOf(amount)[m] \in Nat /\ 10000 * PartOf(amount)[m] <= amount * m
            /\ amount * m <= 10000 * PartOf(amount)[m] + 9999
        BY <4>1, PartBounds
      <4> QED
        BY <4>2 DEF m
    <3>2. TA = sellers
      BY <1>9, <2>2, <3>1, TotalOfOne
    <3> HIDE DEF TA, sellers, share
    <3> QED
      BY <1>9, <1>12, <2>2, <3>1, <3>2
  <2> QED
    BY <2>1, <2>2
<1>14. 10000 * TB <= share /\ share <= 10000 * TB + 9999 * Len(B)
  <2>1. CASE total = 0
    <3>1. TB = 0 /\ Len(B) = 0
      BY <1>10, <2>1, TotalOfEmpty
    <3>2. share = 0
      BY <2>1
    <3> QED
      BY <3>1, <3>2
  <2>2. CASE total > 0
    <3>1. PartsFit(amount, points)
      BY <1>1, PartsAddUp
    <3>2. Amounts(B) = Parts(amount, points) /\ Len(B) = n
      BY <1>10, <2>2
    <3>3. Len(points) = n /\ total = Total(points)
      BY <1>1
    <3> QED
      BY <3>1, <3>2, <3>3 DEF PartsFit
  <2> QED
    BY <1>3, <2>1, <2>2
<1>15. TA + TB <= amount /\ (seller # Nothing => amount - (Len(A) + Len(B)) < TA + TB)
  <2> DEFINE LA == Len(A)
             LB == Len(B)
  <2>1. /\ TA \in Nat /\ TB \in Nat /\ LA \in Nat /\ LB \in Nat /\ share \in Nat
        /\ share <= 10000 * amount /\ 10000 * TB <= share /\ share <= 10000 * TB + 9999 * LB
    BY <1>11, <1>12, <1>14
  <2>2. /\ seller = Nothing => LA = 0 /\ TA = 0
        /\ seller # Nothing => /\ LA = 1 /\ 10000 * TA <= 10000 * amount - share
                               /\ 10000 * amount - share <= 10000 * TA + 9999
    BY <1>13
  <2> HIDE DEF TA, TB, share, LA, LB
  <2>3. TA + TB <= amount
    BY <2>1, <2>2
  <2>4. seller # Nothing => amount - (LA + LB) < TA + TB
    BY <2>1, <2>2
  <2> QED
    BY <2>3, <2>4 DEF LA, LB
<1>16. ASSUME NEW fee \in due, fee.fee >= 5
       PROVE  \E payment \in Range(A \o B) :
                /\ payment.recipient = fee.recipient
                /\ payment.amount = PartOf(amount)[basisPointsForFee(fee)]
  <2>1. fee.fee \in Nat /\ basisPointsForFee(fee) \in Nat /\ basisPointsForFee(fee) > 0
    <3>1. fee.fee \in Nat
      BY <1>16 DEF due, Due, Affordable
    <3> QED
      BY <1>16, <3>1, FeeIsRounded
  <2>2. PICK i \in 1..n : fees[i] = fee
    BY <1>1, <1>2, <1>16 DEF Range
  <2>3. total > 0
    <3>1. i \in DOMAIN points /\ points[i] = basisPointsForFee(fee)
      BY <1>1, <1>5, <2>2
    <3>2. points[i] <= Total(points) /\ Total(points) \in Nat
      BY <1>1, <3>1, TotalOfNaturals
    <3> QED
      BY <1>1, <2>1, <3>1, <3>2
  <2>4. B = [j \in 1..n |-> Item(basisPointsForFee(fees[j]), fees[j].recipient)]
    BY <1>2, <2>3 DEF B
  <2>5. B[i] = Item(basisPointsForFee(fee), fee.recipient) /\ i \in DOMAIN B
    BY <2>2, <2>4
  <2>6. /\ B[i].recipient = fee.recipient
        /\ B[i].amount = PartOf(amount)[basisPointsForFee(fee)]
    BY <1>7, <1>8, <2>1, <2>2, <2>5
  <2>7. B[i] \in Range(A \o B)
    <3>1. B[i] \in Range(B)
      BY <2>5 DEF Range
    <3> QED
      BY <1>9, <1>10, <3>1, RangeOfConcat
  <2> QED
    BY <2>6, <2>7
<1> QED
  BY <1>6, <1>11, <1>15, <1>16 DEF Fit, Recipients, due, recipients, C

\* An order asks for fees, and beside them for nothing or for an asset.
Asks(order, fees, asset, recipients, token) ==
  /\ fees \in Seq(CurrencyItems(recipients, token))
  /\ asset.itemType \notin CurrencyTypes
  /\ order.consideration \in {fees \o <<>>, fees \o <<asset>>, <<asset>> \o fees}

\* Its payments are the fees.
LEMMA PaymentsAre ==
  ASSUME NEW recipients, NEW token, NEW fees, NEW asset, NEW order,
         Asks(order, fees, asset, recipients, token)
  PROVE  /\ Payments(order) = fees
         /\ Range(order.consideration) \subseteq Range(fees) \cup {asset}
<1> SUFFICES ASSUME fees \in Seq(CurrencyItems(recipients, token)),
                    asset.itemType \notin CurrencyTypes,
                    order.consideration \in {fees \o <<>>, fees \o <<asset>>, <<asset>> \o fees}
             PROVE  /\ Payments(order) = fees
                    /\ Range(order.consideration) \subseteq Range(fees) \cup {asset}
  BY DEF Asks
<1> DEFINE C == CurrencyItems(recipients, token)
           S == C \cup {asset}
           one == <<asset>>
           items == order.consideration
           K == {item \in Range(items) : isCurrencyItem(item)}
<1>1. /\ fees \in Seq(S) /\ one \in Seq(S) /\ Range(one) = {asset}
      /\ \A item \in Range(fees) : item \in C
  <2>1. fees \in Seq(S) /\ \A item \in Range(fees) : item \in C
    BY DEF Range
  <2>2. asset \in S
    OBVIOUS
  <2> HIDE DEF S
  <2> QED
    BY <2>1, <2>2, RangeOfOne
<1>2. ASSUME NEW item \in Range(fees) PROVE isCurrencyItem(item)
  <2>1. item \in C
    BY <1>1
  <2> QED
    BY <2>1 DEF isCurrencyItem, CurrencyItems, CurrencyTypes
<1>3. ~isCurrencyItem(asset)
  BY DEF isCurrencyItem
<1>4. Payments(order) = Filter(items, K)
  BY DEF Payments
<1>5. CASE items = fees \o <<>>
  <2>1. items = fees
    BY <1>1, <1>5
  <2>2. Range(fees) \subseteq K
    BY <1>2, <2>1
  <2> HIDE DEF C, S, one, items, K
  <2>3. Filter(fees, K) = fees
    BY <1>1, <2>2, FilterOfAll
  <2> QED
    BY <1>4, <2>1, <2>3 DEF items
<1>6. CASE items = fees \o one
  <2>1. Range(items) = Range(fees) \cup {asset}
    <3> HIDE DEF C, S, one, items, K
    <3> QED
      BY <1>1, <1>6, RangeOfConcat
  <2>2. Range(fees) \subseteq K /\ Range(one) \cap K = {}
    BY <1>1, <1>2, <1>3, <2>1
  <2> HIDE DEF C, S, one, items, K
  <2>3. Filter(fees \o one, K) = Filter(fees, K)
    BY <1>1, <2>2, FilterOfConcat
  <2>4. Filter(fees, K) = fees
    BY <1>1, <2>2, FilterOfAll
  <2> QED
    BY <1>4, <1>6, <2>1, <2>3, <2>4 DEF items
<1>7. CASE items = one \o fees
  <2>1. Range(items) = Range(fees) \cup {asset}
    <3> HIDE DEF C, S, one, items, K
    <3> QED
      BY <1>1, <1>7, RangeOfConcat
  <2>2. Range(fees) \subseteq K /\ Range(one) \cap K = {}
    BY <1>1, <1>2, <1>3, <2>1
  <2> HIDE DEF C, S, one, items, K
  <2>3. Filter(one \o fees, K) = Filter(one, K) \o fees
    BY <1>1, <2>2, FilterOfConcat
  <2>4. Filter(one, K) = <<>>
    BY <1>1, <2>2, FilterOfAll
  <2>5. <<>> \o fees = fees
    BY <1>1
  <2> QED
    BY <1>4, <1>7, <2>1, <2>3, <2>4, <2>5 DEF items
<1> QED
  BY <1>5, <1>6, <1>7

\* A fee's part of a price is within half a basis point of what was set.
LEMMA PartIsClose ==
  ASSUME NEW price \in Nat, NEW fee, fee.fee \in Nat
  PROVE  CloseTo(PartOf(price)[basisPointsForFee(fee)], fee.fee, price)
<1> DEFINE b == basisPointsForFee(fee)
           f == fee.fee
           part == PartOf(price)[b]
<1>1. b \in Nat /\ f \in Nat /\ 10 * b <= f + 5 /\ f <= 10 * b + 5
  BY FeeIsRounded
<1> HIDE DEF b, f, part
<1>2. part \in Nat /\ 10000 * part <= price * b /\ price * b <= 10000 * part + 9999
  BY <1>1, PartBounds DEF part
<1> DEFINE exact == price * f
           share == price * b
<1>3. exact \in Nat /\ share \in Nat /\ 10 * share <= exact + 5 * price /\ exact <= 10 * share + 5 * price
  <2>1. \A k \in Nat : price * k \in Nat
    OBVIOUS
  <2>2. ASSUME NEW k \in Nat, NEW m \in Nat, k <= m PROVE price * k <= price * m
    BY <2>2
  <2>3. price * (10 * b) <= price * (f + 5)
    <3>1. 10 * b \in Nat /\ f + 5 \in Nat
      BY <1>1
    <3> QED
      BY <1>1, <2>2, <3>1
  <2>4. price * f <= price * (10 * b + 5)
    <3>1. 10 * b + 5 \in Nat
      BY <1>1
    <3> QED
      BY <1>1, <2>2, <3>1
  <2>5. /\ price * (10 * b) = 10 * (price * b) /\ price * (f + 5) = price * f + 5 * price
        /\ price * (10 * b + 5) = 10 * (price * b) + 5 * price
    BY <1>1
  <2> QED
    BY <1>1, <2>1, <2>3, <2>4, <2>5
<1>4. 10000 * part <= share /\ share <= 10000 * part + 9999
  BY <1>2
<1> HIDE DEF exact, share
<1>5. part * 100000 <= exact + 5 * price /\ exact <= part * 100000 + 5 * price + 100000
  BY <1>2, <1>3, <1>4
<1> QED
  BY <1>5 DEF CloseTo, exact, part, f, b

-----------------------------------------------------------------------------
(* Orders                                                                  *)

Paid(order) == SumOver(Payments(order), LAMBDA payment : payment.amount)

\* What FeesAddUp says of one order.
AddsUp(order, collection, price, listing, private) ==
  /\ Paid(order) <= price
  /\ listing => price - Len(Payments(order)) < Paid(order)
  /\ \A fee \in Range(collection.fees) :
       fee.required /\ fee.fee >= 5 /\ (private => isNotMarketplaceFee(fee)) =>
         \E payment \in Range(Payments(order)) :
           /\ payment.recipient = fee.recipient
           /\ CloseTo(payment.amount, fee.fee, price)
  /\ private => \A payment \in Range(order.consideration) :
                  payment.recipient # MarketplaceFeeRecipient

\* An order whose payments are its fees adds up.
PaysInFull(order, collection, price, seller, private) ==
  /\ Paid(order) <= price
  /\ seller # Nothing => price - Len(Payments(order)) < Paid(order)
  /\ \A fee \in Range(collection.fees) :
       fee.required /\ fee.fee >= 5 /\ (private => isNotMarketplaceFee(fee)) =>
         \E payment \in Range(Payments(order)) :
           /\ payment.recipient = fee.recipient
           /\ CloseTo(payment.amount, fee.fee, price)

\* The fees that getFees makes for a collection pay all of a listing's price and
\* every required fee.
LEMMA PaidInFull ==
  ASSUME NEW collection, Affordable(collection), NEW seller, NEW token, NEW price \in Nat,
         NEW optional, NEW private, NEW order,
         Payments(order) = getFees(collection, seller, token, price, optional, private)
  PROVE  PaysInFull(order, collection, price, seller, private)
<1> DEFINE fees == getFees(collection, seller, token, price, optional, private)
<1>1. /\ Total(Amounts(fees)) <= price
      /\ seller # Nothing => price - Len(fees) < Total(Amounts(fees))
      /\ \A fee \in Due(collection, optional, private) :
           fee.fee >= 5 =>
             \E payment \in Range(fees) :
               /\ payment.recipient = fee.recipient
               /\ payment.amount = PartOf(price)[basisPointsForFee(fee)]
  <2>1. Fit(fees, collection, seller, token, price, optional, private)
    BY FeesFit
  <2> QED
    BY <2>1 DEF Fit
<1>2. Paid(order) = Total(Amounts(fees)) /\ Payments(order) = fees
  BY DEF Paid, SumOver, Amounts
<1> HIDE DEF fees
<1>3. ASSUME NEW fee \in Range(collection.fees), fee.required, fee.fee >= 5,
             private => isNotMarketplaceFee(fee)
      PROVE  \E payment \in Range(fees) : /\ payment.recipient = fee.recipient
                                          /\ CloseTo(payment.amount, fee.fee, price)
  <2>1. fee \in Due(collection, optional, private)
    BY <1>3 DEF Due
  <2>2. PICK payment \in Range(fees) : /\ payment.recipient = fee.recipient
                                       /\ payment.amount = PartOf(price)[basisPointsForFee(fee)]
    BY <1>1, <1>3, <2>1
  <2>3. fee.fee \in Nat
    BY DEF Affordable
  <2>4. CloseTo(PartOf(price)[basisPointsForFee(fee)], fee.fee, price)
    BY <2>3, PartIsClose
  <2> QED
    BY <2>2, <2>4
<1> QED
  BY <1>1, <1>2, <1>3 DEF PaysInFull

ListingIsAsked(order, item, nft, collection, price) ==
  /\ AddsUp(order, collection, price, TRUE, item.buyer # Nothing)
  /\ order.offer[1].amount = item.quantity
  /\ order.offer[1].identifier = nft.identifier

\* A listing is for the asset and the quantity that were asked for, and adds up.
LEMMA ListingAddsUp ==
  ASSUME NEW item, NEW nft, nft.tokenStandard \notin CurrencyTypes,
         NEW collection, Affordable(collection), NEW price \in Nat,
         NEW account, account \notin {Nothing, MarketplaceFeeRecipient},
         item.buyer # MarketplaceFeeRecipient
  PROVE  ListingIsAsked(ListingOrder(item, nft, collection, price, account),
                        item, nft, collection, price)
<1> DEFINE order == ListingOrder(item, nft, collection, price, account)
           assets == getNFTItems(nft, item.quantity)
           private == item.buyer # Nothing
           token == ListingPaymentToken(collection)
           due == Due(collection, item.optionalFees, private)
           recipients == Recipients(collection, account, item.optionalFees, private)
           fees == getFees(collection, account, token, price, item.optionalFees, private)
           asset == To(item.buyer, assets[1])
<1>1. /\ order.offer = assets
      /\ order.consideration = fees \o IF private THEN getPrivateListingConsiderations(assets, item.buyer)
                                                  ELSE <<>>
  BY DEF ListingOrder, Order
<1>2. /\ assets[1].amount = item.quantity /\ assets[1].identifier = nft.identifier
      /\ assets[1].itemType = nft.tokenStandard /\ DOMAIN assets = {1}
  BY DEF getNFTItems
<1>3. asset.itemType \notin CurrencyTypes /\ asset.recipient = item.buyer
  BY <1>2 DEF To
<1>4. getPrivateListingConsiderations(assets, item.buyer) = <<asset>>
  BY <1>2 DEF getPrivateListingConsiderations
<1>5. fees \in Seq(CurrencyItems(recipients, token))
  <2> HIDE DEF private
  <2>1. Fit(fees, collection, account, token, price, item.optionalFees, private)
    BY FeesFit
  <2> QED
    BY <2>1 DEF Fit
<1> HIDE DEF order, assets, token, due, recipients, fees, asset
<1>6. order.consideration \in {fees \o <<>>, fees \o <<asset>>, <<asset>> \o fees}
  BY <1>1, <1>4
<1>7. /\ Payments(order) = fees
      /\ Range(order.consideration) \subseteq Range(fees) \cup {asset}
  <2>1. Asks(order, fees, asset, recipients, token)
    BY <1>3, <1>5, <1>6 DEF Asks
  <2> QED
    BY <2>1, PaymentsAre
<1>8. ASSUME private PROVE \A payment \in Range(order.consideration) :
                             payment.recipient # MarketplaceFeeRecipient
  <2>1. asset.recipient # MarketplaceFeeRecipient
    BY <1>3
  <2>2. ASSUME NEW payment \in Range(fees) PROVE payment.recipient # MarketplaceFeeRecipient
    <3>1. payment \in CurrencyItems(recipients, token)
      BY <1>5 DEF Range
    <3>2. payment.recipient \in recipients
      BY <3>1 DEF CurrencyItems
    <3>3. account # MarketplaceFeeRecipient
      OBVIOUS
    <3>4. \A fee \in due : fee.recipient # MarketplaceFeeRecipient
      BY <1>8 DEF due, Due, isNotMarketplaceFee
    <3> QED
      BY <3>2, <3>3, <3>4 DEF recipients, Recipients, due
  <2> QED
    BY <1>7, <2>1, <2>2
<1>9. PaysInFull(order, collection, price, account, private)
  <2> HIDE DEF private
  <2>1. Payments(order) = getFees(collection, account, token, price, item.optionalFees, private)
    BY <1>7 DEF fees
  <2> QED
    BY <2>1, PaidInFull
<1>10. AddsUp(order, collection, price, TRUE, private)
  BY <1>8, <1>9 DEF AddsUp, PaysInFull
<1> QED
  BY <1>1, <1>2, <1>10 DEF order, ListingIsAsked

\* An offer whose consideration is its asset and its fees adds up.
LEMMA OfferAddsUp ==
  ASSUME NEW collection, Affordable(collection), NEW price \in Nat, NEW order, NEW asset,
         asset.itemType \notin CurrencyTypes,
         order.consideration = <<asset>> \o OfferFees(collection, price)
  PROVE  AddsUp(order, collection, price, FALSE, FALSE)
<1> DEFINE token == resolveOfferPaymentToken(collection)
           recipients == Recipients(collection, Nothing, FALSE, FALSE)
           fees == getFees(collection, Nothing, token, price, FALSE, FALSE)
           no == FALSE
<1>1. fees \in Seq(CurrencyItems(recipients, token)) /\ OfferFees(collection, price) = fees
  <2> HIDE DEF no
  <2>1. Fit(getFees(collection, Nothing, token, price, no, no), collection, Nothing, token, price, no, no)
    BY FeesFit
  <2>2. /\ getFees(collection, Nothing, token, price, no, no)
             \in Seq(CurrencyItems(Recipients(collection, Nothing, no, no), token))
    BY <2>1 DEF Fit
  <2> QED
    BY <2>2 DEF OfferFees, no
<1> HIDE DEF token, recipients, fees, no
<1>2. order.consideration \in {fees \o <<>>, fees \o <<asset>>, <<asset>> \o fees}
  BY <1>1
<1>3. Payments(order) = fees
  <2>1. Asks(order, fees, asset, recipients, token)
    BY <1>1, <1>2 DEF Asks
  <2> QED
    BY <2>1, PaymentsAre
<1>4. PaysInFull(order, collection, price, Nothing, no)
  <2>1. Payments(order) = getFees(collection, Nothing, token, price, no, no)
    BY <1>3 DEF fees, no
  <2> QED
    BY <2>1, PaidInFull
<1> QED
  BY <1>4 DEF AddsUp, PaysInFull, no

-----------------------------------------------------------------------------
(* What is signed                                                          *)

\* Stages before the signature.
BeforeSigning == {"start", "nft", "collection", "build", "price"}

\* The first n orders asked for have a price.
Priced(n) == \A i \in 1..n : PriceOf(i).ok

\* What has been prepared is what was asked for, up to the order the call is at,
\* and what has been signed was made of it.
SignedFollowsPrepared ==
  /\ creation \in Creations \/ stage = "idle"
  /\ stage \in BeforeSigning \cup {"idle", "sign", "post", "settled"}
  /\ stage \in BeforeSigning \cup {"idle", "sign"} => signed = <<>>
  /\ stage \in BeforeSigning =>
       /\ at \in Nat \ {0} /\ (Len(creation.orders) > 0 => at <= Len(creation.orders))
       /\ stage = "start" => at = 1
       /\ stage # "start" => Len(creation.orders) > 0
       /\ PricedTogether(creation) => metadata = <<>>
       /\ ~PricedTogether(creation) =>
            metadata = [i \in 1..(at - 1) |-> Prepared(i)] /\ Priced(at - 1)
       /\ ~Batch(creation) => at = 1
  /\ stage = "sign" \/ signed # <<>> =>
       /\ metadata = [i \in 1..Len(creation.orders) |-> Prepared(i)]
       /\ Priced(Len(creation.orders))
  /\ signed # <<>> =>
       /\ AllSupported
       /\ signed = [i \in 1..Len(creation.orders) |-> OrderAt(i)]

\* Prices are made of the call, orders of the call and of what is prepared.
LEMMA SameCreation ==
  ASSUME creation' = creation
  PROVE  /\ \A i : PriceOf(i)' = PriceOf(i) /\ Prepared(i)' = Prepared(i)
         /\ AllSupported' = AllSupported
         /\ metadata' = metadata => \A i : OrderAt(i)' = OrderAt(i)
<1>1. \A i : CollectionAt(i)' = CollectionAt(i)
  BY DEF CollectionAt
<1>2. \A i : TokenOf(i)' = TokenOf(i)
  BY <1>1 DEF TokenOf, PaymentToken, Side
<1>3. \A i : PriceOf(i)' = PriceOf(i)
  BY <1>2 DEF PriceOf, getPriceParameters, Side
<1>4. \A i : Prepared(i)' = Prepared(i)
  BY <1>3 DEF Prepared
<1>5. AllSupported' = AllSupported
  BY DEF AllSupported
<1>6. ASSUME metadata' = metadata PROVE \A i : OrderAt(i)' = OrderAt(i)
  BY <1>1, <1>6 DEF OrderAt, preparedFor, Built, Side
<1> QED
  BY <1>3, <1>4, <1>5, <1>6

\* A list of the values of a function on 1..n, with the next one.
LEMMA OneMore ==
  ASSUME NEW n \in Nat, NEW f
  PROVE  Append([i \in 1..n |-> f[i]], f[n + 1]) = [i \in 1..(n + 1) |-> f[i]]
<1> DEFINE s == [i \in 1..n |-> f[i]]
           t == [i \in 1..(n + 1) |-> f[i]]
           S == {f[i] : i \in 1..(n + 1)}
<1>1. s \in Seq(S) /\ Len(s) = n /\ f[n + 1] \in S
  OBVIOUS
<1>2. n + 1 \in Nat /\ t \in Seq(S) /\ Len(t) = n + 1
  OBVIOUS
<1>3. \A i \in 1..n : s[i] = f[i] /\ t[i] = f[i]
  OBVIOUS
<1>4. t[n + 1] = f[n + 1]
  OBVIOUS
<1> HIDE DEF s, t, S
<1>5. Append(s, f[n + 1]) \in Seq(S) /\ Len(Append(s, f[n + 1])) = n + 1
  BY <1>1
<1>6. \A i \in 1..(n + 1) : Append(s, f[n + 1])[i] = t[i]
  BY <1>1, <1>3, <1>4
<1>7. Append(s, f[n + 1]) = t
  BY <1>2, <1>5, <1>6, SeqEqual
<1> QED
  BY <1>7 DEF s, t

\* A step that leaves what was prepared and signed, and ends or goes on posting.
LEMMA KeepsSigned ==
  ASSUME SignedFollowsPrepared, stage # "idle", stage' \in {"post", "settled"},
         creation' = creation, metadata' = metadata, signed' = signed
  PROVE  SignedFollowsPrepared'
<1>1. creation \in Creations
  BY DEF SignedFollowsPrepared
<1>2. ASSUME signed # <<>>
      PROVE  /\ (metadata = [i \in 1..Len(creation.orders) |-> Prepared(i)])'
             /\ Priced(Len(creation.orders))'
             /\ AllSupported'
             /\ (signed = [i \in 1..Len(creation.orders) |-> OrderAt(i)])'
  BY <1>2, SameCreation DEF SignedFollowsPrepared, Priced
<1> QED
  BY <1>1, <1>2 DEF SignedFollowsPrepared, BeforeSigning

\* A step from one preparation of an order to the next.
LEMMA KeepsPreparing ==
  ASSUME SignedFollowsPrepared, stage \in BeforeSigning, stage' \in BeforeSigning \ {"start"},
         Len(creation.orders) > 0, creation' = creation, metadata' = metadata,
         signed' = signed, at' = at
  PROVE  SignedFollowsPrepared'
<1>1. ~PricedTogether(creation) => (metadata = [i \in 1..(at - 1) |-> Prepared(i)] /\ Priced(at - 1))'
  BY SameCreation DEF SignedFollowsPrepared, Priced
<1> QED
  BY <1>1 DEF SignedFollowsPrepared, BeforeSigning

\* A call that is not for many orders has at most one.
LEMMA OneOrder ==
  ASSUME creation \in Creations
  PROVE  /\ Len(creation.orders) \in Nat /\ DOMAIN creation.orders = 1..Len(creation.orders)
         /\ ~Batch(creation) /\ Len(creation.orders) > 0 => Len(creation.orders) = 1
<1>1. Len(creation.orders) \in Nat /\ DOMAIN creation.orders = 1..Len(creation.orders)
  BY CreationsAssumption
<1>2. creation.method \notin BulkMethods => Len(creation.orders) = 1
  BY CreationsAssumption
<1> DEFINE n == Len(creation.orders)
<1>3. ~Batch(creation) /\ n > 0 => n = 1
  <2>1. n \in Nat /\ (creation.method \notin BulkMethods => n = 1)
    BY <1>1, <1>2
  <2>2. Batch(creation) <=> creation.method \in BulkMethods /\ n > 1
    BY DEF Batch
  <2> HIDE DEF n
  <2> QED
    BY <2>1, <2>2
<1> QED
  BY <1>1, <1>3

\* The steps that price an order, price all orders and have them signed.
LEMMA PriceOrderKeepsSigned ==
  ASSUME SignedFollowsPrepared, PriceOrder
  PROVE  SignedFollowsPrepared'
<1> DEFINE n == Len(creation.orders)
<1>1. /\ stage = "price" /\ ~PricedTogether(creation) /\ creation' = creation /\ signed' = signed
      /\ signed = <<>> /\ creation \in Creations /\ at \in Nat \ {0} /\ n > 0 /\ at <= n
      /\ metadata = [i \in 1..(at - 1) |-> Prepared(i)] /\ Priced(at - 1)
      /\ ~Batch(creation) => at = 1
  BY DEF PriceOrder, SignedFollowsPrepared, BeforeSigning
<1>2. n \in Nat /\ (~Batch(creation) => n = 1)
  BY <1>1, OneOrder
<1>3. CASE Reject /\ metadata' = metadata
  BY <1>1, <1>3, KeepsSigned DEF Reject, Settle
<1>4. CASE /\ PriceOf(at).ok /\ metadata' = Append(metadata, Prepared(at))
           /\ IF Batch(creation) /\ ~LastOrder
              THEN Goto("nft") /\ at' = at + 1
              ELSE Goto("sign") /\ at' = 1
  <2> DEFINE f == [i \in 1..at |-> Prepared(i)]
  <2>1. at - 1 \in Nat /\ (at - 1) + 1 = at /\ at \in 1..at
    BY <1>1
  <2>2. metadata = [i \in 1..(at - 1) |-> f[i]] /\ Prepared(at) = f[at]
    BY <1>1
  <2>3. f = [i \in 1..at |-> f[i]]
    OBVIOUS
  <2> HIDE DEF f
  <2>4. metadata' = f
    BY <1>4, <2>1, <2>2, <2>3, OneMore
  <2>5. Priced(at)
    BY <1>1, <1>4 DEF Priced
  <2>6. ASSUME NEW m \in Nat, m = at
        PROVE  metadata' = [i \in 1..m |-> Prepared(i)'] /\ (\A i \in 1..m : PriceOf(i).ok')
    BY <1>1, <2>4, <2>5, <2>6, SameCreation DEF f, Priced
  <2>7. CASE Batch(creation) /\ ~LastOrder
    <3>1. /\ stage' = "nft" /\ at' = at + 1 /\ at + 1 <= n /\ at' - 1 = at /\ at' \in Nat \ {0}
      BY <1>1, <1>2, <1>4, <2>7 DEF LastOrder, Goto
    <3>2. (metadata = [i \in 1..(at - 1) |-> Prepared(i)])' /\ Priced(at - 1)'
      BY <1>1, <2>6, <3>1 DEF Priced
    <3> QED
      BY <1>1, <2>7, <3>1, <3>2 DEF SignedFollowsPrepared, BeforeSigning
  <2>8. CASE ~(Batch(creation) /\ ~LastOrder)
    <3>1. stage' = "sign" /\ at = n
      BY <1>1, <1>2, <1>4, <2>8 DEF LastOrder, Goto
    <3>2. (metadata = [i \in 1..Len(creation.orders) |-> Prepared(i)])' /\ Priced(Len(creation.orders))'
      BY <1>1, <1>2, <2>6, <3>1 DEF Priced
    <3> QED
      BY <1>1, <3>1, <3>2 DEF SignedFollowsPrepared, BeforeSigning
  <2> QED
    BY <2>7, <2>8
<1> QED
  BY <1>3, <1>4 DEF PriceOrder

LEMMA PriceTogetherKeepsSigned ==
  ASSUME SignedFollowsPrepared, PriceTogether
  PROVE  SignedFollowsPrepared'
<1> DEFINE n == Len(creation.orders)
<1>1. /\ stage = "price" /\ creation' = creation /\ signed' = signed
      /\ signed = <<>> /\ creation \in Creations
  BY DEF PriceTogether, SignedFollowsPrepared, BeforeSigning
<1>2. DOMAIN creation.orders = 1..n
  BY <1>1, OneOrder
<1>3. CASE Reject /\ metadata' = metadata
  BY <1>1, <1>3, KeepsSigned DEF Reject, Settle
<1>4. CASE /\ \A i \in DOMAIN creation.orders : PriceOf(i).ok
           /\ metadata' = [i \in DOMAIN creation.orders |-> Prepared(i)] /\ Goto("sign")
  <2>1. (metadata = [i \in 1..Len(creation.orders) |-> Prepared(i)])' /\ Priced(Len(creation.orders))'
    BY <1>1, <1>2, <1>4, SameCreation DEF Priced
  <2> QED
    BY <1>1, <1>4, <2>1 DEF SignedFollowsPrepared, BeforeSigning, Goto
<1> QED
  BY <1>3, <1>4 DEF PriceTogether

LEMMA SignKeepsSigned ==
  ASSUME SignedFollowsPrepared, Sign
  PROVE  SignedFollowsPrepared'
<1>1. /\ stage = "sign" /\ creation' = creation /\ metadata' = metadata /\ creation \in Creations
      /\ metadata = [i \in 1..Len(creation.orders) |-> Prepared(i)]
      /\ Priced(Len(creation.orders))
  BY DEF Sign, SignedFollowsPrepared, BeforeSigning
<1>2. DOMAIN creation.orders = 1..Len(creation.orders)
  BY <1>1, OneOrder
<1>3. CASE Reject /\ signed' = signed
  BY <1>1, <1>3, KeepsSigned DEF Reject, Settle
<1>4. CASE /\ AllSupported /\ signed' = [i \in DOMAIN creation.orders |-> OrderAt(i)]
           /\ IF creation.method \in BuildMethods THEN Settle("returned") ELSE Goto("post")
  <2>1. stage' \in {"settled", "post"}
    BY <1>4 DEF Settle, Goto
  <2>2. /\ (metadata = [i \in 1..Len(creation.orders) |-> Prepared(i)])'
        /\ Priced(Len(creation.orders))' /\ AllSupported'
        /\ (signed = [i \in 1..Len(creation.orders) |-> OrderAt(i)])'
    BY <1>1, <1>2, <1>4, SameCreation DEF Priced
  <2> QED
    BY <1>1, <2>1, <2>2 DEF SignedFollowsPrepared, BeforeSigning
<1> QED
  BY <1>3, <1>4 DEF Sign

\* What the wallet signed is made of what was asked for.
THEOREM SignedInvariant == Spec => []SignedFollowsPrepared
<1>1. Init => SignedFollowsPrepared
  <2> SUFFICES ASSUME Init PROVE SignedFollowsPrepared
    OBVIOUS
  <2>1. ASSUME NEW c \in Creations, NEW tokens, OrdersStart(c, tokens)
        PROVE  SignedFollowsPrepared
    <3>1. /\ creation \in Creations /\ stage = "start" /\ at = 1 /\ metadata = <<>> /\ signed = <<>>
      BY <2>1 DEF OrdersStart
    <3>2. Len(creation.orders) \in Nat
      BY <3>1, OneOrder
    <3>3. metadata = [i \in 1..(at - 1) |-> Prepared(i)] /\ Priced(at - 1)
      BY <3>1 DEF Priced
    <3> QED
      BY <3>1, <3>2, <3>3 DEF SignedFollowsPrepared, BeforeSigning
  <2>2. CASE OrdersIdle
    BY <2>2 DEF OrdersIdle, SignedFollowsPrepared, BeforeSigning
  <2> QED
    BY <2>1, <2>2 DEF Init
<1>2. SignedFollowsPrepared /\ [Next]_vars => SignedFollowsPrepared'
  <2> SUFFICES ASSUME SignedFollowsPrepared, [Next]_vars
               PROVE  SignedFollowsPrepared'
    OBVIOUS
  <2>1. CASE UNCHANGED ordersVars
    <3>1. creation' = creation /\ stage' = stage /\ at' = at /\ metadata' = metadata /\ signed' = signed
      BY <2>1 DEF ordersVars
    <3>2. /\ \A n : Priced(n)' = Priced(n)
          /\ \A i : Prepared(i)' = Prepared(i) /\ OrderAt(i)' = OrderAt(i)
          /\ AllSupported' = AllSupported
      BY <3>1, SameCreation DEF Priced
    <3> QED
      BY <3>1, <3>2 DEF SignedFollowsPrepared
  <2>2. CASE RequireAccount
    <3>1. CASE Reject
      BY <2>2, <3>1, KeepsSigned DEF RequireAccount, Reject, Settle
    <3>2. CASE /\ Len(creation.orders) > 0
               /\ Goto(IF creation.method = "createCollectionOffer" THEN "collection" ELSE "nft")
      BY <2>2, <3>2, KeepsPreparing DEF RequireAccount, Goto, BeforeSigning
    <3> QED
      BY <2>2, <3>1, <3>2 DEF RequireAccount
  <2>3. CASE GetNFT
    <3>1. CASE Reject
      BY <2>3, <3>1, KeepsSigned DEF GetNFT, Reject, Settle
    <3>2. CASE Goto("collection")
      <4>1. Len(creation.orders) > 0
        BY <2>3 DEF GetNFT, SignedFollowsPrepared, BeforeSigning
      <4> QED
        BY <2>3, <3>2, <4>1, KeepsPreparing DEF GetNFT, Goto, BeforeSigning
    <3> QED
      BY <2>3, <3>1, <3>2 DEF GetNFT
  <2>4. CASE GetCollection
    <3>0. stage = "collection" /\ UNCHANGED <<creation, metadata, decimalsKnown, signed, posts, successful, progress>>
      BY <2>4 DEF GetCollection
    <3>1. CASE Reject
      BY <3>0, <3>1, KeepsSigned DEF Reject, Settle
    <3>2. CASE Goto(IF creation.method = "createCollectionOffer" THEN "build" ELSE "price") /\ at' = at
      <4>1. Len(creation.orders) > 0
        BY <3>0 DEF SignedFollowsPrepared, BeforeSigning
      <4> QED
        BY <3>0, <3>2, <4>1, KeepsPreparing DEF Goto, BeforeSigning
    <3>3. CASE /\ PricedTogether(creation) /\ ~LastOrder /\ Goto("nft") /\ at' = at + 1
      <4>1. /\ creation \in Creations /\ signed = <<>> /\ metadata = <<>> /\ at \in Nat \ {0}
            /\ Len(creation.orders) > 0 /\ at <= Len(creation.orders) /\ Batch(creation)
        BY <3>0, <3>3 DEF SignedFollowsPrepared, BeforeSigning, PricedTogether
      <4>2. Len(creation.orders) \in Nat /\ at # Len(creation.orders)
        BY <3>3, <4>1, OneOrder DEF LastOrder
      <4>3. at' \in Nat \ {0} /\ at' <= Len(creation.orders) /\ stage' = "nft"
        BY <3>3, <4>1, <4>2 DEF Goto
      <4> QED
        BY <3>0, <3>3, <4>1, <4>3 DEF SignedFollowsPrepared, BeforeSigning
    <3> QED
      BY <2>4, <3>1, <3>2, <3>3 DEF GetCollection
  <2>5. CASE BuildOffer
    <3>1. CASE Reject
      BY <2>5, <3>1, KeepsSigned DEF BuildOffer, Reject, Settle
    <3>2. CASE Goto("price")
      <4>1. Len(creation.orders) > 0
        BY <2>5 DEF BuildOffer, SignedFollowsPrepared, BeforeSigning
      <4> QED
        BY <2>5, <3>2, <4>1, KeepsPreparing DEF BuildOffer, Goto, BeforeSigning
    <3> QED
      BY <2>5, <3>1, <3>2 DEF BuildOffer
  <2>6. CASE PriceOrder
    BY <2>6, PriceOrderKeepsSigned
  <2>7. CASE PriceTogether
    BY <2>7, PriceTogetherKeepsSigned
  <2>8. CASE Sign
    BY <2>8, SignKeepsSigned
  <2>9. CASE PostOne
    BY <2>9, KeepsSigned DEF PostOne, Reject, Settle
  <2>10. CASE PostNext
    BY <2>10, KeepsSigned DEF PostNext, Proceed, Settle, Goto
  <2> QED
    BY <2>1, <2>2, <2>3, <2>4, <2>5, <2>6, <2>7, <2>8, <2>9, <2>10
       DEF Next, OrdersNext, ValidateOnchain, vars
<1> QED
  BY <1>1, <1>2, PTL DEF Spec

\* The first of a list that begins with an element.
LEMMA HeadOfOne ==
  \A e, recipients, token :
    \A t \in Seq(CurrencyItems(recipients, token)) : (<<e>> \o t)[1] = e
  OBVIOUS

\* What the API knows of an order that is asked for.
LEMMA AskedFor ==
  ASSUME creation \in Creations, NEW i \in 1..Len(creation.orders)
  PROVE  LET item == creation.orders[i] IN
         /\ item.buyer # MarketplaceFeeRecipient
         /\ Side(creation) \in {"listing", "offer"}
         /\ Side(creation) = "offer" => item.buyer = Nothing
         /\ creation.account \notin {Nothing, MarketplaceFeeRecipient}
         /\ creation.method # "createCollectionOffer" =>
              item.asset \in DOMAIN NFTs /\ NFTs[item.asset].tokenStandard # "ERC20"
         /\ creation.method = "createCollectionOffer" => Side(creation) = "offer"
         /\ Affordable(CollectionAt(i))
         /\ TokenOf(i) \in {ZERO_ADDRESS} \cup DOMAIN Decimals
         /\ item.amount # Nothing => /\ item.amount.digits \in Nat /\ item.amount.frac \in Nat
                                     /\ item.amount.exp \in Int /\ item.amount.negative \in BOOLEAN
<1> DEFINE item == creation.orders[i]
<1>1. item \in Range(creation.orders)
  BY OneOrder DEF Range
<1> HIDE DEF item
<1>2. /\ creation.account \notin {Nothing, MarketplaceFeeRecipient}
      /\ item.asset \in IF creation.method = "createCollectionOffer"
                        THEN DOMAIN Collections ELSE DOMAIN NFTs
      /\ item.buyer # MarketplaceFeeRecipient
      /\ Side(creation) = "offer" => item.buyer = Nothing
  BY <1>1, CreationsAssumption
<1>3. item.amount # Nothing => /\ item.amount.digits \in Nat /\ item.amount.frac \in Nat
                               /\ item.amount.exp \in Int /\ item.amount.negative \in BOOLEAN
  BY <1>1, AmountsAssumption
<1>4. /\ Side(creation) \in {"listing", "offer"}
      /\ creation.method = "createCollectionOffer" => Side(creation) = "offer"
  BY DEF Side, ListingMethods
<1>5. item.asset \in DOMAIN NFTs => /\ NFTs[item.asset].collection \in DOMAIN Collections
                                    /\ NFTs[item.asset].tokenStandard # "ERC20"
  BY CollectionsAssumption
<1>6. PICK slug \in DOMAIN Collections : CollectionAt(i) = Collections[slug]
  BY <1>2, <1>5 DEF CollectionAt, item
<1>7. /\ PaymentToken(Side(creation), Collections[slug]) \in {ZERO_ADDRESS} \cup DOMAIN Decimals
      /\ Affordable(Collections[slug])
  BY <1>4, CollectionsAssumption DEF Affordable
<1> QED
  BY <1>2, <1>3, <1>4, <1>5, <1>6, <1>7 DEF TokenOf, item

\* An order that is made of what was prepared for it is what was asked for.
LEMMA OrderIsAsked ==
  ASSUME creation \in Creations, NEW i \in 1..Len(creation.orders),
         metadata = [j \in 1..Len(creation.orders) |-> Prepared(j)],
         PriceOf(i).ok, AllSupported
  PROVE  LET item == creation.orders[i]
             order == OrderAt(i)
             listing == Side(creation) = "listing"
             asset == (IF listing THEN order.offer ELSE order.consideration)[1]
             price == Asked(item, TokenOf(i))
         IN  /\ AddsUp(order, CollectionAt(i), price, listing, item.buyer # Nothing)
             /\ asset.amount = item.quantity
             /\ asset.identifier = IF creation.method = "createCollectionOffer"
                                   THEN "criteria" ELSE NFTs[item.asset].identifier
             /\ item.amount # Nothing /\ (item.amount.negative => item.amount.digits = 0)
             /\ listing \/ order.offer[1].amount = price
<1> DEFINE item == creation.orders[i]
           order == OrderAt(i)
           listing == Side(creation) = "listing"
           collection == CollectionAt(i)
           account == creation.account
           price == Asked(item, TokenOf(i))
           nft == NFTs[item.asset]
           fees == OfferFees(collection, price)
<1>1. /\ item.buyer # MarketplaceFeeRecipient /\ account \notin {Nothing, MarketplaceFeeRecipient}
      /\ ~listing => item.buyer = Nothing
      /\ creation.method = "createCollectionOffer" => ~listing
      /\ Affordable(collection)
  BY AskedFor
<1>2. /\ item.amount # Nothing /\ (item.amount.negative => item.amount.digits = 0)
      /\ PriceOf(i).value = price /\ price \in Nat
  <2> DEFINE token == TokenOf(i)
             side == Side(creation)
  <2>1. /\ token \in {ZERO_ADDRESS} \cup DOMAIN Decimals
        /\ item.amount # Nothing => /\ item.amount.digits \in Nat /\ item.amount.frac \in Nat
                                    /\ item.amount.exp \in Int /\ item.amount.negative \in BOOLEAN
    BY AskedFor
  <2>2. PriceOf(i) = getPriceParameters(side, token, item.amount)
    BY DEF PriceOf
  <2> HIDE DEF item, token, side
  <2>3. /\ item.amount # Nothing /\ (item.amount.negative => item.amount.digits = 0)
        /\ getPriceParameters(side, token, item.amount).value = Asked(item, token)
        /\ Asked(item, token) \in Nat
    BY <2>1, <2>2, PriceIsAsked
  <2> QED
    BY <2>2, <2>3 DEF token
<1>3. preparedFor(i).price = price /\ preparedFor(i).asset = item.asset
  <2>1. metadata[i] = Prepared(i)
    OBVIOUS
  <2> QED
    BY <1>2, <2>1 DEF preparedFor, Prepared
<1>4. creation.method # "createCollectionOffer" => nft.tokenStandard \notin CurrencyTypes
  <2>1. creation.method # "createCollectionOffer" => nft.tokenStandard # "ERC20"
    BY AskedFor
  <2>2. i \in DOMAIN creation.orders
    BY OneOrder
  <2> QED
    BY <2>1, <2>2 DEF AllSupported, Supported, ItemTypes, CurrencyTypes
<1>5. CASE creation.method = "createCollectionOffer"
  <2> DEFINE asset == To(account, Built(i).item)
  <2>1. /\ order.consideration = <<asset>> \o fees
        /\ order.offer[1].amount = price
    <3> DEFINE built == Built(i)
               plain == Order(account, Bid(collection, price), <<asset>> \o fees, built.zone)
    <3>1. order = CollectionOfferOrder(built, collection, price, account)
      <4>1. OrderAt(i) = CollectionOfferOrder(Built(i), CollectionAt(i), preparedFor(i).price,
                                              creation.account)
        BY <1>1, <1>5 DEF OrderAt
      <4> QED
        BY <1>3, <4>1
    <3>2. order = [plain EXCEPT !.restrictedByZone = TRUE]
      BY <3>1 DEF CollectionOfferOrder
    <3>3. /\ plain.consideration = <<asset>> \o fees
          /\ plain.offer = Bid(collection, price)
          /\ DOMAIN plain = {"offerer", "offer", "consideration", "zone", "restrictedByZone"}
      BY DEF Order
    <3>4. Bid(collection, price)[1].amount = price
      BY DEF Bid, Currency
    <3> HIDE DEF plain
    <3>5. order.consideration = plain.consideration /\ order.offer = plain.offer
      BY <3>2, <3>3
    <3> QED
      BY <3>3, <3>4, <3>5
  <2>2. asset.itemType = "ERC721" /\ asset.amount = item.quantity /\ asset.identifier = "criteria"
    BY DEF To, Built
  <2> HIDE DEF item, order, collection, price, asset, fees, account
  <2>3. AddsUp(order, collection, price, FALSE, FALSE)
    BY <1>1, <1>2, <2>1, <2>2, OfferAddsUp DEF CurrencyTypes, fees
  <2>4. order.consideration[1] = asset
    BY <2>1, HeadOfOne
  <2> QED
    BY <1>1, <1>2, <1>5, <2>1, <2>2, <2>3, <2>4
       DEF item, order, collection, price
<1>6. CASE listing
  <2>1. order = ListingOrder(item, nft, collection, price, account)
    BY <1>1, <1>3, <1>6 DEF OrderAt
  <2> DEFINE private == item.buyer # Nothing
  <2>2. nft.tokenStandard \notin CurrencyTypes /\ creation.method # "createCollectionOffer"
    BY <1>1, <1>4, <1>6
  <2> HIDE DEF item, order, collection, price, nft, account, listing
  <2>3. ListingIsAsked(order, item, nft, collection, price)
    BY <1>1, <1>2, <2>1, <2>2, ListingAddsUp
  <2> QED
    BY <1>2, <1>6, <2>2, <2>3 DEF item, order, collection, price, nft, listing, ListingIsAsked
<1>7. CASE ~listing /\ creation.method # "createCollectionOffer"
  <2> DEFINE assets == getNFTItems(nft, item.quantity)
             asset == To(account, assets[1])
  <2>1. order = OfferOrder(item, nft, collection, price, account)
    BY <1>3, <1>7 DEF OrderAt
  <2>2. /\ order.consideration = <<asset>> \o fees
        /\ order.offer[1].amount = price
    BY <2>1 DEF OfferOrder, Order, Bid, Currency
  <2>3. /\ asset.itemType = nft.tokenStandard /\ asset.amount = item.quantity
        /\ asset.identifier = nft.identifier
    BY DEF To, getNFTItems
  <2>4. asset.itemType \notin CurrencyTypes
    BY <1>4, <1>7, <2>3
  <2> HIDE DEF item, order, collection, price, asset, fees, account, nft
  <2>5. AddsUp(order, collection, price, FALSE, FALSE)
    BY <1>1, <1>2, <2>2, <2>4, OfferAddsUp DEF fees
  <2>6. order.consideration[1] = asset
    BY <2>2, HeadOfOne
  <2> QED
    BY <1>1, <1>2, <1>7, <2>2, <2>3, <2>5, <2>6
       DEF item, order, collection, price, nft
<1> QED
  BY <1>5, <1>6, <1>7

\* What is signed, made of what was prepared, is what was asked for.
LEMMA SignedIsAsked ==
  ASSUME SignedFollowsPrepared
  PROVE  SignedAsAsked /\ FeesAddUp
<1>1. CASE signed = <<>>
  BY <1>1 DEF SignedAsAsked, FeesAddUp
<1>2. CASE signed # <<>>
  <2> DEFINE n == Len(creation.orders)
  <2>1. /\ creation \in Creations /\ AllSupported /\ Priced(n)
        /\ metadata = [j \in 1..n |-> Prepared(j)]
        /\ signed = [i \in 1..n |-> OrderAt(i)]
    BY <1>2 DEF SignedFollowsPrepared
  <2>2. n \in Nat
    BY <2>1, OneOrder
  <2>3. Len(signed) = n /\ DOMAIN signed = 1..n
    <3> HIDE DEF n
    <3> QED
      BY <2>1, <2>2, LengthOfMap
  <2>4. ASSUME NEW i \in DOMAIN signed
        PROVE  LET item == creation.orders[i]
                   order == signed[i]
                   listing == Side(creation) = "listing"
                   asset == (IF listing THEN order.offer ELSE order.consideration)[1]
                   price == Asked(item, TokenOf(i))
               IN  /\ AddsUp(order, CollectionAt(i), price, listing, item.buyer # Nothing)
                   /\ asset.amount = item.quantity
                   /\ asset.identifier = IF creation.method = "createCollectionOffer"
                                         THEN "criteria" ELSE NFTs[item.asset].identifier
                   /\ item.amount # Nothing /\ (item.amount.negative => item.amount.digits = 0)
                   /\ listing \/ order.offer[1].amount = price
    <3>1. i \in 1..n /\ signed[i] = OrderAt(i) /\ PriceOf(i).ok
      BY <2>1, <2>3 DEF Priced
    <3> QED
      BY <2>1, <3>1, OrderIsAsked
  <2>5. SignedAsAsked
    BY <2>3, <2>4 DEF SignedAsAsked
  <2>6. FeesAddUp
    BY <2>4 DEF FeesAddUp, AddsUp, Paid
  <2> QED
    BY <2>5, <2>6
<1> QED
  BY <1>1, <1>2

\* The wallet signs for what was asked: every order of a call or none, each for its
\* own asset, quantity and price (orders.ts:736-839, 927-1002).
THEOREM SignedAsAskedHolds == Spec => []SignedAsAsked
<1>1. SignedFollowsPrepared => SignedAsAsked
  BY SignedIsAsked
<1> QED
  BY <1>1, SignedInvariant, PTL

\* The payments of a listing come to its price but for less than a unit each, and
\* every fee the collection requires is paid, whatever the fees and the price are
\* (orders.ts:125-172, fees.ts).
THEOREM FeesAddUpHolds == Spec => []FeesAddUp
<1>1. SignedFollowsPrepared => FeesAddUp
  BY SignedIsAsked
<1> QED
  BY <1>1, SignedInvariant, PTL

-----------------------------------------------------------------------------
(* Private listings                                                        *)

\* A listing that pays in one currency, to anyone but the buyer, and hands its
\* asset to the buyer.
IsPrivateListing(order, fees, asset, buyer, recipients, token) ==
  /\ fees \in Seq(CurrencyItems(recipients, token)) /\ fees # <<>>
  /\ \A payment \in Range(fees) : payment.recipient # buyer
  /\ asset.itemType \notin CurrencyTypes /\ asset.amount \in Nat
  /\ order.offer = <<asset>>
  /\ order.consideration = fees \o <<To(buyer, asset)>>

\* Its items, place by place.
LEMMA ItemsOfPrivateListing ==
  ASSUME NEW order, NEW fees, NEW asset, NEW buyer, NEW recipients, NEW token,
         IsPrivateListing(order, fees, asset, buyer, recipients, token)
  PROVE  LET n == Len(fees)
             items == order.consideration
             last == To(buyer, asset)
         IN  /\ n \in Nat \ {0} /\ Len(items) = n + 1 /\ DOMAIN items = 1..(n + 1)
             /\ DOMAIN fees = 1..n
             /\ items \in Seq(CurrencyItems(recipients, token) \cup {last})
             /\ \A i \in 1..n : /\ items[i] = fees[i] /\ isCurrencyItem(items[i])
                                /\ fees[i] \in CurrencyItems(recipients, token)
             /\ items[n + 1] = last /\ ~isCurrencyItem(last)
             /\ last.recipient = buyer /\ last.amount = asset.amount
             /\ \A k \in {"itemType", "token", "identifier"} : last[k] = asset[k]
<1> DEFINE n == Len(fees)
           items == order.consideration
           last == To(buyer, asset)
           C == CurrencyItems(recipients, token)
           S == C \cup {last}
<1>1. /\ fees \in Seq(C) /\ fees # <<>> /\ items = fees \o <<last>>
      /\ asset.itemType \notin CurrencyTypes
  BY DEF IsPrivateListing
<1>2. /\ last.itemType = asset.itemType /\ last.recipient = buyer /\ last.amount = asset.amount
      /\ \A k \in {"itemType", "token", "identifier"} : last[k] = asset[k]
  BY DEF To
<1>3. ~isCurrencyItem(last)
  BY <1>1, <1>2 DEF isCurrencyItem
<1>4. \A item \in C : isCurrencyItem(item)
  BY DEF CurrencyItems, isCurrencyItem, CurrencyTypes
<1> HIDE DEF last, C, items
<1>5. /\ fees \in Seq(S) /\ <<last>> \in Seq(S) /\ Len(<<last>>) = 1 /\ <<last>>[1] = last
      /\ n \in Nat \ {0} /\ DOMAIN fees = 1..n /\ \A i \in 1..n : fees[i] \in C
  <2>1. n # 0
    BY <1>1, EmptySeq
  <2> QED
    BY <1>1, <2>1
<1>6. /\ items \in Seq(S) /\ Len(items) = n + 1 /\ DOMAIN items = 1..(n + 1)
      /\ \A i \in 1..n : items[i] = fees[i]
      /\ items[n + 1] = last
  BY <1>1, <1>5
<1> QED
  BY <1>2, <1>3, <1>4, <1>5, <1>6 DEF last, C, items

\* The counter order offers the sum of the payments, which is also what is sent in
\* native currency if that is what they are in.
LEMMA CounterOffersPayments ==
  ASSUME NEW order, NEW fees, NEW asset, NEW buyer, NEW recipients, NEW token,
         IsPrivateListing(order, fees, asset, buyer, recipients, token)
  PROVE  LET counter == constructPrivateListingCounterOrder(order, buyer)
             one == [itemType |-> IF token = ZERO_ADDRESS THEN "NATIVE" ELSE "ERC20",
                     token |-> token, identifier |-> "0", amount |-> Total(Amounts(fees))]
         IN  /\ PaymentItems(order, buyer) = fees
             /\ counter.ok /\ counter.value.offer = <<one>>
             /\ computePrivateListingValue(order, buyer) =
                  IF token = ZERO_ADDRESS THEN Total(Amounts(fees)) ELSE 0
<1> DEFINE n == Len(fees)
           items == order.consideration
           last == To(buyer, asset)
           C == CurrencyItems(recipients, token)
           S == C \cup {last}
           K == {item \in Range(items) : item.recipient # buyer}
           counter == constructPrivateListingCounterOrder(order, buyer)
           type == IF token = ZERO_ADDRESS THEN "NATIVE" ELSE "ERC20"
           one == [itemType |-> type, token |-> token, identifier |-> "0",
                   amount |-> Total(Amounts(fees))]
<1>1. /\ fees \in Seq(C) /\ fees # <<>> /\ items = fees \o <<last>>
      /\ \A payment \in Range(fees) : payment.recipient # buyer
      /\ last.recipient = buyer
  BY DEF IsPrivateListing, To
<1>2. /\ n \in Nat \ {0} /\ DOMAIN fees = 1..n /\ \A i \in 1..n : fees[i] \in C
  BY ItemsOfPrivateListing
<1>3. \A item \in C : /\ item.itemType = type /\ item.token = token /\ item.identifier = "0"
                      /\ isCurrencyItem(item)
  BY DEF CurrencyItems, isCurrencyItem, CurrencyTypes
<1>4. PaymentItems(order, buyer) = fees
  <2>1. PaymentItems(order, buyer) = Filter(fees \o <<last>>, K)
    BY <1>1 DEF PaymentItems
  <2>2. fees \in Seq(S) /\ last \in S
    BY <1>1
  <2>3. <<last>> \in Seq(S) /\ Range(<<last>>) = {last}
    BY <2>2, RangeOfOne
  <2>4. Range(items) = Range(fees) \cup {last}
    <3> DEFINE rest == <<last>>
    <3> HIDE DEF last, items, C, S, rest
    <3>1. Range(fees \o rest) = Range(fees) \cup Range(rest)
      <4>1. rest \in Seq(S)
        BY <2>3 DEF rest
      <4> QED
        BY <2>2, <4>1, RangeOfConcat, Zenon
    <3> QED
      BY <1>1, <2>3, <3>1 DEF rest
  <2>5. Range(fees) \subseteq K /\ Range(<<last>>) \cap K = {}
    BY <1>1, <2>3, <2>4
  <2> HIDE DEF last, items, C, S, K
  <2>6. Filter(fees \o <<last>>, K) = Filter(fees, K)
    <3> DEFINE rest == <<last>>
    <3>1. rest \in Seq(S) /\ Range(rest) \cap K = {}
      BY <2>3, <2>5
    <3> HIDE DEF rest
    <3>2. Filter(fees \o rest, K) = Filter(fees, K)
      BY <2>2, <3>1, FilterOfConcat, ZenonT(60)
    <3> QED
      BY <3>2 DEF rest
  <2>7. Filter(fees, K) = fees
    BY <2>2, <2>5, FilterOfAll, Zenon
  <2> QED
    BY <2>1, <2>6, <2>7
<1>5. SumOver(fees, LAMBDA item : item.amount) = Total(Amounts(fees))
  BY DEF SumOver, Amounts
<1>6. counter.ok /\ counter.value.offer = <<one>>
  <2>1. fees[1].itemType = type /\ fees[1].token = token /\ fees[1].identifier = "0"
    BY <1>2, <1>3
  <2>2. \A i \in DOMAIN fees : /\ isCurrencyItem(fees[i]) /\ fees[i].itemType = fees[1].itemType
                               /\ fees[i].token = fees[1].token
    BY <1>2, <1>3, <2>1
  <2> HIDE DEF type
  <2>3. counter = Returns(Order(buyer, <<one>>, <<>>, order.zone))
    BY <1>1, <1>4, <1>5, <2>1, <2>2 DEF constructPrivateListingCounterOrder
  <2> QED
    BY <2>3 DEF Returns, Order
<1>7. computePrivateListingValue(order, buyer) = IF token = ZERO_ADDRESS THEN Total(Amounts(fees)) ELSE 0
  <2> DEFINE N == {item \in Range(fees) : item.token = ZERO_ADDRESS /\ item.itemType = "NATIVE"}
  <2>1. computePrivateListingValue(order, buyer) = SumOver(Filter(fees, N), LAMBDA item : item.amount)
    BY <1>4 DEF computePrivateListingValue
  <2>2. \A item \in Range(fees) : item \in C
    BY <1>2 DEF Range
  <2>3. CASE token = ZERO_ADDRESS
    <3>1. Range(fees) \subseteq N
      BY <1>3, <2>2, <2>3
    <3>2. Filter(fees, N) = fees
      <4> HIDE DEF N, C
      <4> QED
        BY <1>1, <3>1, FilterOfAll
    <3> QED
      BY <1>5, <2>1, <2>3, <3>2
  <2>4. CASE token # ZERO_ADDRESS
    <3>1. Range(fees) \cap N = {}
      BY <1>3, <2>2, <2>4
    <3>2. Filter(fees, N) = <<>>
      <4> HIDE DEF N, C
      <4> QED
        BY <1>1, <3>1, FilterOfAll
    <3>3. SumOver(<<>>, LAMBDA item : item.amount) = Total(<<>>)
      <4>1. [i \in DOMAIN <<>> |-> <<>>[i].amount] = <<>>
        OBVIOUS
      <4> QED
        BY <4>1 DEF SumOver
    <3> QED
      BY <2>1, <2>4, <3>2, <3>3, TotalOfEmpty
  <2> QED
    BY <2>3, <2>4
<1> QED
  BY <1>4, <1>6, <1>7

\* The fulfillments: the asset with the item behind the payments, and what the buyer
\* offers with every payment.
LEMMA FulfillmentsPair ==
  ASSUME NEW order, NEW fees, NEW asset, NEW buyer, NEW recipients, NEW token,
         IsPrivateListing(order, fees, asset, buyer, recipients, token)
  PROVE  getPrivateListingFulfillments(order) =
           Returns(<<Fulfillment(0, 1, Len(fees) + 1)>>
                   \o [i \in 1..Len(fees) |-> Fulfillment(1, 1, i)])
<1> DEFINE n == Len(fees)
           items == order.consideration
           last == To(buyer, asset)
           K == {i \in DOMAIN items : isCurrencyItem(items[i])}
           places == [i \in DOMAIN items |-> i]
           first == [i \in 1..n |-> i]
           payments == Filter(places, K)
           assets == [i \in DOMAIN order.offer |->
                        Fulfillment(0, i, Matching(order, order.offer[i]))]
<1>1. /\ n \in Nat \ {0} /\ Len(items) = n + 1 /\ DOMAIN items = 1..(n + 1)
      /\ \A i \in 1..n : isCurrencyItem(items[i])
      /\ items[n + 1] = last /\ ~isCurrencyItem(last)
      /\ \A k \in {"itemType", "token", "identifier"} : last[k] = asset[k]
  <2>1. n \in Nat \ {0} /\ Len(items) = n + 1 /\ DOMAIN items = 1..(n + 1) /\ ~isCurrencyItem(last)
    BY ItemsOfPrivateListing
  <2>3. \A k \in {"itemType", "token", "identifier"} : last[k] = asset[k]
    BY DEF To
  <2>4. items[n + 1] = last
    <3>1. items = fees \o <<last>> /\ fees \in Seq(CurrencyItems(recipients, token))
      BY DEF IsPrivateListing
    <3> HIDE DEF items, last
    <3> QED
      BY <3>1
  <2>2. \A i \in 1..n : /\ items[i] = fees[i] /\ isCurrencyItem(items[i])
                        /\ fees[i] \in CurrencyItems(recipients, token)
    BY ItemsOfPrivateListing
  <2> QED
    BY <2>1, <2>2, <2>3, <2>4
<1>0. order.offer = <<asset>>
  BY DEF IsPrivateListing
<1>2. payments = first
  <2>1. K = 1..n
    <3> HIDE DEF n, items, last
    <3> QED
      BY <1>1
  <2> HIDE DEF n, items, last, K
  <2>2. first \in Seq(Nat) /\ Len(first) = n /\ DOMAIN first = 1..n
    BY <1>1
  <2>3. <<n + 1>> \in Seq(Nat) /\ Range(<<n + 1>>) = {n + 1}
    <3>1. n + 1 \in Nat
      BY <1>1
    <3> QED
      BY <3>1, RangeOfOne, Zenon
  <2>4. places = first \o <<n + 1>>
    BY <1>1
  <2>5. Range(first) \subseteq K /\ Range(<<n + 1>>) \cap K = {}
    BY <1>1, <2>1, <2>2, <2>3 DEF Range
  <2> DEFINE rest == <<n + 1>>
  <2> HIDE DEF first, places, rest
  <2>6. Filter(first \o rest, K) = Filter(first, K)
    <3>1. rest \in Seq(Nat) /\ Range(rest) \cap K = {}
      BY <2>3, <2>5 DEF rest
    <3> QED
      BY <2>2, <3>1, FilterOfConcat, Zenon
  <2>7. Filter(first, K) = first
    BY <2>2, <2>5, FilterOfAll, Zenon
  <2> QED
    BY <2>4, <2>6, <2>7 DEF rest
<1>3. Matching(order, asset) = n + 1
  <2> DEFINE I == {i \in 1..Len(items) : /\ items[i].itemType = asset.itemType
                                         /\ items[i].token = asset.token
                                         /\ items[i].identifier = asset.identifier}
  <2>1. I = {n + 1}
    <3>1. \A i \in 1..n : items[i].itemType # asset.itemType
      BY <1>1 DEF isCurrencyItem
    <3>2. /\ items[n + 1].itemType = asset.itemType /\ items[n + 1].token = asset.token
          /\ items[n + 1].identifier = asset.identifier
      BY <1>1
    <3> HIDE DEF n, items, last
    <3> QED
      BY <1>1, <3>1, <3>2
  <2>2. Matching(order, asset) = IF I # {} THEN Min(I) ELSE 0
    BY DEF Matching, SelectInSeq
  <2>3. Min({n + 1}) = n + 1
    BY <1>1 DEF Min
  <2> QED
    BY <2>1, <2>2, <2>3
<1>4. assets = <<Fulfillment(0, 1, n + 1)>>
  <2>1. DOMAIN order.offer = {1} /\ order.offer[1] = asset
    BY <1>0
  <2> HIDE DEF n
  <2> QED
    BY <1>3, <2>1
<1>5. ~ \E i \in DOMAIN assets : assets[i].consideration = 0
  <2>1. DOMAIN assets = {1} /\ assets[1].consideration = n + 1
    BY <1>4 DEF Fulfillment
  <2> HIDE DEF assets, n
  <2> QED
    BY <1>1, <2>1
<1>6. [i \in DOMAIN payments |-> Fulfillment(1, 1, payments[i])] = [i \in 1..n |-> Fulfillment(1, 1, i)]
  BY <1>2
<1>7. getPrivateListingFulfillments(order) =
        IF \E i \in DOMAIN assets : assets[i].consideration = 0
        THEN Throws ELSE Returns(assets \o [i \in DOMAIN payments |-> Fulfillment(1, 1, payments[i])])
  BY DEF getPrivateListingFulfillments
<1> HIDE DEF assets, payments
<1> QED
  BY <1>4, <1>5, <1>6, <1>7

\* The fulfillments, place by place.
LEMMA PlacesOfFulfillments ==
  ASSUME NEW n \in Nat
  PROVE  LET all == <<Fulfillment(0, 1, n + 1)>> \o [i \in 1..n |-> Fulfillment(1, 1, i)]
         IN  /\ Len(all) = n + 1 /\ DOMAIN all = 1..(n + 1)
             /\ all[1] = Fulfillment(0, 1, n + 1)
             /\ \A j \in 2..(n + 1) : all[j] = Fulfillment(1, 1, j - 1)
<1> DEFINE rest == [i \in 1..n |-> Fulfillment(1, 1, i)]
           S == [offer : {<<0, 1>>, <<1, 1>>}, consideration : Nat]
           one == Fulfillment(0, 1, n + 1)
<1>1. \A i \in 1..n : Fulfillment(1, 1, i) \in S
  BY DEF Fulfillment
<1>2. one \in S
  BY DEF Fulfillment
<1> HIDE DEF S, one
<1>3. rest \in Seq(S) /\ Len(rest) = n
  BY <1>1
<1>4. \A i \in 1..n : rest[i] = Fulfillment(1, 1, i)
  OBVIOUS
<1> HIDE DEF rest
<1>5. /\ Len(<<one>> \o rest) = n + 1 /\ DOMAIN (<<one>> \o rest) = 1..(n + 1)
      /\ (<<one>> \o rest)[1] = one
      /\ \A j \in 2..(n + 1) : (<<one>> \o rest)[j] = rest[j - 1] /\ j - 1 \in 1..n
  BY <1>2, <1>3
<1> QED
  BY <1>4, <1>5 DEF one, rest

\* What a list of fulfillments pays out of one offer item.
PaidOut(order, fulfillments, offered) ==
  LET from == Filter(fulfillments, {f \in Range(fulfillments) : f.offer = offered}) IN
  Total([j \in DOMAIN from |-> order.consideration[from[j].consideration].amount])

\* The asset is paid out once, and every payment once out of their sum.
LEMMA PaidOutOnce ==
  ASSUME NEW order, NEW fees, NEW asset, NEW buyer, NEW recipients, NEW token,
         IsPrivateListing(order, fees, asset, buyer, recipients, token)
  PROVE  LET all == <<Fulfillment(0, 1, Len(fees) + 1)>>
                    \o [i \in 1..Len(fees) |-> Fulfillment(1, 1, i)]
         IN  /\ PaidOut(order, all, <<0, 1>>) = asset.amount
             /\ PaidOut(order, all, <<1, 1>>) = Total(Amounts(fees))
<1> DEFINE n == Len(fees)
           items == order.consideration
           rest == [i \in 1..n |-> Fulfillment(1, 1, i)]
           one == Fulfillment(0, 1, n + 1)
           all == <<one>> \o rest
           S == [offer : {<<0, 1>>, <<1, 1>>}, consideration : Nat]
           From(offered) == {f \in Range(all) : f.offer = offered}
<1>1. n \in Nat /\ DOMAIN fees = 1..n /\ asset.amount \in Nat
  BY ItemsOfPrivateListing DEF IsPrivateListing
<1>2. /\ \A i \in 1..n : items[i] = fees[i]
      /\ items[n + 1].amount = asset.amount
  <2>1. items = fees \o <<To(buyer, asset)>> /\ fees \in Seq(CurrencyItems(recipients, token))
    BY DEF IsPrivateListing
  <2>2. To(buyer, asset).amount = asset.amount
    BY DEF To
  <2> HIDE DEF items
  <2>3. \A i \in 1..n : items[i] = fees[i]
    BY <2>1
  <2>4. items[n + 1] = To(buyer, asset)
    BY <2>1
  <2> QED
    BY <2>2, <2>3, <2>4
<1>3. /\ one \in S /\ one.offer = <<0, 1>> /\ one.consideration = n + 1
      /\ \A i \in 1..n : /\ Fulfillment(1, 1, i) \in S /\ Fulfillment(1, 1, i).offer = <<1, 1>>
                         /\ Fulfillment(1, 1, i).consideration = i
  <2>1. n + 1 \in Nat
    BY <1>1
  <2> HIDE DEF n
  <2> QED
    BY <2>1 DEF Fulfillment
<1>4. <<0, 1>> # <<1, 1>>
  OBVIOUS
<1> HIDE DEF n, items, one, S
<1>5. rest \in Seq(S) /\ DOMAIN rest = 1..n /\ \A i \in 1..n : rest[i] = Fulfillment(1, 1, i)
  BY <1>1, <1>3
<1> HIDE DEF rest
<1>6. <<one>> \in Seq(S) /\ Range(<<one>>) = {one}
  BY <1>3, RangeOfOne, Zenon
<1>7. Range(all) = {one} \cup Range(rest)
  <2>1. Range(<<one>> \o rest) = Range(<<one>>) \cup Range(rest)
    BY <1>5, <1>6, RangeOfConcat, Zenon
  <2> QED
    BY <1>6, <2>1
<1>8. \A f \in Range(rest) : f.offer = <<1, 1>>
  BY <1>3, <1>5 DEF Range
<1>9. PaidOut(order, all, <<0, 1>>) = asset.amount
  <2> DEFINE K == From(<<0, 1>>)
             first == <<one>>
  <2>1. Range(first) \subseteq K /\ Range(rest) \cap K = {}
    BY <1>3, <1>4, <1>6, <1>7, <1>8
  <2>6. first \in Seq(S)
    BY <1>6
  <2> HIDE DEF K, first
  <2>2. Filter(first \o rest, K) = Filter(first, K)
    BY <1>5, <2>1, <2>6, FilterOfConcat, Zenon
  <2>3. Filter(first, K) = first
    BY <2>1, <2>6, FilterOfAll, Zenon
  <2>4. [j \in DOMAIN <<one>> |-> items[<<one>>[j].consideration].amount] = <<asset.amount>>
    <3>1. DOMAIN <<one>> = {1} /\ <<one>>[1] = one
      OBVIOUS
    <3>2. items[one.consideration].amount = asset.amount
      BY <1>2, <1>3
    <3> QED
      BY <3>1, <3>2
  <2>5. PaidOut(order, all, <<0, 1>>) = Total(<<asset.amount>>)
    BY <2>2, <2>3, <2>4 DEF PaidOut, K, first, items
  <2> QED
    BY <1>1, <2>5, TotalOfOne
<1>10. PaidOut(order, all, <<1, 1>>) = Total(Amounts(fees))
  <2> DEFINE K == From(<<1, 1>>)
             first == <<one>>
  <2>1. Range(rest) \subseteq K /\ Range(first) \cap K = {}
    BY <1>3, <1>4, <1>6, <1>7, <1>8
  <2>7. first \in Seq(S)
    BY <1>6
  <2> HIDE DEF K, first
  <2>2. Filter(first \o rest, K) = Filter(first, K) \o rest
    <3>1. \A t \in Seq(S) : Range(t) \subseteq K => Filter(first \o t, K) = Filter(first, K) \o t
      BY <2>7, FilterOfConcat
    <3>2. rest \in Seq(S)
      BY <1>5
    <3> QED
      BY <2>1, <3>1, <3>2
  <2>3. Filter(first, K) = <<>>
    BY <2>1, <2>7, FilterOfAll, Zenon
  <2>4. <<>> \o rest = rest
    BY <1>5
  <2>5. [j \in DOMAIN rest |-> items[rest[j].consideration].amount] = Amounts(fees)
    BY <1>1, <1>2, <1>3, <1>5 DEF Amounts
  <2>6. Filter(first \o rest, K) = rest
    BY <2>2, <2>3, <2>4
  <2> QED
    BY <2>5, <2>6 DEF PaidOut, K, first, items
<1> QED
  BY <1>9, <1>10 DEF all, one, rest, n

\* A private listing that pays no one who is its buyer can be matched.
LEMMA PrivateListingMatches ==
  ASSUME NEW order, NEW fees, NEW asset, NEW buyer, NEW recipients, NEW token,
         IsPrivateListing(order, fees, asset, buyer, recipients, token)
  PROVE  LET counter == constructPrivateListingCounterOrder(order, buyer)
             fulfillments == getPrivateListingFulfillments(order)
         IN  /\ counter.ok /\ fulfillments.ok
             /\ Matches(order, counter.value, fulfillments.value,
                        computePrivateListingValue(order, buyer))
<1> DEFINE n == Len(fees)
           items == order.consideration
           total == Total(Amounts(fees))
           type == IF token = ZERO_ADDRESS THEN "NATIVE" ELSE "ERC20"
           one == [itemType |-> type, token |-> token, identifier |-> "0", amount |-> total]
           counter == constructPrivateListingCounterOrder(order, buyer).value
           all == <<Fulfillment(0, 1, n + 1)>> \o [i \in 1..n |-> Fulfillment(1, 1, i)]
           value == computePrivateListingValue(order, buyer)
           Offered(f) == (IF f.offer[1] = 0 THEN order ELSE counter).offer[f.offer[2]]
           Wanted(f) == items[f.consideration]
<1>1. /\ constructPrivateListingCounterOrder(order, buyer).ok /\ counter.offer = <<one>>
      /\ value = IF token = ZERO_ADDRESS THEN total ELSE 0
  BY CounterOffersPayments
<1>2. getPrivateListingFulfillments(order).ok /\ getPrivateListingFulfillments(order).value = all
  <2>1. getPrivateListingFulfillments(order) = Returns(all)
    BY FulfillmentsPair
  <2> HIDE DEF all
  <2> QED
    BY <2>1 DEF Returns
<1>3. /\ order.offer = <<asset>> /\ asset.amount \in Nat
      /\ fees \in Seq(CurrencyItems(recipients, token))
      /\ items = fees \o <<To(buyer, asset)>>
  BY DEF IsPrivateListing
<1>4. n \in Nat \ {0} /\ DOMAIN items = 1..(n + 1)
  BY ItemsOfPrivateListing
<1>5. total \in Nat
  <2>1. Amounts(fees) \in Seq(Nat)
    BY <1>3, AmountsAre
  <2> QED
    BY <2>1, TotalOfNaturals
<1>6. \A k \in {"itemType", "token", "identifier"} :
        /\ items[n + 1][k] = asset[k]
        /\ \A i \in 1..n : items[i][k] = one[k]
  <2> DEFINE last == To(buyer, asset)
  <2>1. \A k \in {"itemType", "token", "identifier"} : last[k] = asset[k]
    BY DEF To
  <2>2. \A item \in CurrencyItems(recipients, token) :
          item.itemType = type /\ item.token = token /\ item.identifier = "0"
    BY DEF CurrencyItems
  <2>3. one.itemType = type /\ one.token = token /\ one.identifier = "0"
    OBVIOUS
  <2> HIDE DEF last, items, one, type
  <2>4. items[n + 1] = last
    BY <1>3 DEF last
  <2>5. \A i \in 1..n : items[i] \in CurrencyItems(recipients, token)
    BY <1>3
  <2> QED
    BY <2>1, <2>2, <2>3, <2>4, <2>5
<1>7. /\ DOMAIN all = 1..(n + 1)
      /\ all[1] = Fulfillment(0, 1, n + 1)
      /\ \A j \in 2..(n + 1) : all[j] = Fulfillment(1, 1, j - 1)
  <2>1. n \in Nat
    BY <1>4
  <2> HIDE DEF n
  <2> QED
    BY <2>1, PlacesOfFulfillments
<1>8. PaidOut(order, all, <<0, 1>>) = asset.amount /\ PaidOut(order, all, <<1, 1>>) = total
  BY PaidOutOnce
<1> HIDE DEF n, items, total, one, counter, all, value
<1>13. /\ all[1].offer = <<0, 1>> /\ all[1].consideration = n + 1
       /\ \A j \in 2..(n + 1) : all[j].offer = <<1, 1>> /\ all[j].consideration = j - 1
  <2>1. \A a, b : Fulfillment(a, 1, b).offer = <<a, 1>> /\ Fulfillment(a, 1, b).consideration = b
    BY DEF Fulfillment
  <2> QED
    BY <1>7, <2>1
<1>9. ASSUME NEW i \in DOMAIN items
      PROVE  Cardinality({j \in DOMAIN all : all[j].consideration = i}) = 1
  <2> DEFINE place == IF i = n + 1 THEN 1 ELSE i + 1
  <2>2. {j \in DOMAIN all : all[j].consideration = i} = {place}
    BY <1>4, <1>7, <1>13
  <2> QED
    BY <2>2, FS_Singleton
<1>10. ASSUME NEW j \in DOMAIN all
       PROVE  LET f == all[j] IN
                /\ f.offer[2] \in DOMAIN (IF f.offer[1] = 0 THEN order ELSE counter).offer
                /\ \A k \in {"itemType", "token", "identifier"} : Offered(f)[k] = Wanted(f)[k]
                /\ PaidOut(order, all, f.offer) <= Offered(f).amount
  <2>1. CASE j = 1
    <3>1. all[j].offer = <<0, 1>> /\ all[j].consideration = n + 1
      BY <1>13, <2>1
    <3>2. all[j].offer[1] = 0 /\ all[j].offer[2] = 1
      BY <3>1
    <3>3. DOMAIN order.offer = {1} /\ order.offer[1] = asset
      BY <1>3
    <3>4. Offered(all[j]) = asset /\ Wanted(all[j]) = items[n + 1]
      BY <3>1, <3>2, <3>3
    <3>5. PaidOut(order, all, all[j].offer) <= Offered(all[j]).amount
      BY <1>3, <1>8, <3>1, <3>4
    <3> HIDE DEF Offered, Wanted
    <3> QED
      BY <1>6, <3>2, <3>3, <3>4, <3>5
  <2>2. CASE j # 1
    <3>0. j \in 2..(n + 1) /\ j - 1 \in 1..n
      BY <1>4, <1>7, <2>2
    <3>1. all[j].offer = <<1, 1>> /\ all[j].consideration = j - 1
      BY <1>13, <3>0
    <3>2. all[j].offer[1] = 1 /\ all[j].offer[2] = 1
      BY <3>1
    <3>3. DOMAIN counter.offer = {1} /\ counter.offer[1] = one
      BY <1>1
    <3>4. Offered(all[j]) = one /\ Wanted(all[j]) = items[j - 1]
      BY <3>1, <3>2, <3>3
    <3>5. PaidOut(order, all, all[j].offer) <= Offered(all[j]).amount
      <4>1. one.amount = total
        BY DEF one
      <4> QED
        BY <1>5, <1>8, <3>1, <3>4, <4>1
    <3> HIDE DEF Offered, Wanted
    <3> QED
      BY <1>6, <3>0, <3>2, <3>3, <3>4, <3>5
  <2> QED
    BY <2>1, <2>2
<1>11. value >= SumOver(Filter(counter.offer, {item \in Range(counter.offer) : item.itemType = "NATIVE"}),
                        LAMBDA item : item.amount)
  <2> DEFINE N == {item \in Range(<<one>>) : item.itemType = "NATIVE"}
             kept == Filter(<<one>>, N)
  <2>1. <<one>> \in Seq({one}) /\ Range(<<one>>) = {one}
    BY RangeOfOne
  <2>2. one.itemType = type /\ one.amount = total
    BY DEF one
  <2>3. CASE token = ZERO_ADDRESS
    <3>1. Range(<<one>>) \subseteq N
      BY <2>1, <2>2, <2>3
    <3>2. kept = <<one>>
      <4> HIDE DEF N
      <4> QED
        BY <2>1, <3>1, FilterOfAll
    <3>3. [i \in DOMAIN <<one>> |-> <<one>>[i].amount] = <<total>>
      <4>1. DOMAIN <<one>> = {1} /\ <<one>>[1] = one
        OBVIOUS
      <4> QED
        BY <2>2, <4>1
    <3> HIDE DEF kept
    <3>4. SumOver(kept, LAMBDA item : item.amount) = Total(<<total>>)
      BY <3>2, <3>3 DEF SumOver
    <3>5. Total(<<total>>) = total
      BY <1>5, TotalOfOne
    <3> QED
      BY <1>1, <1>5, <2>3, <3>4, <3>5 DEF kept
  <2>4. CASE token # ZERO_ADDRESS
    <3>1. Range(<<one>>) \cap N = {}
      BY <2>1, <2>2, <2>4
    <3>2. kept = <<>>
      <4> HIDE DEF N
      <4> QED
        BY <2>1, <3>1, FilterOfAll
    <3>3. [i \in DOMAIN <<>> |-> <<>>[i].amount] = <<>>
      OBVIOUS
    <3> HIDE DEF kept
    <3>4. SumOver(kept, LAMBDA item : item.amount) = Total(<<>>)
      BY <3>2, <3>3 DEF SumOver
    <3> QED
      BY <1>1, <2>4, <3>4, TotalOfEmpty DEF kept
  <2> QED
    BY <2>3, <2>4
<1>12. Matches(order, counter, all, value)
  BY <1>9, <1>10, <1>11 DEF Matches, PaidOut, SumOver, items
<1> QED
  BY <1>1, <1>2, <1>12 DEF counter, value

\* A listing with a buyer is a private listing of its collection's fees.
LEMMA ListingIsPrivate ==
  ASSUME NEW item, NEW nft, nft.tokenStandard \notin CurrencyTypes, item.quantity \in Nat,
         NEW collection, Affordable(collection), NEW price \in Nat,
         NEW account, account # Nothing, item.buyer # Nothing,
         NEW order, order = ListingOrder(item, nft, collection, price, account),
         \A payment \in Range(Payments(order)) : payment.recipient # item.buyer
  PROVE  LET token == ListingPaymentToken(collection) IN
         IsPrivateListing(order, getFees(collection, account, token, price, item.optionalFees, TRUE),
                          getNFTItems(nft, item.quantity)[1], item.buyer,
                          Recipients(collection, account, item.optionalFees, TRUE), token)
<1> DEFINE assets == getNFTItems(nft, item.quantity)
           token == ListingPaymentToken(collection)
           recipients == Recipients(collection, account, item.optionalFees, TRUE)
           fees == getFees(collection, account, token, price, item.optionalFees, TRUE)
           asset == assets[1]
           buyer == item.buyer
<1>1. /\ order.offer = assets
      /\ order.consideration = fees \o getPrivateListingConsiderations(assets, buyer)
  <2> DEFINE zone == ZoneOf(item, collection, ZERO_ADDRESS)
  <2>1. (item.buyer # Nothing) = TRUE
    OBVIOUS
  <2>2. order = Order(account, assets, fees \o getPrivateListingConsiderations(assets, buyer), zone)
    BY <2>1 DEF ListingOrder
  <2> HIDE DEF assets, fees, zone
  <2> QED
    BY <2>2 DEF Order
<1>2. /\ assets = <<asset>> /\ asset.amount = item.quantity /\ asset.itemType = nft.tokenStandard
      /\ DOMAIN assets = {1}
  BY DEF getNFTItems
<1>3. getPrivateListingConsiderations(assets, buyer) = <<To(buyer, asset)>>
  BY <1>2 DEF getPrivateListingConsiderations
<1>4. /\ fees \in Seq(CurrencyItems(recipients, token))
      /\ price - Len(fees) < Total(Amounts(fees))
  <2>1. Fit(fees, collection, account, token, price, item.optionalFees, TRUE)
    BY FeesFit
  <2> QED
    BY <2>1 DEF Fit
<1>5. fees # <<>>
  <2>1. Len(<<>>) = 0 /\ Amounts(<<>>) = <<>>
    BY DEF Amounts
  <2> HIDE DEF fees
  <2> QED
    BY <1>4, <2>1, TotalOfEmpty
<1> HIDE DEF assets, token, recipients, fees
<1>6. Payments(order) = fees
  <2> DEFINE last == To(buyer, asset)
  <2>1. last.itemType \notin CurrencyTypes
    BY <1>2 DEF To
  <2> HIDE DEF last
  <2>2. Asks(order, fees, last, recipients, token)
    BY <1>1, <1>3, <1>4, <2>1 DEF Asks, last
  <2> QED
    BY <2>2, PaymentsAre
<1>7. IsPrivateListing(order, fees, asset, buyer, recipients, token)
  BY <1>1, <1>2, <1>3, <1>4, <1>5, <1>6 DEF IsPrivateListing
<1> QED
  BY <1>7 DEF assets, token, recipients, fees

\* What is signed for a buyer can be matched.
LEMMA SignedFills ==
  ASSUME SignedFollowsPrepared
  PROVE  PrivateListingFills
<1> SUFFICES ASSUME NEW i \in DOMAIN signed,
                    creation.orders[i].buyer # Nothing,
                    \A p \in Range(Payments(signed[i])) : p.recipient # creation.orders[i].buyer
             PROVE  LET order == signed[i]
                        buyer == creation.orders[i].buyer
                        counter == constructPrivateListingCounterOrder(order, buyer)
                        fulfillments == getPrivateListingFulfillments(order)
                    IN  /\ counter.ok /\ fulfillments.ok
                        /\ Matches(order, counter.value, fulfillments.value,
                                   computePrivateListingValue(order, buyer))
  BY DEF PrivateListingFills
<1> DEFINE n == Len(creation.orders)
           item == creation.orders[i]
           order == signed[i]
           collection == CollectionAt(i)
           price == PriceOf(i).value
           nft == NFTs[item.asset]
<1>1. signed # <<>>
  <2>1. DOMAIN <<>> = {}
    OBVIOUS
  <2> QED
    BY <2>1
<1>2. /\ creation \in Creations /\ AllSupported /\ Priced(n)
      /\ metadata = [j \in 1..n |-> Prepared(j)]
      /\ signed = [j \in 1..n |-> OrderAt(j)]
  BY <1>1 DEF SignedFollowsPrepared
<1>3. i \in 1..n /\ order = OrderAt(i) /\ PriceOf(i).ok /\ i \in DOMAIN creation.orders
  BY <1>2, OneOrder DEF Priced
<1>4. /\ creation.account # Nothing /\ creation.method # "createCollectionOffer"
      /\ Side(creation) = "listing" /\ Affordable(collection)
      /\ item.asset \in DOMAIN NFTs /\ nft.tokenStandard # "ERC20"
  BY <1>2, <1>3, AskedFor
<1>5. item.quantity \in Nat
  <2>1. item \in Range(creation.orders)
    BY <1>3 DEF Range
  <2> HIDE DEF item
  <2> QED
    BY <1>2, <2>1, CreationsAssumption
<1>6. nft.tokenStandard \notin CurrencyTypes
  BY <1>2, <1>3, <1>4 DEF AllSupported, Supported, ItemTypes, CurrencyTypes
<1>7. price \in Nat
  <2> DEFINE token == TokenOf(i)
             side == Side(creation)
  <2>1. /\ token \in {ZERO_ADDRESS} \cup DOMAIN Decimals
        /\ item.amount # Nothing => /\ item.amount.digits \in Nat /\ item.amount.frac \in Nat
                                    /\ item.amount.exp \in Int /\ item.amount.negative \in BOOLEAN
    BY <1>2, <1>3, AskedFor
  <2>2. PriceOf(i) = getPriceParameters(side, token, item.amount)
    BY DEF PriceOf
  <2> HIDE DEF item, token, side, price
  <2>3. /\ getPriceParameters(side, token, item.amount).value = Asked(item, token)
        /\ Asked(item, token) \in Nat
    BY <1>3, <2>1, <2>2, PriceIsAsked
  <2> QED
    BY <2>2, <2>3 DEF price
<1>8. order = ListingOrder(item, nft, collection, price, creation.account)
  <2>1. preparedFor(i).price = price /\ preparedFor(i).asset = item.asset
    <3>1. metadata[i] = Prepared(i)
      BY <1>2, <1>3
    <3> QED
      BY <3>1 DEF preparedFor, Prepared
  <2> QED
    BY <1>3, <1>4, <2>1 DEF OrderAt
<1> HIDE DEF item, order, collection, price, nft
<1>9. PICK fees, asset, recipients, token :
        IsPrivateListing(order, fees, asset, item.buyer, recipients, token)
  <2>1. item.buyer # Nothing /\ \A payment \in Range(Payments(order)) : payment.recipient # item.buyer
    BY DEF item, order
  <2> QED
    BY <1>4, <1>5, <1>6, <1>7, <1>8, <2>1, ListingIsPrivate
<1> QED
  BY <1>9, PrivateListingMatches DEF item, order

\* A private listing the SDK has built can be filled by the SDK, whatever the fees,
\* the price, the currency and the quantity are, unless the buyer is also paid by it
\* (privateListings.ts, fulfillment.ts:63-93).
THEOREM PrivateListingFillsHolds == Spec => []PrivateListingFills
<1>1. SignedFollowsPrepared => PrivateListingFills
  BY SignedFills
<1> QED
  BY <1>1, SignedInvariant, PTL

-----------------------------------------------------------------------------
(* Bulk transfers                                                          *)

\* An asset that may not be moved by itself.
Lacks(asset) == ~Approved(wallet, asset, asset.amount)

AllApproved == \A i \in DOMAIN call.assets : ~Lacks(call.assets[i])

Batches(assets) ==
  /\ assets \in Seq(Range(assets))
  /\ \A asset \in Range(assets) :
       asset.standard \in {"ERC20", "ERC721", "ERC1155"} /\ asset.amount \in Nat

\* As long as the wallet has not changed since, no asset that was looked at lacks
\* its approval unless it was noted, and what is sent lacks none; it then fails for
\* want of an approval only over an ERC-20 that is in the batch more than once.
SentApproved ==
  /\ moves \in Nat
  /\ call.kind = "bulkTransfer" =>
       /\ Batches(call.assets)
       /\ pc \in {"start", "approvals", "token", "announce", "send", "created", "wait", "settled"}
       /\ unapproved \in Seq({asset.contract : asset \in Range(call.assets)})
       /\ pc = "start" => index = 1 /\ unapproved = <<>>
       /\ pc \in {"start", "approvals", "token"} => tx = "none"
       /\ pc \in {"approvals", "token"} =>
            /\ index \in 1..Len(call.assets)
            /\ moves = 0 /\ unapproved = <<>> =>
                 \A i \in 1..(index - 1) : ~Lacks(call.assets[i])
       /\ pc = "token" => call.assets[index].standard = "ERC721"
       /\ (pc \in {"announce", "send"} \/ tx # "none") /\ moves = 0 => AllApproved
       /\ tx = "unapproved" => moves > 0 \/ (~OneEach(call.assets) /\ AllApproved)

\* A list whose only item of a set is known comes to that item.
LEMMA FilterOfOne ==
  ASSUME NEW S, NEW K
  PROVE  \A s \in Seq(S) : \A i \in DOMAIN s :
           s[i] \in K /\ (\A j \in DOMAIN s : s[j] \in K => j = i) => Filter(s, K) = <<s[i]>>
<1> DEFINE Only(s, i) == s[i] \in K /\ \A j \in DOMAIN s : s[j] \in K => j = i
           P == {s \in Seq(S) : \A i \in DOMAIN s : Only(s, i) => Filter(s, K) = <<s[i]>>}
<1>1. <<>> \in P
  OBVIOUS
<1>2. ASSUME NEW s \in Seq(S), NEW e \in S, s \in P PROVE Append(s, e) \in P
  <2> DEFINE t == Append(s, e)
             n == Len(s)
  <2>1. /\ t \in Seq(S) /\ n \in Nat /\ DOMAIN s = 1..n /\ DOMAIN t = 1..(n + 1) /\ t[n + 1] = e
        /\ \A j \in 1..n : t[j] = s[j]
    OBVIOUS
  <2>2. Filter(t, K) = IF e \in K THEN Append(Filter(s, K), e) ELSE Filter(s, K)
    BY FilterOfAppend
  <2> HIDE DEF t, n
  <2>3. ASSUME NEW i \in DOMAIN t, Only(t, i) PROVE Filter(t, K) = <<t[i]>>
    <3>1. CASE i = n + 1
      <4>1. Range(s) \cap K = {}
        <5>1. ASSUME NEW j \in 1..n PROVE s[j] \notin K
          <6>1. j # n + 1 /\ j \in 1..(n + 1)
            BY <2>1
          <6> QED
            BY <2>1, <2>3, <3>1, <6>1
        <5> QED
          BY <2>1, <5>1 DEF Range
      <4>2. Filter(s, K) = <<>>
        BY <4>1, FilterOfAll
      <4> QED
        BY <2>1, <2>2, <2>3, <3>1, <4>2
    <3>2. CASE i \in 1..n
      <4>1. e \notin K
        <5>1. n + 1 # i /\ n + 1 \in 1..(n + 1)
          BY <2>1, <3>2
        <5> QED
          BY <2>1, <2>3, <5>1
      <4>2. Only(s, i)
        <5>1. \A j \in 1..n : j \in 1..(n + 1)
          BY <2>1
        <5> QED
          BY <2>1, <2>3, <3>2, <5>1
      <4>3. Filter(s, K) = <<s[i]>>
        BY <1>2, <2>1, <3>2, <4>2
      <4> QED
        BY <2>1, <2>2, <3>2, <4>1, <4>3
    <3> QED
      BY <2>1, <2>3, <3>1, <3>2
  <2> QED
    BY <2>1, <2>3 DEF t
<1> HIDE DEF P
<1>3. \A s \in Seq(S) : s \in P
  BY <1>1, <1>2, Sums!SequenceInduction
<1> QED
  BY <1>3 DEF P

\* What may be moved one by one may be moved together if no ERC-20 is in it twice.
LEMMA ApprovedTogether ==
  ASSUME Batches(call.assets), OneEach(call.assets), AllApproved
  PROVE  Transferable(wallet, call.assets)
<1> DEFINE assets == call.assets
<1> SUFFICES ASSUME NEW i \in DOMAIN assets
             PROVE  LET same == Filter(assets, {a \in Range(assets) : a.contract = assets[i].contract})
                    IN  Approved(wallet, assets[i], SumOver(same, LAMBDA a : a.amount))
  BY DEF Transferable
<1> DEFINE K == {a \in Range(assets) : a.contract = assets[i].contract}
           asset == assets[i]
<1>1. /\ asset \in Range(assets) /\ asset.standard \in {"ERC20", "ERC721", "ERC1155"}
      /\ asset.amount \in Nat /\ Approved(wallet, asset, asset.amount)
  BY DEF Range, Batches, AllApproved, Lacks
<1>2. CASE asset.standard = "ERC20"
  <2>1. assets[i] \in K /\ \A j \in DOMAIN assets : assets[j] \in K => j = i
    BY <1>1, <1>2 DEF OneEach
  <2>2. assets \in Seq(Range(assets))
    BY DEF Batches
  <2> HIDE DEF K
  <2>3. Filter(assets, K) = <<asset>>
    BY <2>1, <2>2, FilterOfOne
  <2>4. SumOver(<<asset>>, LAMBDA a : a.amount) = asset.amount
    <3>1. [j \in DOMAIN <<asset>> |-> <<asset>>[j].amount] = <<asset.amount>>
      OBVIOUS
    <3>2. Total(<<asset.amount>>) = asset.amount
      BY <1>1, TotalOfOne
    <3> QED
      BY <3>1, <3>2 DEF SumOver
  <2> QED
    BY <1>1, <2>3, <2>4 DEF K
<1>3. CASE asset.standard \in {"ERC721", "ERC1155"}
  BY <1>1, <1>3 DEF Approved
<1> QED
  BY <1>1, <1>2, <1>3

\* No step but ValidateOnchain's changes the call; what is counted is a number.
LEMMA CallGoesOn ==
  ASSUME moves \in Nat, TransactionsNext
  PROVE  call' = call /\ moves' \in Nat
<1> USE DEF Quiet, Same, chainVars, callVars
<1>1. CASE FulfillOrder
  BY <1>1 DEF FulfillOrder
<1>2. CASE GenerateFulfillmentData
  BY <1>2 DEF GenerateFulfillmentData
<1>3. CASE ReadSpendState
  <2>1. call' = call
    BY <1>3 DEF ReadSpendState
  <2>2. moves' = moves \/ moves' = 0
    BY <1>3 DEF ReadSpendState
  <2> QED
    BY <2>1, <2>2
<1>4. CASE RequireErc20PaymentIsSpendable
  BY <1>4 DEF RequireErc20PaymentIsSpendable
<1>5. CASE IsOrderFulfillable
  BY <1>5 DEF IsOrderFulfillable
<1>6. CASE OffchainCancelOrder
  BY <1>6 DEF OffchainCancelOrder
<1>7. CASE ValidateOrder
  BY <1>7 DEF ValidateOrder
<1>8. CASE CancelOrder
  BY <1>8 DEF CancelOrder
<1>9. CASE CancelOrders
  BY <1>9 DEF CancelOrders
<1>10. CASE GetOrderByHash
  BY <1>10 DEF GetOrderByHash
<1>11. CASE MoveTokens
  BY <1>11 DEF MoveTokens
<1>12. CASE BulkStart
  BY <1>12 DEF BulkStart
<1>13. CASE CheckAssetApproval \/ GetApproved
  BY <1>13 DEF CheckAssetApproval, GetApproved
<1>14. CASE Announce \/ Send \/ AwaitReceipt \/ TransactionCreated \/ TransactionConfirmed \/ WaitRejects
  BY <1>14 DEF Announce, Send, AwaitReceipt, TransactionCreated, TransactionConfirmed, WaitRejects
<1>15. CASE Mine
  BY <1>15 DEF Mine
<1>16. CASE WalletMoves
  BY <1>16 DEF WalletMoves
<1>17. CASE OrderTaken
  BY <1>17 DEF OrderTaken
<1> QED
  BY <1>1, <1>2, <1>3, <1>4, <1>5, <1>6, <1>7, <1>8, <1>9, <1>10, <1>11, <1>12, <1>13, <1>14,
     <1>15, <1>16, <1>17 DEF TransactionsNext

\* Approvals depend on the call and the wallet alone.
LEMMA SameApprovals ==
  ASSUME call' = call, wallet' = wallet
  PROVE  /\ AllApproved' = AllApproved
         /\ \A asset : Lacks(asset)' = Lacks(asset)
  BY DEF AllApproved, Lacks, Approved

\* The steps of a bulk transfer from its announcement on.
LEMMA SendingKeepsApproved ==
  ASSUME SentApproved, call.kind = "bulkTransfer", call' = call,
         wallet' = wallet, moves' = moves, unapproved' = unapproved, index' = index,
         \/ pc = "announce" /\ pc' \in {"send", "settled"} /\ tx' = tx
         \/ pc = "send" /\ pc' \in {"created", "settled"} /\ tx' \in {tx, "pending"}
         \/ pc \in {"created", "wait"} /\ pc' \in {"wait", "settled"} /\ tx' = tx
  PROVE  SentApproved'
<1>1. AllApproved' = AllApproved
  BY SameApprovals
<1> QED
  BY <1>1 DEF SentApproved

\* The steps of a bulk transfer that mine it and that look at an asset, and all.
LEMMA MineKeepsApproved ==
  ASSUME SentApproved, call.kind = "bulkTransfer", Mine
  PROVE  SentApproved'
<1>1. /\ tx = "pending" /\ call' = call /\ pc' = pc /\ index' = index /\ unapproved' = unapproved
      /\ moves' = moves /\ wallet' = wallet
      /\ tx' # "none" /\ (tx' = "unapproved" => ~Transferable(wallet, call.assets))
  BY DEF Mine, Same, Fill, Cancel, TransferAll, Approve, OtherEffect, Revert
<1>2. moves = 0 => AllApproved
  BY <1>1 DEF SentApproved
<1>3. tx' = "unapproved" => moves > 0 \/ (~OneEach(call.assets) /\ AllApproved)
  <2>1. moves \in Nat /\ Batches(call.assets)
    BY DEF SentApproved
  <2>2. moves > 0 \/ moves = 0
    BY <2>1
  <2> QED
    BY <1>1, <1>2, <2>1, <2>2, ApprovedTogether
<1>4. AllApproved' = AllApproved
  BY <1>1, SameApprovals
<1> QED
  BY <1>1, <1>2, <1>3, <1>4 DEF SentApproved

\* What the readings of an asset come to: one more of it, a missing approval, which is
\* noted, or an approval that is there.
LEMMA AssetReadings ==
  ASSUME CheckAssetApproval \/ GetApproved,
         call.assets[index].standard \in {"ERC20", "ERC721", "ERC1155"},
         pc = "token" => call.assets[index].standard = "ERC721"
  PROVE  \/ /\ pc' = "token" /\ index' = index /\ unapproved' = unapproved /\ outcome' = outcome
            /\ call.assets[index].standard = "ERC721"
         \/ AssetChecked(FALSE)
         \/ ~Lacks(call.assets[index]) /\ AssetChecked(TRUE)
<1> DEFINE asset == call.assets[index]
<1>1. CASE CheckAssetApproval
  <2>1. approvedForAll(asset) => ~Lacks(asset)
    BY DEF approvedForAll, Lacks, Approved
  <2> HIDE DEF asset
  <2> QED
    BY <1>1, <2>1 DEF CheckAssetApproval, Continue, asset
<1>2. CASE GetApproved
  <2>1. asset.standard = "ERC721"
    BY <1>2 DEF GetApproved
  <2>2. asset.token \in wallet.tokens => ~Lacks(asset)
    BY <2>1 DEF Lacks, Approved
  <2> QED
    BY <1>2, <2>2 DEF GetApproved
<1> QED
  BY <1>1, <1>2

LEMMA CheckKeepsApproved ==
  ASSUME SentApproved, call.kind = "bulkTransfer", CheckAssetApproval \/ GetApproved
  PROVE  SentApproved'
<1> DEFINE asset == call.assets[index]
           n == Len(call.assets)
           Contracts == {a.contract : a \in Range(call.assets)}
<1>1. /\ call' = call /\ wallet' = wallet /\ moves' = moves /\ tx' = tx /\ tx = "none"
      /\ index \in 1..n /\ unapproved \in Seq(Contracts) /\ Batches(call.assets) /\ moves \in Nat
      /\ moves = 0 /\ unapproved = <<>> => \A i \in 1..(index - 1) : ~Lacks(call.assets[i])
      /\ pc = "token" => asset.standard = "ERC721"
  BY DEF CheckAssetApproval, GetApproved, Same, chainVars, SentApproved
<1>2. n \in Nat /\ DOMAIN call.assets = 1..n /\ asset.contract \in Contracts
  <2>1. n \in Nat /\ DOMAIN call.assets = 1..n
    BY <1>1 DEF Batches
  <2>2. asset \in Range(call.assets)
    BY <1>1, <2>1 DEF Range
  <2> QED
    BY <2>1, <2>2
<1>3. AllApproved' = AllApproved /\ \A a : Lacks(a)' = Lacks(a)
  BY <1>1, SameApprovals
<1>4. \/ /\ pc' = "token" /\ index' = index /\ unapproved' = unapproved /\ outcome' = outcome
         /\ asset.standard = "ERC721"
      \/ AssetChecked(FALSE)
      \/ ~Lacks(asset) /\ AssetChecked(TRUE)
  <2>1. asset \in Range(call.assets)
    BY <1>1, <1>2 DEF Range
  <2> QED
    BY <1>1, <2>1, AssetReadings DEF Batches
<1>12. CASE /\ pc' = "token" /\ index' = index /\ unapproved' = unapproved
            /\ asset.standard = "ERC721"
  BY <1>1, <1>3, <1>12 DEF SentApproved
<1> SUFFICES ASSUME AssetChecked(FALSE) \/ (~Lacks(asset) /\ AssetChecked(TRUE)) PROVE SentApproved'
  BY <1>4, <1>12
<1>13. \/ unapproved' = unapproved /\ ~Lacks(asset)
       \/ unapproved' = Append(unapproved, asset.contract)
  BY DEF AssetChecked, AddUnapproved
<1>5. unapproved' \in Seq(Contracts)
  BY <1>1, <1>2, <1>13
<1>6. unapproved' = <<>> => unapproved = <<>> /\ ~Lacks(asset)
  BY <1>1, <1>2, <1>13
<1>7. moves = 0 /\ unapproved' = <<>> => \A i \in 1..index : ~Lacks(call.assets[i])
  BY <1>1, <1>6
<1>8. \/ pc' = "approvals" /\ index' = index + 1 /\ index + 1 \in 1..n
      \/ pc' = "settled" /\ index' = index
      \/ pc' = "announce" /\ index' = index /\ index = n /\ unapproved' = <<>>
  BY <1>1, <1>2 DEF AssetChecked, Checked, Finish, Continue, ToSend, Announces
<1>9. CASE pc' = "approvals" /\ index' = index + 1 /\ index + 1 \in 1..n
  <2>1. index' - 1 = index
    BY <1>1, <1>9
  <2>2. (\A i \in 1..(index - 1) : ~Lacks(call.assets[i]))' <=>
           \A i \in 1..index : ~Lacks(call.assets[i])
    BY <1>1, <1>3, <2>1
  <2> QED
    BY <1>1, <1>5, <1>7, <1>9, <2>2 DEF SentApproved
<1>10. CASE pc' = "settled"
  BY <1>1, <1>5, <1>10 DEF SentApproved
<1>11. CASE pc' = "announce" /\ index = n /\ unapproved' = <<>>
  <2>1. moves = 0 => AllApproved
    BY <1>2, <1>7, <1>11 DEF AllApproved
  <2> QED
    BY <1>1, <1>3, <1>5, <1>11, <2>1 DEF SentApproved
<1> QED
  BY <1>8, <1>9, <1>10, <1>11

LEMMA TransfersKeepApproved ==
  ASSUME SentApproved, call.kind = "bulkTransfer", TransactionsNext
  PROVE  SentApproved'
<1>0. /\ call' = call /\ moves' \in Nat
      /\ pc \in {"start", "approvals", "token", "announce", "send", "created", "wait", "settled"}
  BY CallGoesOn DEF SentApproved
<1>1. CASE BulkStart
  <2>1. /\ pc = "start" /\ wallet' = wallet /\ tx' = tx /\ tx = "none" /\ moves' = 0
        /\ index' = index /\ index = 1 /\ unapproved' = unapproved /\ unapproved = <<>>
        /\ Batches(call.assets)
    BY <1>1 DEF BulkStart, SentApproved
  <2>2. pc' = "settled" \/ (pc' = "approvals" /\ call.assets # <<>>)
    BY <1>1 DEF BulkStart, Account, Throw, Finish, Continue
  <2>3. call.assets # <<>> => 1 \in 1..Len(call.assets)
    BY <2>1 DEF Batches
  <2>4. \A i \in 1..(1 - 1) : FALSE
    OBVIOUS
  <2> QED
    BY <1>0, <2>1, <2>2, <2>3, <2>4 DEF SentApproved
<1>2. CASE CheckAssetApproval \/ GetApproved
  BY <1>2, CheckKeepsApproved
<1>3. CASE Announce \/ Send \/ TransactionCreated \/ TransactionConfirmed \/ WaitRejects
  <2>1. /\ wallet' = wallet /\ moves' = moves /\ unapproved' = unapproved /\ index' = index
        /\ \/ pc = "announce" /\ pc' \in {"send", "settled"} /\ tx' = tx
           \/ pc = "send" /\ pc' \in {"created", "settled"} /\ tx' \in {tx, "pending"}
           \/ pc \in {"created", "wait"} /\ pc' \in {"wait", "settled"} /\ tx' = tx
    BY <1>3 DEF Announce, Send, TransactionCreated, TransactionConfirmed, WaitRejects, confirmFails,
                Fail, Finish, Continue, nextAfterSending, Quiet, Same, chainVars
  <2> QED
    BY <1>0, <2>1, SendingKeepsApproved
<1>4. CASE Mine
  BY <1>4, MineKeepsApproved
<1>5. CASE WalletMoves
  BY <1>0, <1>5 DEF WalletMoves, callVars, SentApproved
<1>6. ~(\/ FulfillOrder \/ GenerateFulfillmentData \/ ReadSpendState
        \/ RequireErc20PaymentIsSpendable \/ IsOrderFulfillable \/ OffchainCancelOrder
        \/ ValidateOrder \/ CancelOrder \/ CancelOrders \/ GetOrderByHash \/ MoveTokens
        \/ AwaitReceipt \/ OrderTaken)
  BY <1>0 DEF FulfillOrder, GenerateFulfillmentData, ReadSpendState, RequireErc20PaymentIsSpendable,
              IsOrderFulfillable, OffchainCancelOrder, ValidateOrder, CancelOrder, CancelOrders,
              GetOrderByHash, MoveTokens, AwaitReceipt, OrderTaken
<1> QED
  BY <1>1, <1>2, <1>3, <1>4, <1>5, <1>6 DEF TransactionsNext

\* What a bulk transfer sends lacks no approval that it has looked at, whatever its
\* batch holds (assets.ts:282-304); it can fail for want of one with the wallet as it
\* was only over an ERC-20 that is in the batch more than once.
THEOREM ApprovalsInvariant == Spec => []SentApproved
<1>1. Init => SentApproved
  <2> SUFFICES ASSUME Init PROVE SentApproved
    OBVIOUS
  <2>1. ASSUME NEW w, TransactionsIdle(w) PROVE SentApproved
    BY <2>1 DEF TransactionsIdle, SentApproved
  <2>2. ASSUME NEW s \in Starts, CallStart(s.call, s.listener, s.wallet) PROVE SentApproved
    <3>1. /\ call = s.call /\ pc = "start" /\ index = 1 /\ unapproved = <<>> /\ tx = "none" /\ moves = 0
      BY <2>2 DEF CallStart
    <3>2. call.kind = "bulkTransfer" => Batches(call.assets)
      BY <3>1, StartsAssumption DEF Batches
    <3> QED
      BY <3>1, <3>2 DEF SentApproved
  <2> QED
    BY <2>1, <2>2 DEF Init
<1>2. SentApproved /\ [Next]_vars => SentApproved'
  <2> SUFFICES ASSUME SentApproved, [Next]_vars PROVE SentApproved'
    OBVIOUS
  <2>1. CASE UNCHANGED txVars
    <3>1. /\ call' = call /\ pc' = pc /\ index' = index /\ unapproved' = unapproved /\ tx' = tx
          /\ moves' = moves /\ wallet' = wallet
      BY <2>1 DEF txVars, callVars, chainVars
    <3>2. /\ AllApproved' = AllApproved
          /\ \A asset : Lacks(asset)' = Lacks(asset)
      BY <3>1, SameApprovals
    <3> QED
      BY <3>1, <3>2 DEF SentApproved
  <2>2. CASE TransactionsNext
    <3>1. CASE call.kind = "bulkTransfer"
      BY <2>2, <3>1, TransfersKeepApproved
    <3>2. CASE call.kind # "bulkTransfer"
      <4>1. call' = call /\ moves' \in Nat
        BY <2>2, CallGoesOn DEF SentApproved
      <4> QED
        BY <3>2, <4>1 DEF SentApproved
    <3> QED
      BY <3>1, <3>2
  <2>3. CASE ValidateOnchain
    BY <2>3 DEF ValidateOnchain, chainVars, SentApproved
  <2> QED
    BY <2>1, <2>2, <2>3 DEF Next, vars
<1> QED
  BY <1>1, <1>2, PTL DEF Spec

\* A bulk transfer that was let through fails for want of an approval only if the
\* approvals have changed since the first was read (assets.ts:282-304, 506-569), or over
\* an ERC-20 it names more than once, each entry of which is covered alone; for batches
\* of any length and any composition.
THEOREM BulkTransferGoesThroughHolds == Spec => []BulkTransferGoesThrough
<1>1. SentApproved => BulkTransferGoesThrough
  BY DEF SentApproved, BulkTransferGoesThrough, AllApproved, Lacks
<1> QED
  BY <1>1, ApprovalsInvariant, PTL

-----------------------------------------------------------------------------
(* Batches of approvals                                                    *)

\* What a batch to approve may be, and the wallet it is for.
Approvable(assets) ==
  /\ assets \in Seq(Range(assets))
  /\ \A asset \in Range(assets) :
       /\ asset.standard \in {"ERC20", "ERC721", "ERC1155"}
       /\ asset.standard = "ERC20" <=> asset.contract = PaymentErc20
       /\ asset.standard = "ERC20" => asset.amount \in Nat /\ asset.amount <= MAX_UINT256

KeepsApprovals(w) ==
  {"allowance", "operators", "tokens"} \subseteq DOMAIN w /\ "conduit" \in DOMAIN w.allowance

\* Of the first n assets, those that lack an approval were noted.
Noted(n) == \A i \in 1..n : Lacks(call.assets[i]) => call.assets[i].contract \in Range(unapproved)

\* As long as the wallet has not changed since, the assets that were looked at and lack
\* an approval are noted, a transaction is sent for those that were noted, and one
\* that approves a single contract leaves nothing that lacks an approval.
ApprovesNoted ==
  /\ moves \in Nat
  /\ call.kind = "batchApproveAssets" =>
       /\ Approvable(call.assets) /\ KeepsApprovals(wallet)
       /\ unapproved \in Seq({asset.contract : asset \in Range(call.assets)})
       /\ pc \in {"start", "approvals", "token", "send", "created", "wait", "settled"}
       /\ pc # "settled" => outcome = "none"
       /\ pc = "start" => index = 1 /\ unapproved = <<>>
       /\ pc \in {"start", "approvals", "token", "send"} => tx = "none"
       /\ pc \in {"approvals", "token"} => /\ index \in 1..Len(call.assets)
                                           /\ moves = 0 => Noted(index - 1)
       /\ pc = "token" => call.assets[index].standard = "ERC721"
       /\ pc \in {"created", "wait"} => tx # "none"
       /\ pc = "send" \/ tx # "none" => unapproved # <<>>
       /\ (pc = "send" \/ tx = "pending") /\ moves = 0 => Noted(Len(call.assets))
       /\ tx = "success" /\ Len(unapproved) <= 1 /\ moves = 0 => AllApproved
       /\ outcome = "resolved" /\ tx = "none" /\ moves = 0 => AllApproved

\* A transaction that approves the one contract that was noted leaves nothing that
\* lacks an approval.
LEMMA OneApprovalIsEnough ==
  ASSUME Approvable(call.assets), KeepsApprovals(wallet), Noted(Len(call.assets)),
         unapproved \in Seq({asset.contract : asset \in Range(call.assets)}), Len(unapproved) = 1,
         call' = call, wallet' = approves(wallet, unapproved)
  PROVE  AllApproved'
<1> DEFINE c == unapproved[1]
<1> SUFFICES ASSUME NEW i \in DOMAIN call.assets
             PROVE  Approved(wallet', call.assets[i], call.assets[i].amount)
  BY DEF AllApproved, Lacks
<1> DEFINE asset == call.assets[i]
<1>1. i \in 1..Len(call.assets) /\ asset \in Range(call.assets)
  BY DEF Approvable, Range
<1>2. /\ asset.standard \in {"ERC20", "ERC721", "ERC1155"}
      /\ asset.standard = "ERC20" <=> asset.contract = PaymentErc20
      /\ asset.standard = "ERC20" => asset.amount \in Nat /\ asset.amount <= MAX_UINT256
  BY <1>1 DEF Approvable
<1>3. Range(unapproved) = {c}
  BY DEF Range
<1>4. Approved(wallet, asset, asset.amount) \/ asset.contract = c
  BY <1>1, <1>3 DEF Noted, Lacks
<1>5. CASE c = PaymentErc20
  <2>1. wallet' = [wallet EXCEPT !.allowance["conduit"] = MAX_UINT256]
    BY <1>5 DEF approves
  <2>2. /\ wallet'.allowance["conduit"] = MAX_UINT256
        /\ wallet'.operators = wallet.operators /\ wallet'.tokens = wallet.tokens
    BY <2>1 DEF KeepsApprovals
  <2>3. CASE asset.standard = "ERC20"
    BY <1>2, <2>2, <2>3, WalletsAssumption DEF Approved
  <2>4. CASE asset.standard # "ERC20"
    BY <1>2, <1>4, <1>5, <2>2, <2>4 DEF Approved
  <2> QED
    BY <2>3, <2>4
<1>6. CASE c # PaymentErc20
  <2>1. wallet' = [wallet EXCEPT !.operators = @ \cup {c}]
    BY <1>6 DEF approves
  <2>2. /\ wallet'.allowance = wallet.allowance /\ wallet'.tokens = wallet.tokens
        /\ wallet'.operators = wallet.operators \cup {c}
    BY <2>1 DEF KeepsApprovals
  <2>3. CASE asset.contract = c
    BY <1>2, <1>6, <2>2, <2>3 DEF Approved
  <2>4. CASE asset.contract # c
    BY <1>2, <1>4, <2>2, <2>4 DEF Approved
  <2> QED
    BY <2>3, <2>4
<1> QED
  BY <1>5, <1>6

LEMMA MineApproves ==
  ASSUME ApprovesNoted, call.kind = "batchApproveAssets", Mine
  PROVE  ApprovesNoted'
<1>1. /\ tx = "pending" /\ call' = call /\ pc' = pc /\ index' = index /\ unapproved' = unapproved
      /\ moves' = moves /\ outcome' = outcome
      /\ \/ tx' = "success" /\ wallet' = approves(wallet, unapproved)
         \/ tx' = "reverted" /\ wallet' = wallet
  BY DEF Mine, Same, Fill, Cancel, TransferAll, Approve, OtherEffect, Revert
<1>2. KeepsApprovals(wallet')
  BY <1>1 DEF ApprovesNoted, approves, KeepsApprovals
<1>3. pc \in {"created", "wait", "settled"} /\ unapproved # <<>>
  BY <1>1 DEF ApprovesNoted
<1>4. ASSUME tx' = "success", Len(unapproved) <= 1, moves = 0
      PROVE  AllApproved'
  <2> DEFINE Contracts == {asset.contract : asset \in Range(call.assets)}
  <2>1. unapproved \in Seq(Contracts) /\ unapproved # <<>> /\ Len(unapproved) <= 1
    BY <1>3, <1>4 DEF ApprovesNoted
  <2> HIDE DEF Contracts
  <2>2. Len(unapproved) \in Nat /\ Len(unapproved) # 0
    BY ONLY <2>1
  <2>3. Len(unapproved) = 1
    BY ONLY <2>1, <2>2
  <2> QED
    BY <1>1, <1>4, <2>3, OneApprovalIsEnough DEF ApprovesNoted
<1> QED
  BY <1>1, <1>2, <1>3, <1>4 DEF ApprovesNoted

LEMMA CheckNotes ==
  ASSUME ApprovesNoted, call.kind = "batchApproveAssets", CheckAssetApproval \/ GetApproved
  PROVE  ApprovesNoted'
<1> DEFINE asset == call.assets[index]
           n == Len(call.assets)
           Contracts == {a.contract : a \in Range(call.assets)}
<1>1. /\ call' = call /\ wallet' = wallet /\ moves' = moves /\ tx' = tx /\ tx = "none"
      /\ outcome = "none" /\ index \in 1..n /\ unapproved \in Seq(Contracts) /\ moves \in Nat
      /\ Approvable(call.assets) /\ KeepsApprovals(wallet) /\ (moves = 0 => Noted(index - 1))
      /\ pc = "token" => asset.standard = "ERC721"
  BY DEF CheckAssetApproval, GetApproved, Same, chainVars, ApprovesNoted
<1>2. n \in Nat /\ DOMAIN call.assets = 1..n /\ asset.contract \in Contracts
  <2>1. n \in Nat /\ DOMAIN call.assets = 1..n
    BY <1>1 DEF Approvable
  <2>2. asset \in Range(call.assets)
    BY <1>1, <2>1 DEF Range
  <2> QED
    BY ONLY <2>1, <2>2
<1>3. AllApproved' = AllApproved /\ \A a : Lacks(a)' = Lacks(a)
  BY <1>1, SameApprovals
<1>11. \/ /\ pc' = "token" /\ index' = index /\ unapproved' = unapproved /\ outcome' = outcome
          /\ asset.standard = "ERC721"
       \/ AssetChecked(FALSE)
       \/ ~Lacks(asset) /\ AssetChecked(TRUE)
  <2>1. asset \in Range(call.assets)
    BY <1>1, <1>2 DEF Range
  <2> QED
    BY <1>1, <2>1, AssetReadings DEF Approvable
<1>12. CASE /\ pc' = "token" /\ index' = index /\ unapproved' = unapproved /\ outcome' = outcome
            /\ asset.standard = "ERC721"
  <2>1. Noted(index - 1)' <=> Noted(index - 1)
    BY <1>1, <1>3, <1>12 DEF Noted
  <2> QED
    BY <1>1, <1>12, <2>1 DEF ApprovesNoted
<1> SUFFICES ASSUME AssetChecked(FALSE) \/ (~Lacks(asset) /\ AssetChecked(TRUE)) PROVE ApprovesNoted'
  BY <1>11, <1>12
<1>4. /\ unapproved' \in {unapproved, Append(unapproved, asset.contract)}
      /\ Lacks(asset) => asset.contract \in Range(unapproved')
  <2>1. unapproved' \in {unapproved, Append(unapproved, asset.contract)}
    BY DEF AssetChecked, AddUnapproved
  <2>2. ASSUME Lacks(asset), asset.contract \notin Range(unapproved)
        PROVE  unapproved' = Append(unapproved, asset.contract)
    BY <2>2 DEF AssetChecked, AddUnapproved
  <2>3. asset.contract \in Range(Append(unapproved, asset.contract))
    <3>1. Append(unapproved, asset.contract)[Len(unapproved) + 1] = asset.contract
          /\ Len(unapproved) + 1 \in DOMAIN Append(unapproved, asset.contract)
      BY <1>1, <1>2
    <3> QED
      BY <3>1 DEF Range
  <2>4. CASE unapproved' = unapproved
    BY <2>2, <2>3, <2>4
  <2>5. CASE unapproved' = Append(unapproved, asset.contract)
    BY <2>3, <2>5
  <2> QED
    BY <2>1, <2>4, <2>5
<1>5. unapproved' \in Seq(Contracts) /\ Range(unapproved) \subseteq Range(unapproved')
  <2>1. unapproved' \in Seq(Contracts)
    BY <1>1, <1>2, <1>4
  <2>2. ASSUME NEW k \in DOMAIN unapproved
        PROVE  unapproved[k] \in Range(unapproved')
    <3>1. k \in DOMAIN unapproved' /\ unapproved'[k] = unapproved[k]
      BY <1>1, <1>2, <1>4, <2>2
    <3> QED
      BY <3>1 DEF Range
  <2> QED
    BY <2>1, <2>2 DEF Range
<1>6. ASSUME moves = 0
      PROVE  \A i \in 1..index : Lacks(call.assets[i]) => call.assets[i].contract \in Range(unapproved')
  BY <1>1, <1>4, <1>5, <1>6 DEF Noted
<1>7. \/ pc' = "approvals" /\ index' = index + 1 /\ index + 1 \in 1..n /\ outcome' = outcome
      \/ pc' = "settled" /\ index' = index /\ index = n /\ unapproved' = <<>> /\ outcome' = "resolved"
      \/ pc' = "send" /\ index' = index /\ index = n /\ unapproved' # <<>> /\ outcome' = outcome
  BY <1>1, <1>2 DEF AssetChecked, Checked, Finish, Continue, ToSend, Announces
<1>8. CASE pc' = "approvals" /\ index' = index + 1 /\ index + 1 \in 1..n /\ outcome' = outcome
  <2>1. index' - 1 = index
    BY <1>1, <1>8
  <2>2. moves = 0 => Noted(index - 1)'
    BY <1>1, <1>3, <1>6, <2>1 DEF Noted
  <2> QED
    BY <1>1, <1>2, <1>5, <1>8, <2>2 DEF ApprovesNoted
<1>9. CASE pc' = "settled" /\ index = n /\ unapproved' = <<>> /\ outcome' = "resolved"
  <2>1. Range(unapproved') = {}
    BY <1>9 DEF Range
  <2>2. moves = 0 => AllApproved
    BY <1>2, <1>6, <1>9, <2>1 DEF AllApproved
  <2> QED
    BY <1>1, <1>3, <1>5, <1>9, <2>2 DEF ApprovesNoted
<1>10. CASE pc' = "send" /\ index = n /\ unapproved' # <<>> /\ outcome' = outcome
  <2>1. moves = 0 => Noted(Len(call.assets))'
    BY <1>1, <1>3, <1>6, <1>10 DEF Noted
  <2> QED
    BY <1>1, <1>5, <1>10, <2>1 DEF ApprovesNoted
<1> QED
  BY <1>7, <1>8, <1>9, <1>10

\* The steps of a batch that is approved from its transaction on, but mining it.
LEMMA ConfirmingKeepsNoted ==
  ASSUME ApprovesNoted, call.kind = "batchApproveAssets", call' = call, wallet' = wallet,
         moves' = moves, unapproved' = unapproved, index' = index,
         \/ /\ pc = "send" /\ tx' = "pending" /\ pc' = "created" /\ outcome' = outcome
         \/ /\ pc = "send" /\ tx' = tx /\ pc' = "settled" /\ outcome' = "rejected"
         \/ /\ pc = "created" /\ tx' = tx /\ pc' = "wait" /\ outcome' = outcome
         \/ /\ pc \in {"created", "wait"} /\ tx' = tx /\ pc' = "settled"
            /\ outcome' \in {"rejected", "resolved"}
  PROVE  ApprovesNoted'
<1>1. AllApproved' = AllApproved /\ \A a : Lacks(a)' = Lacks(a)
  BY SameApprovals
<1>2. \A n : Noted(n)' = Noted(n)
  BY <1>1 DEF Noted
<1> QED
  BY <1>1, <1>2 DEF ApprovesNoted

LEMMA BatchesNote ==
  ASSUME ApprovesNoted, call.kind = "batchApproveAssets", TransactionsNext
  PROVE  ApprovesNoted'
<1>0. /\ call' = call /\ moves \in Nat /\ moves' \in Nat
      /\ pc \in {"start", "approvals", "token", "send", "created", "wait", "settled"}
  BY CallGoesOn DEF ApprovesNoted
<1>1. CASE BulkStart
  <2>1. /\ pc = "start" /\ wallet' = wallet /\ tx' = tx /\ tx = "none" /\ moves' = 0
        /\ index' = index /\ index = 1 /\ unapproved' = unapproved /\ unapproved = <<>>
        /\ outcome = "none" /\ Approvable(call.assets)
    BY <1>1 DEF BulkStart, ApprovesNoted
  <2>2. \/ pc' = "settled" /\ outcome' = "rejected"
        \/ pc' = "settled" /\ outcome' = "resolved" /\ call.assets = <<>>
        \/ pc' = "approvals" /\ outcome' = outcome /\ call.assets # <<>>
    BY <1>1 DEF BulkStart, Account, Throw, Finish, Continue
  <2>3. call.assets # <<>> => 1 \in 1..Len(call.assets)
    BY <2>1 DEF Approvable
  <2>4. Noted(1 - 1)'
    BY DEF Noted
  <2>5. call.assets = <<>> => AllApproved'
    BY <1>0 DEF AllApproved
  <2> QED
    BY <1>0, <2>1, <2>2, <2>3, <2>4, <2>5 DEF ApprovesNoted
<1>2. CASE CheckAssetApproval \/ GetApproved
  BY <1>2, CheckNotes
<1>3. CASE Send \/ TransactionCreated \/ TransactionConfirmed \/ WaitRejects
  <2>1. ~Swallows /\ nextAfterSending = "created"
    BY DEF Swallows, nextAfterSending
  <2>2. /\ wallet' = wallet /\ moves' = moves /\ unapproved' = unapproved /\ index' = index
        /\ \/ pc = "send" /\ tx' = "pending" /\ pc' = "created" /\ outcome' = outcome
           \/ pc = "send" /\ tx' = tx /\ pc' = "settled" /\ outcome' = "rejected"
           \/ pc = "created" /\ tx' = tx /\ pc' = "wait" /\ outcome' = outcome
           \/ /\ pc \in {"created", "wait"} /\ tx' = tx /\ pc' = "settled"
              /\ outcome' \in {"rejected", "resolved"}
    BY <1>3, <2>1 DEF Send, TransactionCreated, TransactionConfirmed, WaitRejects, confirmFails,
                      Fail, Finish, Continue, Quiet, Same, chainVars
  <2> QED
    BY <1>0, <2>2, ConfirmingKeepsNoted
<1>4. CASE Mine
  BY <1>4, MineApproves
<1>5. CASE WalletMoves
  <2>1. KeepsApprovals(wallet')
    BY <1>5, WalletsAssumption DEF WalletMoves, KeepsApprovals
  <2>2. moves' # 0 /\ UNCHANGED callVars
    BY <1>0, <1>5 DEF WalletMoves
  <2> QED
    BY <1>0, <2>1, <2>2 DEF callVars, ApprovesNoted
<1>6. ~(\/ FulfillOrder \/ GenerateFulfillmentData \/ ReadSpendState
        \/ RequireErc20PaymentIsSpendable \/ IsOrderFulfillable \/ OffchainCancelOrder
        \/ ValidateOrder \/ CancelOrder \/ CancelOrders \/ GetOrderByHash \/ MoveTokens
        \/ Announce \/ AwaitReceipt \/ OrderTaken)
  BY <1>0 DEF FulfillOrder, GenerateFulfillmentData, ReadSpendState, RequireErc20PaymentIsSpendable,
              IsOrderFulfillable, OffchainCancelOrder, ValidateOrder, CancelOrder, CancelOrders,
              GetOrderByHash, MoveTokens, Announce, AwaitReceipt, OrderTaken
<1> QED
  BY <1>1, <1>2, <1>3, <1>4, <1>5, <1>6 DEF TransactionsNext

LEMMA NotedInvariant == Spec => []ApprovesNoted
<1>1. Init => ApprovesNoted
  <2> SUFFICES ASSUME Init PROVE ApprovesNoted
    OBVIOUS
  <2>1. ASSUME NEW w, TransactionsIdle(w) PROVE ApprovesNoted
    BY <2>1 DEF TransactionsIdle, ApprovesNoted
  <2>2. ASSUME NEW s \in Starts, CallStart(s.call, s.listener, s.wallet) PROVE ApprovesNoted
    <3>1. /\ call = s.call /\ pc = "start" /\ index = 1 /\ unapproved = <<>> /\ tx = "none"
          /\ outcome = "none" /\ moves = 0 /\ wallet = s.wallet
      BY <2>2 DEF CallStart
    <3>2. KeepsApprovals(wallet)
      BY <3>1, WalletsAssumption DEF KeepsApprovals
    <3>3. call.kind = "batchApproveAssets" => Approvable(call.assets)
      BY <3>1, StartsAssumption, WalletsAssumption DEF Approvable
    <3> QED
      BY <3>1, <3>2, <3>3 DEF ApprovesNoted
  <2> QED
    BY <2>1, <2>2 DEF Init
<1>2. ApprovesNoted /\ [Next]_vars => ApprovesNoted'
  <2> SUFFICES ASSUME ApprovesNoted, [Next]_vars PROVE ApprovesNoted'
    OBVIOUS
  <2>1. CASE UNCHANGED txVars
    <3>1. /\ call' = call /\ pc' = pc /\ index' = index /\ unapproved' = unapproved /\ tx' = tx
          /\ outcome' = outcome /\ moves' = moves /\ wallet' = wallet
      BY <2>1 DEF txVars, callVars, chainVars
    <3>2. AllApproved' = AllApproved /\ \A asset : Lacks(asset)' = Lacks(asset)
      BY <3>1, SameApprovals
    <3>3. \A n : Noted(n)' = Noted(n)
      BY <3>1, <3>2 DEF Noted
    <3> QED
      BY <3>1, <3>2, <3>3 DEF ApprovesNoted
  <2>2. CASE TransactionsNext
    <3>1. CASE call.kind = "batchApproveAssets"
      BY <2>2, <3>1, BatchesNote
    <3>2. CASE call.kind # "batchApproveAssets"
      <4>1. call' = call /\ moves' \in Nat
        BY <2>2, CallGoesOn DEF ApprovesNoted
      <4> QED
        BY <3>2, <4>1 DEF ApprovesNoted
    <3> QED
      BY <3>1, <3>2
  <2>3. CASE ValidateOnchain
    BY <2>3 DEF ValidateOnchain, chainVars, ApprovesNoted
  <2> QED
    BY <2>1, <2>2, <2>3 DEF Next, vars
<1> QED
  BY <1>1, <1>2, PTL DEF Spec

\* Once batchApproveAssets has returned and its transaction, if one was needed, has
\* succeeded, the conduit may move everything it was called for (assets.ts:337-350),
\* for batches of any length of which at most one contract lacks an approval.
THEOREM ApprovedAfterOneApproval == Spec => [](Len(unapproved) <= 1 => ApprovedAfterBatch)
<1>1. ApprovesNoted => (Len(unapproved) <= 1 => ApprovedAfterBatch)
  BY DEF ApprovesNoted, ApprovedAfterBatch, AllApproved, Lacks
<1> QED
  BY <1>1, NotedInvariant, PTL

-----------------------------------------------------------------------------
(* The ERC-20 check                                                        *)

\* The payment the SDK is sure of is what Seaport pulls.
ExactPayment(data) ==
  getErc20Payment(data).ok => getErc20Payment(data).value.amount = Pulled(data, PaymentErc20)

Current ==
  /\ read.balance # Unread => read.balance = wallet.balance
  /\ read.allowance # Unread =>
       Spender(call.data) # Nothing /\ read.allowance = wallet.allowance[Spender(call.data)]

BothRead == read.balance # Unread /\ read.allowance # Unread

\* As long as the wallet has not changed since, what was read is what there is, and
\* a purchase goes on after both readings only if they cover it.
ReadIsExact ==
  /\ moves \in Nat
  /\ call.kind = "fulfillOrder" =>
       /\ pc \in {"start", "data", "check", "compare", "send", "receipt", "created", "wait", "settled"}
       /\ read = [balance |-> read.balance, allowance |-> read.allowance]
       /\ pc \in {"start", "data", "check", "compare"} => tx = "none" /\ outcome = "none"
       /\ pc \in {"start", "data"} => read = Readings
       /\ pc \in {"data", "check", "compare"} => ~call.private
       /\ pc \in {"check", "compare"} => getErc20Payment(call.data).ok
       /\ pc = "check" => ~BothRead
       /\ ~call.private => ExactPayment(call.data)
       /\ moves = 0 => Current
       /\ BothRead => ~call.private
       /\ BothRead /\ pc # "compare" =>
            IF outcome = "blocked" THEN tx = "none" /\ ~Covers(read) ELSE Covers(read)
       /\ outcome = "blocked" => pc = "settled"
       /\ BothRead /\ tx = "unpaid" => moves > 0

\* What Seaport pulls for a whole order that asks for one ERC-20.
LEMMA PulledWhole ==
  ASSUME NEW data, data.items \in Seq(Range(data.items)), data.whole,
         ~(data.shape = "basic" /\ data.route \notin ERC20_PAYMENT_ROUTES),
         \A item \in Range(data.items) :
           /\ item.itemType = "ERC20" /\ item.token = PaymentErc20
           /\ item.startAmount \in Nat /\ item.endAmount = item.startAmount
  PROVE  Pulled(data, PaymentErc20) = Payment(data.items).amount
<1> DEFINE items == data.items
           K == {item \in Range(items) : item.itemType = "ERC20" /\ item.token = PaymentErc20}
<1>1. Filter(items, K) = items
  <2>1. Range(items) \subseteq K
    OBVIOUS
  <2>2. items \in Seq(Range(items))
    OBVIOUS
  <2> HIDE DEF K, items
  <2> QED
    BY <2>1, <2>2, FilterOfAll
<1>2. ASSUME NEW item \in Range(items) PROVE LeastCharge(item) = item.startAmount
  <2>1. ChargedFor(item) = {item.startAmount} /\ item.startAmount \in Nat
    BY DEF ChargedFor
  <2>2. ASSUME NEW x \in Nat PROVE (CHOOSE a \in {x} : \A b \in {x} : a <= b) = x
    OBVIOUS
  <2> QED
    BY <2>1, <2>2 DEF LeastCharge
<1>3. \A i \in DOMAIN items : items[i] \in Range(items)
  BY DEF Range
<1>4. [i \in DOMAIN items |-> LeastCharge(items[i])] = [i \in DOMAIN items |-> items[i].startAmount]
  BY <1>2, <1>3
<1>5. Pulled(data, PaymentErc20) = Total([i \in DOMAIN items |-> LeastCharge(items[i])])
  <2>1. DueIn(data, PaymentErc20) = items
    BY <1>1 DEF DueIn
  <2>2. Pulled(data, PaymentErc20) = SumOver(DueIn(data, PaymentErc20), LeastCharge)
    BY DEF Pulled
  <2> QED
    BY <2>1, <2>2 DEF SumOver
<1> QED
  BY <1>4, <1>5 DEF Payment, SumOver

\* The payment the SDK reads out of any answer to a purchase is what Seaport pulls
\* for it.
LEMMA PaymentIsExact ==
  ASSUME NEW s \in Starts, s.call.kind = "fulfillOrder", ~s.call.private
  PROVE  ExactPayment(s.call.data)
<1> DEFINE data == s.call.data
           items == data.items
           first == items[1]
<1>1. /\ items \in Seq(Range(items)) /\ items # <<>>
      /\ \A item \in Range(items) :
           item.startAmount \in Nat \cup {Malformed} /\ item.endAmount \in Nat \cup {Malformed}
      /\ data.shape \in {"basic", "order"} => data.whole
      /\ data.shape = "basic" /\ data.route \in ERC20_PAYMENT_ROUTES =>
           \A item \in Range(items) : /\ item.itemType = "ERC20" /\ item.token = first.token
                                      /\ item.endAmount = item.startAmount
      /\ first.itemType = "ERC20" => first.token = PaymentErc20
  BY StartsAssumption
<1> HIDE DEF data
<1>2. first \in Range(items) /\ \A item \in Range(items) : \E i \in DOMAIN items : item = items[i]
  BY <1>1 DEF Range
<1>3. CASE data.shape = "basic" /\ basicOrderErc20Payment(data).ok
  <2>1. /\ data.route \in ERC20_PAYMENT_ROUTES
        /\ \A i \in DOMAIN items : Readable(items[i].startAmount)
        /\ basicOrderErc20Payment(data) = Returns(Payment(items))
    BY <1>3 DEF basicOrderErc20Payment, Throws
  <2>2. \A item \in Range(items) :
          /\ item.itemType = "ERC20" /\ item.token = PaymentErc20
          /\ item.startAmount \in Nat /\ item.endAmount = item.startAmount
    BY <1>1, <1>2, <1>3, <2>1 DEF Readable
  <2>3. Pulled(data, PaymentErc20) = Payment(items).amount
    BY <1>1, <1>3, <2>1, <2>2, PulledWhole
  <2> QED
    BY <1>3, <2>1, <2>3 DEF ExactPayment, getErc20Payment, Returns, data
<1>4. CASE /\ data.shape # "basic" /\ data.whole /\ sumErc20Consideration(items).ok
  <2>1. /\ \A i \in DOMAIN items : /\ items[i].itemType = "ERC20"
                                   /\ items[i].token = items[1].token
                                   /\ Readable(items[i].startAmount)
                                   /\ items[i].endAmount = items[i].startAmount
        /\ sumErc20Consideration(items) = Returns(Payment(items))
    BY <1>4 DEF sumErc20Consideration, Throws
  <2>2. \A item \in Range(items) :
          /\ item.itemType = "ERC20" /\ item.token = PaymentErc20
          /\ item.startAmount \in Nat /\ item.endAmount = item.startAmount
    BY <1>1, <1>2, <2>1 DEF Readable
  <2>3. Pulled(data, PaymentErc20) = Payment(items).amount
    BY <1>1, <1>4, <2>2, PulledWhole
  <2> QED
    BY <1>4, <2>1, <2>3 DEF ExactPayment, getErc20Payment, isFullFillFraction, Returns, Throws, data
<1>5. CASE getErc20Payment(data).ok
  BY <1>1, <1>3, <1>4, <1>5 DEF getErc20Payment, isFullFillFraction, Throws
<1> QED
  BY <1>5 DEF ExactPayment, data

\* Both readings are there exactly if neither is still to come.
LEMMA SameReadings ==
  ASSUME call' = call, read' = read
  PROVE  /\ BothRead' = BothRead /\ Covers(read)' = Covers(read)
         /\ ExactPayment(call.data)' = ExactPayment(call.data)
         /\ wallet' = wallet => Current' = Current
<1>1. call.data' = call.data /\ read.balance' = read.balance /\ read.allowance' = read.allowance
  OBVIOUS
<1> QED
  BY <1>1 DEF BothRead, Covers, ExactPayment, Current

\* The steps that read nothing and leave the wallet alone.
LEMMA GoingOnKeepsReading ==
  ASSUME ReadIsExact, call.kind = "fulfillOrder", call' = call,
         read' = read, wallet' = wallet, moves' = moves,
         \/ /\ pc = "start" /\ tx' = tx /\ outcome' = outcome
            /\ (pc' = "data" /\ ~call.private) \/ pc' = "send"
         \/ /\ pc = "data" /\ tx' = tx /\ outcome' = outcome
            /\ (pc' = "check" /\ getErc20Payment(call.data).ok) \/ pc' = "send"
         \/ /\ pc = "check" /\ pc' = "send" /\ tx' = tx /\ outcome' = outcome
         \/ /\ pc = "send" /\ pc' \in {"receipt", "created"} /\ tx' = "pending" /\ outcome' = outcome
         \/ /\ pc \in {"receipt", "created"} /\ pc' \in {"created", "wait"} /\ tx' = tx /\ outcome' = outcome
         \/ /\ pc \in {"start", "data", "send", "receipt", "created", "wait"}
            /\ pc' = "settled" /\ tx' = tx /\ outcome' \in {"resolved", "rejected"}
  PROVE  ReadIsExact'
<1>1. /\ BothRead' = BothRead /\ Covers(read)' = Covers(read)
      /\ ExactPayment(call.data)' = ExactPayment(call.data)
      /\ Current' = Current
  BY SameReadings
<1>2. read = Readings => ~BothRead
  BY DEF BothRead, Readings
<1> QED
  BY <1>1, <1>2 DEF ReadIsExact

\* The steps of a purchase that read, compare and mine, and all.
LEMMA ReadingKeepsReading ==
  ASSUME ReadIsExact, call.kind = "fulfillOrder", ReadSpendState
  PROVE  ReadIsExact'
<1> DEFINE spender == Spender(call.data)
           now == [balance |-> wallet.balance, allowance |-> wallet.allowance[spender]]
           left == {part \in DOMAIN read : read[part] = Unread}
<1>1. /\ pc = "check" /\ call' = call /\ tx' = tx /\ wallet' = wallet /\ outcome' = outcome
      /\ ~BothRead /\ moves \in Nat /\ tx = "none" /\ outcome = "none" /\ ~call.private
      /\ getErc20Payment(call.data).ok /\ ExactPayment(call.data)
      /\ moves = 0 => Current
      /\ read = [balance |-> read.balance, allowance |-> read.allowance]
  BY DEF ReadSpendState, Same, Continue, ReadIsExact
<1>2. CASE pc' = "send" /\ read' = read /\ moves' = moves
  BY <1>1, <1>2, GoingOnKeepsReading
<1>3. CASE ~(pc' = "send" /\ read' = read /\ moves' = moves)
  <2>1. PICK part \in left :
          /\ spender # Nothing
          /\ read' = [read EXCEPT ![part] = now[part]]
          /\ moves' = IF left = DOMAIN read THEN 0 ELSE moves
          /\ pc' = IF left = {part} THEN "compare" ELSE "check"
    BY <1>3 DEF ReadSpendState, Continue
  <2>2. DOMAIN read = {"balance", "allowance"}
    BY <1>1
  <2>3. /\ left \subseteq {"balance", "allowance"}
        /\ \A p \in {"balance", "allowance"} : p \in left <=> read[p] = Unread
    BY <2>2
  <2>4. /\ now.balance = wallet.balance /\ now.allowance = wallet.allowance[spender]
        /\ now["balance"] = wallet.balance /\ now["allowance"] = wallet.allowance[spender]
    OBVIOUS
  <2> HIDE DEF left, now
  <2>5. /\ read' = [balance |-> read'.balance, allowance |-> read'.allowance]
        /\ read'[part] = now[part]
        /\ \A p \in {"balance", "allowance"} : p # part => read'[p] = read[p]
    BY <1>1, <2>1, <2>2, <2>3
  <2>6. pc' = "check" => ~BothRead'
    <3>1. SUFFICES ASSUME pc' = "check" PROVE ~BothRead'
      OBVIOUS
    <3>2. PICK p \in left : p # part
      BY <2>1, <3>1
    <3> QED
      BY <2>3, <2>5, <3>2 DEF BothRead
  <2>7. moves' = 0 => Current'
    <3>1. ASSUME moves' = 0, NEW p \in {"balance", "allowance"}, p # part, read[p] # Unread
          PROVE  read[p] = now[p]
      <4>1. moves = 0
        BY <2>1, <2>2, <2>3, <3>1
      <4> QED
        BY <1>1, <2>4, <3>1, <4>1 DEF Current, spender
    <3>2. moves' = 0 => /\ read'.balance # Unread => read'.balance = now["balance"]
                        /\ read'.allowance # Unread => read'.allowance = now["allowance"]
      BY <2>3, <2>5, <3>1
    <3> QED
      BY <1>1, <2>1, <2>4, <3>2 DEF Current
  <2>8. moves' \in Nat /\ pc' \in {"check", "compare"}
    BY <1>1, <2>1
  <2>9. ExactPayment(call.data)'
    BY <1>1 DEF ExactPayment
  <2> QED
    BY <1>1, <2>5, <2>6, <2>7, <2>8, <2>9 DEF ReadIsExact
<1> QED
  BY <1>2, <1>3

LEMMA ComparingKeepsReading ==
  ASSUME ReadIsExact, call.kind = "fulfillOrder", RequireErc20PaymentIsSpendable
  PROVE  ReadIsExact'
<1>1. /\ pc = "compare" /\ call' = call /\ read' = read /\ wallet' = wallet /\ moves' = moves
      /\ tx' = tx /\ tx = "none" /\ outcome = "none" /\ ~call.private
      /\ getErc20Payment(call.data).ok /\ ExactPayment(call.data)
  BY DEF RequireErc20PaymentIsSpendable, Quiet, Same, chainVars, ReadIsExact
<1>2. /\ BothRead' = BothRead /\ Covers(read)' = Covers(read)
      /\ ExactPayment(call.data)' = ExactPayment(call.data)
      /\ Current' = Current
  BY <1>1, SameReadings
<1>3. IF Covers(read) THEN pc' = "send" /\ outcome' = "none" ELSE pc' = "settled" /\ outcome' = "blocked"
  BY <1>1 DEF RequireErc20PaymentIsSpendable, Covers, ExactPayment, sufficient, Continue, Finish
<1> QED
  BY <1>1, <1>2, <1>3 DEF ReadIsExact

LEMMA MineKeepsReading ==
  ASSUME ReadIsExact, call.kind = "fulfillOrder", Mine
  PROVE  ReadIsExact'
<1>1. /\ tx = "pending" /\ call' = call /\ read' = read /\ moves' = moves /\ pc' = pc /\ outcome' = outcome
      /\ wallet' = wallet /\ tx' \in {"reverted", "unpaid", "success"}
      /\ tx' = "unpaid" => ~call.private /\ ~Payable
  BY DEF Mine, Same, Fill, Cancel, TransferAll, Approve, OtherEffect, Revert
<1>2. /\ BothRead' = BothRead /\ Covers(read)' = Covers(read)
      /\ ExactPayment(call.data)' = ExactPayment(call.data)
      /\ Current' = Current
  BY <1>1, SameReadings
<1>3. /\ pc \notin {"start", "data", "check", "compare"} /\ moves \in Nat
      /\ BothRead => outcome # "blocked" /\ Covers(read)
      /\ moves = 0 => Current
  BY <1>1 DEF ReadIsExact
<1>4. BothRead /\ Current /\ Covers(read) => Payable
  BY DEF BothRead, Current, Covers, Payable
<1>5. BothRead /\ tx' = "unpaid" => moves > 0
  BY <1>1, <1>3, <1>4
<1> QED
  BY <1>1, <1>2, <1>3, <1>5 DEF ReadIsExact

LEMMA PurchasesKeepReading ==
  ASSUME ReadIsExact, call.kind = "fulfillOrder", TransactionsNext
  PROVE  ReadIsExact'
<1>0. /\ call' = call /\ moves' \in Nat
      /\ pc \in {"start", "data", "check", "compare", "send", "receipt", "created", "wait", "settled"}
      /\ pc = "data" => ~call.private
  BY CallGoesOn DEF ReadIsExact
<1>1. CASE FulfillOrder
  <2>1. /\ pc = "start" /\ read' = read /\ wallet' = wallet /\ moves' = moves /\ tx' = tx
        /\ \/ outcome' = outcome /\ ((pc' = "data" /\ ~call.private) \/ pc' = "send")
           \/ pc' = "settled" /\ outcome' = "rejected"
    BY <1>1 DEF FulfillOrder, Account, Throw, Finish, Continue, Quiet, Same, chainVars
  <2> QED
    BY <1>0, <2>1, GoingOnKeepsReading
<1>2. CASE GenerateFulfillmentData
  <2>1. /\ pc = "data" /\ read' = read /\ wallet' = wallet /\ moves' = moves /\ tx' = tx
        /\ \/ outcome' = outcome /\ ((pc' = "check" /\ getErc20Payment(call.data).ok) \/ pc' = "send")
           \/ pc' = "settled" /\ outcome' = "rejected"
    BY <1>2 DEF GenerateFulfillmentData, Throw, Finish, Continue, Quiet, Same, chainVars
  <2> QED
    BY <1>0, <2>1, GoingOnKeepsReading
<1>3. CASE ReadSpendState
  BY <1>3, ReadingKeepsReading
<1>4. CASE RequireErc20PaymentIsSpendable
  BY <1>4, ComparingKeepsReading
<1>5. CASE Send \/ AwaitReceipt \/ TransactionCreated \/ TransactionConfirmed \/ WaitRejects
  <2>1. /\ wallet' = wallet /\ moves' = moves /\ read' = read
        /\ \/ pc = "send" /\ pc' \in {"receipt", "created"} /\ tx' = "pending" /\ outcome' = outcome
           \/ /\ pc \in {"receipt", "created"} /\ pc' \in {"created", "wait"}
              /\ tx' = tx /\ outcome' = outcome
           \/ /\ pc \in {"send", "receipt", "created", "wait"} /\ pc' = "settled" /\ tx' = tx
              /\ outcome' \in {"resolved", "rejected"}
    BY <1>5 DEF Send, AwaitReceipt, TransactionCreated, TransactionConfirmed, WaitRejects, confirmFails,
                Fail, Finish, Continue, nextAfterSending, Quiet, Same, chainVars
  <2> QED
    BY <1>0, <2>1, GoingOnKeepsReading
<1>6. CASE Mine
  BY <1>6, MineKeepsReading
<1>7. CASE WalletMoves
  <2>1. /\ pc' = pc /\ read' = read /\ tx' = tx /\ outcome' = outcome /\ moves' = moves + 1 /\ moves \in Nat
    BY <1>7 DEF WalletMoves, callVars, ReadIsExact
  <2>2. /\ BothRead' = BothRead /\ Covers(read)' = Covers(read)
        /\ ExactPayment(call.data)' = ExactPayment(call.data)
    BY <1>0, <2>1, SameReadings
  <2>3. moves' # 0 /\ moves' > 0
    BY <2>1
  <2> QED
    BY <1>0, <2>1, <2>2, <2>3 DEF ReadIsExact
<1>8. CASE OrderTaken
  <2>1. /\ pc' = pc /\ read' = read /\ tx' = tx /\ outcome' = outcome /\ moves' = moves /\ wallet' = wallet
    BY <1>8 DEF OrderTaken, callVars
  <2>2. /\ BothRead' = BothRead /\ Covers(read)' = Covers(read)
        /\ ExactPayment(call.data)' = ExactPayment(call.data)
        /\ Current' = Current
    BY <1>0, <2>1, SameReadings
  <2> QED
    BY <1>0, <2>1, <2>2 DEF ReadIsExact
<1>9. ~(\/ IsOrderFulfillable \/ OffchainCancelOrder \/ ValidateOrder \/ CancelOrder \/ CancelOrders
        \/ GetOrderByHash \/ MoveTokens \/ BulkStart \/ CheckAssetApproval \/ GetApproved
        \/ Announce)
  BY <1>0 DEF IsOrderFulfillable, OffchainCancelOrder, ValidateOrder, CancelOrder, CancelOrders,
              GetOrderByHash, MoveTokens, BulkStart, CheckAssetApproval, GetApproved, Announce
<1> QED
  BY <1>1, <1>2, <1>3, <1>4, <1>5, <1>6, <1>7, <1>8, <1>9 DEF TransactionsNext

\* What a purchase has read is what there is as long as the wallet does not change,
\* and it goes on only if that covers what Seaport pulls.
THEOREM ReadInvariant == Spec => []ReadIsExact
<1>1. Init => ReadIsExact
  <2> SUFFICES ASSUME Init PROVE ReadIsExact
    OBVIOUS
  <2>1. ASSUME NEW w, TransactionsIdle(w) PROVE ReadIsExact
    BY <2>1 DEF TransactionsIdle, ReadIsExact
  <2>2. ASSUME NEW s \in Starts, CallStart(s.call, s.listener, s.wallet) PROVE ReadIsExact
    <3>1. /\ call = s.call /\ pc = "start" /\ read = Readings /\ tx = "none" /\ outcome = "none" /\ moves = 0
      BY <2>2 DEF CallStart
    <3>2. call.kind = "fulfillOrder" /\ ~call.private => ExactPayment(call.data)
      BY <3>1, PaymentIsExact
    <3>3. /\ read = [balance |-> read.balance, allowance |-> read.allowance]
          /\ ~BothRead /\ Current
      BY <3>1 DEF Readings, BothRead, Current
    <3> QED
      BY <3>1, <3>2, <3>3 DEF ReadIsExact
  <2> QED
    BY <2>1, <2>2 DEF Init
<1>2. ReadIsExact /\ [Next]_vars => ReadIsExact'
  <2> SUFFICES ASSUME ReadIsExact, [Next]_vars PROVE ReadIsExact'
    OBVIOUS
  <2>1. CASE UNCHANGED txVars
    <3>1. /\ call' = call /\ pc' = pc /\ read' = read /\ tx' = tx /\ outcome' = outcome
          /\ moves' = moves /\ wallet' = wallet
      BY <2>1 DEF txVars, callVars, chainVars
    <3>2. /\ BothRead' = BothRead /\ Covers(read)' = Covers(read)
          /\ ExactPayment(call.data)' = ExactPayment(call.data)
          /\ Current' = Current
      BY <3>1, SameReadings
    <3> QED
      BY <3>1, <3>2 DEF ReadIsExact
  <2>2. CASE TransactionsNext
    <3>1. CASE call.kind = "fulfillOrder"
      BY <2>2, <3>1, PurchasesKeepReading
    <3>2. CASE call.kind # "fulfillOrder"
      <4>1. call' = call /\ moves' \in Nat
        BY <2>2, CallGoesOn DEF ReadIsExact
      <4> QED
        BY <3>2, <4>1 DEF ReadIsExact
    <3> QED
      BY <3>1, <3>2
  <2>3. CASE ValidateOnchain
    BY <2>3 DEF ValidateOnchain, chainVars, ReadIsExact
  <2> QED
    BY <2>1, <2>2, <2>3 DEF Next, vars
<1> QED
  BY <1>1, <1>2, PTL DEF Spec

\* The ERC-20 check is exact (fulfillment.ts:269-323), whatever the order asks for
\* and the wallet holds: it stops a purchase only if the funds it read do not cover
\* what Seaport pulls, and a purchase it has let through fails for want of funds
\* only if the wallet has changed since.
THEOREM PreflightExactHolds == Spec => []PreflightExact
<1>1. ReadIsExact => PreflightExact
  BY DEF ReadIsExact, BothRead, PreflightExact
<1> QED
  BY <1>1, ReadInvariant, PTL
=============================================================================
