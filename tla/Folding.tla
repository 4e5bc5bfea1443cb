------------------------------- MODULE Folding -------------------------------
(***************************************************************************)
(* Induction, and what a fold of a list from the left is: for any step Op, *)
(* which may depend on a parameter, and any Base.  Modules that fold       *)
(* instantiate this one.                                                   *)
(*                                                                         *)
(* Induction is stated about sets of numbers and of sequences, so that the *)
(* provers, which instantiate no operator, can use it.                     *)
(***************************************************************************)
EXTENDS SequencesExt, SequenceTheorems, WellFoundedInduction, TLAPS

CONSTANTS
  Op(_, _, _), \* parameter, what is folded so far, the next element
  Base

Fold(p, s) == FoldLeft(LAMBDA done, e : Op(p, done, e), Base, s)

-----------------------------------------------------------------------------
(* Induction                                                               *)

\* The order of the numbers, on which WellFoundedInduction is used.
LessThan == {pair \in Nat \X Nat : pair[1] < pair[2]}

LEMMA LessThanWellFounded == IsWellFoundedOn(LessThan, Nat)
  BY NatLessThanWellFounded DEF OpToRel, LessThan

\* A set with 0 and the successor of each of its numbers has every number.
THEOREM Induction ==
  ASSUME NEW S, 0 \in S, \A n \in Nat : n \in S => n + 1 \in S
  PROVE  \A n \in Nat : n \in S
<1> DEFINE T == Nat \ S
<1>1. SUFFICES ASSUME T # {} PROVE FALSE
  OBVIOUS
<1>2. PICK x \in T : \A y \in T : ~ (<<y, x>> \in LessThan)
  <2>1. T \subseteq Nat
    OBVIOUS
  <2> HIDE DEF T
  <2> QED
    BY <1>1, <2>1, WFMin, LessThanWellFounded
<1>3. x # 0 /\ x \in Nat /\ x - 1 \in Nat
  OBVIOUS
<1>4. <<x - 1, x>> \in LessThan
  BY <1>3 DEF LessThan
<1>5. x - 1 \in S
  BY <1>2, <1>3, <1>4
<1>6. x \in S
  BY <1>3, <1>5
<1> QED
  BY <1>2, <1>6

\* A set with the empty sequence and every extension of its sequences has every
\* sequence.
THEOREM SequenceInduction ==
  ASSUME NEW S, NEW P, <<>> \in P,
         \A s \in Seq(S), e \in S : s \in P => Append(s, e) \in P
  PROVE  \A s \in Seq(S) : s \in P
<1> DEFINE N == {n \in Nat : \A s \in Seq(S) : Len(s) = n => s \in P}
<1>1. 0 \in N
  <2>1. ASSUME NEW s \in Seq(S), Len(s) = 0 PROVE s \in P
    <3>1. s = <<>>
      BY <2>1, EmptySeq
    <3> QED
      BY <3>1
  <2> QED
    BY <2>1
<1>2. ASSUME NEW n \in Nat, n \in N PROVE n + 1 \in N
  <2>1. ASSUME NEW s \in Seq(S), Len(s) = n + 1 PROVE s \in P
    <3> DEFINE t == SubSeq(s, 1, n)
               e == s[n + 1]
    <3>1. t \in Seq(S) /\ Len(t) = n /\ e \in S /\ \A i \in 1..n : t[i] = s[i]
      BY <2>1
    <3>2. s = Append(t, e)
      <4>1. Append(t, e) \in Seq(S) /\ Len(Append(t, e)) = n + 1
            /\ \A i \in 1..(n + 1) : Append(t, e)[i] = IF i <= n THEN t[i] ELSE e
        BY <3>1
      <4>2. \A i \in 1..Len(s) : s[i] = Append(t, e)[i]
        BY <2>1, <3>1, <4>1
      <4> HIDE DEF t, e
      <4> QED
        BY <2>1, <4>1, <4>2, SeqEqual
    <3>3. t \in P
      BY <1>2, <3>1
    <3> HIDE DEF t, e
    <3> QED
      BY <3>1, <3>2, <3>3
  <2> QED
    BY <2>1
<1> HIDE DEF N
<1>3. \A n \in Nat : n \in N
  BY <1>1, <1>2, Induction
<1> QED
  BY <1>3 DEF N

-----------------------------------------------------------------------------
(* Folding                                                                 *)

\* Folding place by place, as FoldLeft does it: over a set of places, the last one last.
Iter(p, s, g) ==
  [t \in SUBSET (DOMAIN s) |-> IF t = {} THEN Base ELSE Op(p, g[t \ {Max(t)}], s[Max(t)])]
Iterates(p, s) == CHOOSE g : g = Iter(p, s, g)

\* A fold is the iteration over all places of the list.
LEMMA FoldIsIter ==
  ASSUME NEW p, NEW s
  PROVE Fold(p, s) = Iterates(p, s)[DOMAIN s]
BY DEF Fold, Iter, Iterates, FoldLeft, MapThenFoldSet

\* The greatest place, and the places before it.
LEMMA MaxOfInterval ==
  ASSUME NEW k \in Nat
  PROVE  Max(1..(k + 1)) = k + 1 /\ (1..(k + 1)) \ {k + 1} = 1..k
BY DEF Max

\* The iteration exists: over the places up to any number, by induction.
LEMMA Iterable ==
  ASSUME NEW p, NEW s, NEW n \in Nat, DOMAIN s = 1..n
  PROVE  Iterates(p, s) = Iter(p, s, Iterates(p, s))
<1> DEFINE Step(g, t) == IF t = {} THEN Base ELSE Op(p, g[t \ {Max(t)}], s[Max(t)])
           Upto(k) == \E g : g = [t \in SUBSET (1..k) |-> Step(g, t)]
           S == {k \in Nat : Upto(k)}
<1>1. 0 \in S
  <2> DEFINE g == [t \in SUBSET (1..0) |-> Base]
  <2>1. g = [t \in SUBSET (1..0) |-> Step(g, t)]
    OBVIOUS
  <2> QED
    BY <2>1
<1>2. ASSUME NEW k \in Nat, k \in S PROVE k + 1 \in S
  <2>1. PICK g : g = [t \in SUBSET (1..k) |-> Step(g, t)]
    BY <1>2
  <2> DEFINE h == [t \in SUBSET (1..(k + 1)) |->
                     IF k + 1 \in t THEN Op(p, g[t \ {k + 1}], s[k + 1]) ELSE g[t]]
  <2>2. ASSUME NEW t \in SUBSET (1..(k + 1)) PROVE h[t] = Step(h, t)
    <3>1. CASE k + 1 \in t
      <4>1. Max(t) = k + 1
        <5>1. k + 1 \in t /\ (\A y \in t : k + 1 >= y) /\ t \subseteq Nat
          BY <3>1
        <5>2. \A x \in t : (\A y \in t : x >= y) => x = k + 1
          BY <5>1
        <5> QED
          BY <5>1, <5>2 DEF Max
      <4>2. t \ {k + 1} \in SUBSET (1..k) /\ k + 1 \notin t \ {k + 1}
        OBVIOUS
      <4>3. h[t \ {k + 1}] = g[t \ {k + 1}]
        BY <4>2
      <4> QED
        BY <3>1, <4>1, <4>3
    <3>2. CASE k + 1 \notin t
      <4>1. t \in SUBSET (1..k) /\ t \ {Max(t)} \in SUBSET (1..k) /\ k + 1 \notin t \ {Max(t)}
        <5>1. t \subseteq 1..k
          BY <3>2
        <5> QED
          BY <3>2, <5>1
      <4>2. h[t] = g[t] /\ h[t \ {Max(t)}] = g[t \ {Max(t)}]
        BY <3>2, <4>1
      <4>3. g[t] = Step(g, t)
        BY <2>1, <4>1
      <4> QED
        BY <4>2, <4>3
    <3> QED
      BY <3>1, <3>2
  <2>3. h = [t \in SUBSET (1..(k + 1)) |-> Step(h, t)]
    <3>1. DOMAIN h = SUBSET (1..(k + 1)) /\ h = [t \in DOMAIN h |-> h[t]]
      OBVIOUS
    <3> HIDE DEF h
    <3> QED
      BY <2>2, <3>1, Zenon
  <2> HIDE DEF h
  <2>4. Upto(k + 1)
    BY <2>3
  <2>5. k + 1 \in Nat
    OBVIOUS
  <2> HIDE DEF Upto
  <2> QED
    BY <2>4, <2>5
<1> HIDE DEF S
<1>3. n \in S
  BY <1>1, <1>2, Induction
<1>4. \E g : g = Iter(p, s, g)
  BY <1>3 DEF Iter, S
<1> QED
  BY <1>4 DEF Iterates

\* It begins with the base, and goes on with a step for each place.
LEMMA IterateNext ==
  ASSUME NEW p, NEW s, NEW n \in Nat, DOMAIN s = 1..n
  PROVE  /\ Iterates(p, s)[1..0] = Base
         /\ \A k \in Nat : k + 1 <= n => Iterates(p, s)[1..(k + 1)] = Op(p, Iterates(p, s)[1..k], s[k + 1])
<1>1. Iterates(p, s) = Iter(p, s, Iterates(p, s))
  BY Iterable
<1> HIDE DEF Iterates
<1>2. Iterates(p, s)[1..0] = Base
  BY <1>1 DEF Iter
<1>3. ASSUME NEW k \in Nat, k + 1 <= n
      PROVE  Iterates(p, s)[1..(k + 1)] = Op(p, Iterates(p, s)[1..k], s[k + 1])
  <2>1. 1..(k + 1) \in SUBSET (1..n) /\ 1..(k + 1) # {}
    <3>1. \A i \in 1..(k + 1) : i \in 1..n
      BY <1>3
    <3>2. 1 \in 1..(k + 1)
      OBVIOUS
    <3> QED
      BY <3>1, <3>2
  <2>2. Max(1..(k + 1)) = k + 1 /\ (1..(k + 1)) \ {k + 1} = 1..k
    BY MaxOfInterval
  <2> QED
    BY <1>1, <2>1, <2>2 DEF Iter
<1> QED
  BY <1>2, <1>3

\* An empty list folds to the base.
THEOREM FoldEmpty ==
  ASSUME NEW p
  PROVE  Fold(p, <<>>) = Base
<1>1. DOMAIN <<>> = 1..0
  OBVIOUS
<1> QED
  BY <1>1, IterateNext, FoldIsIter

\* A list with one element more folds by one step more.
THEOREM FoldAppend ==
  ASSUME NEW p, NEW S, NEW s \in Seq(S), NEW e \in S
  PROVE  Fold(p, Append(s, e)) = Op(p, Fold(p, s), e)
<1> DEFINE n == Len(s)
           t == Append(s, e)
<1>1. /\ n \in Nat /\ DOMAIN s = 1..n /\ DOMAIN t = 1..(n + 1)
      /\ t[n + 1] = e /\ \A i \in 1..n : t[i] = s[i]
  OBVIOUS
<1> DEFINE Same == {k \in Nat : k <= n => Iterates(p, t)[1..k] = Iterates(p, s)[1..k]}
<1> HIDE DEF n, t
<1>2. 0 \in Same
  BY <1>1, IterateNext
<1>3. ASSUME NEW k \in Nat, k \in Same PROVE k + 1 \in Same
  <2>1. SUFFICES ASSUME k + 1 <= n
                 PROVE  Iterates(p, t)[1..(k + 1)] = Iterates(p, s)[1..(k + 1)]
    OBVIOUS
  <2>2. Iterates(p, t)[1..(k + 1)] = Op(p, Iterates(p, t)[1..k], t[k + 1])
    BY <1>1, <2>1, IterateNext
  <2>3. Iterates(p, s)[1..(k + 1)] = Op(p, Iterates(p, s)[1..k], s[k + 1])
    BY <1>1, <2>1, IterateNext
  <2> QED
    BY <1>1, <1>3, <2>1, <2>2, <2>3
<1> HIDE DEF Same
<1>4. n \in Same
  BY <1>1, <1>2, <1>3, Induction
<1>5. Iterates(p, t)[1..n] = Iterates(p, s)[1..n]
  BY <1>1, <1>4 DEF Same
<1>6. Iterates(p, t)[1..(n + 1)] = Op(p, Iterates(p, t)[1..n], t[n + 1])
  BY <1>1, IterateNext
<1>7. Fold(p, t) = Iterates(p, t)[1..(n + 1)] /\ Fold(p, s) = Iterates(p, s)[1..n]
  BY <1>1, FoldIsIter
<1>8. Fold(p, t) = Op(p, Fold(p, s), e)
  BY <1>1, <1>5, <1>6, <1>7
<1> QED
  BY <1>8 DEF t
=============================================================================
