------------------------------ MODULE WireProofs ------------------------------
(***************************************************************************)
(* The theorems of Wire.  LinkedAsSigned: a message is a list of lines     *)
(* whose shape Compose fixes; parseSiwxMessage finds each part at its      *)
(* place; and what the API composes of the parts is the same list again.   *)
(* ArgumentsArrive: a path that is sent has one segment for each of its    *)
(* parts, which no URL parser takes apart, which decodes to the argument   *)
(* and fits no other endpoint.  PagesAdvance: the parameters always ask    *)
(* for the page after those read, and the query with them.                 *)
(***************************************************************************)
EXTENDS Wire, SequenceTheorems, FiniteSetTheorems, TLAPS

-----------------------------------------------------------------------------
(* Lists                                                                   *)

Filters == INSTANCE Folding
  WITH Op <- LAMBDA set, kept, item : IF item \in set THEN Append(kept, item) ELSE kept,
       Base <- <<>>

\* What is left of an empty list, and of a list with one element more.
LEMMA FilterOfEmpty ==
  ASSUME NEW K
  PROVE  Filter(<<>>, K) = <<>>
<1>1. Filters!Fold(K, <<>>) = <<>>
  BY Filters!FoldEmpty
<1> QED
  BY <1>1 DEF Filters!Fold, Filters!FoldLeft, Filters!MapThenFoldSet, Filters!Max,
              Filter, FoldLeft, MapThenFoldSet, Max

\* One element more stays or goes.
LEMMA FilterOfAppend ==
  ASSUME NEW K, NEW S, NEW s \in Seq(S), NEW e \in S
  PROVE  Filter(Append(s, e), K) = IF e \in K THEN Append(Filter(s, K), e) ELSE Filter(s, K)
<1>1. Filters!Fold(K, Append(s, e)) =
        IF e \in K THEN Append(Filters!Fold(K, s), e) ELSE Filters!Fold(K, s)
  BY Filters!FoldAppend
<1> QED
  BY <1>1 DEF Filters!Fold, Filters!FoldLeft, Filters!MapThenFoldSet, Filters!Max,
              Filter, FoldLeft, MapThenFoldSet, Max

\* The elements of a list with one more.
LEMMA RangeOfAppend ==
  ASSUME NEW S, NEW s \in Seq(S), NEW e \in S
  PROVE  Append(s, e) \in Seq(S) /\ Range(Append(s, e)) = Range(s) \cup {e}
<1>1. /\ Append(s, e) \in Seq(S) /\ Len(Append(s, e)) = Len(s) + 1
      /\ \A i \in 1..Len(s) : Append(s, e)[i] = s[i]
      /\ Append(s, e)[Len(s) + 1] = e
  OBVIOUS
<1>2. DOMAIN s = 1..Len(s) /\ DOMAIN Append(s, e) = 1..(Len(s) + 1) /\ Len(s) \in Nat
  OBVIOUS
<1>3. 1..(Len(s) + 1) = (1..Len(s)) \cup {Len(s) + 1}
  BY <1>2
<1> QED
  BY <1>1, <1>2, <1>3 DEF Range

\* What is left of a list is a list of its elements that are in the set, and the
\* list itself if all are.
LEMMA FilterKeeps ==
  ASSUME NEW S, NEW K
  PROVE  \A s \in Seq(S) : /\ Filter(s, K) \in Seq(S)
                           /\ Range(Filter(s, K)) = Range(s) \cap K
                           /\ Range(s) \subseteq K => Filter(s, K) = s
<1> DEFINE P == {s \in Seq(S) : /\ Filter(s, K) \in Seq(S)
                                /\ Range(Filter(s, K)) = Range(s) \cap K
                                /\ Range(s) \subseteq K => Filter(s, K) = s}
<1>1. <<>> \in P
  <2>1. <<>> \in Seq(S) /\ Range(<<>>) = {}
    BY DEF Range
  <2>2. Filter(<<>>, K) = <<>>
    BY FilterOfEmpty
  <2> QED
    BY <2>1, <2>2, Zenon
<1>2. ASSUME NEW s \in Seq(S), NEW e \in S, s \in P PROVE Append(s, e) \in P
  <2>1. Filter(Append(s, e), K) = IF e \in K THEN Append(Filter(s, K), e) ELSE Filter(s, K)
    BY FilterOfAppend
  <2>2. /\ Filter(s, K) \in Seq(S) /\ Range(Filter(s, K)) = Range(s) \cap K
        /\ Range(s) \subseteq K => Filter(s, K) = s
    BY <1>2
  <2>3. /\ Append(s, e) \in Seq(S) /\ Range(Append(s, e)) = Range(s) \cup {e}
        /\ Append(Filter(s, K), e) \in Seq(S)
        /\ Range(Append(Filter(s, K), e)) = Range(Filter(s, K)) \cup {e}
    BY <2>2, RangeOfAppend
  <2>4. Range(Append(s, e)) \subseteq K => e \in K /\ Range(s) \subseteq K
    BY <2>3
  <2>5. CASE e \in K
    <3>1. Filter(Append(s, e), K) = Append(Filter(s, K), e)
      BY <2>1, <2>5
    <3>2. Range(Append(Filter(s, K), e)) = Range(Append(s, e)) \cap K
      BY <2>2, <2>3, <2>5
    <3> QED
      BY <2>2, <2>3, <2>4, <3>1, <3>2, Zenon
  <2>6. CASE e \notin K
    <3>1. Range(Filter(s, K)) = Range(Append(s, e)) \cap K
      BY <2>2, <2>3, <2>6
    <3> QED
      BY <2>1, <2>2, <2>3, <2>4, <2>6, <3>1, Zenon
  <2> QED
    BY <2>5, <2>6
<1> HIDE DEF P
<1>3. \A s \in Seq(S) : s \in P
  BY <1>1, <1>2, Filters!SequenceInduction
<1> QED
  BY <1>3 DEF P

\* The least of some numbers.
LEMMA LeastOf ==
  ASSUME NEW S \in SUBSET Nat, NEW m \in S, \A i \in S : m <= i
  PROVE  (CHOOSE i \in S : \A j \in S : i <= j) = m
<1>1. \A i \in S : (\A j \in S : i <= j) => i = m
  OBVIOUS
<1> QED
  BY <1>1

\* Some numbers have a least one.
LEMMA LeastExists ==
  ASSUME NEW S \in SUBSET Nat, S # {}
  PROVE  \E m \in S : \A j \in S : m <= j
<1>1. PICK m \in S : \A j \in S : ~ (<<j, m>> \in Filters!LessThan)
  BY Filters!WFMin, Filters!LessThanWellFounded
<1>2. ASSUME NEW j \in S PROVE m <= j
  <2>1. j \in Nat /\ m \in Nat /\ ~ (<<j, m>> \in Filters!LessThan)
    BY <1>1
  <2> QED
    BY <2>1 DEF Filters!LessThan
<1> QED
  BY <1>2

-----------------------------------------------------------------------------
(* A message and its lines                                                 *)

\* The two parts of a line.
LEMMA LineHas == \A k, v : Line(k, v).label = k /\ Line(k, v).text = v
BY DEF Line

\* The fields that a message writes.
Present(fields) == {k \in Range(FIELD_PREFIXES) : fields[k] \notin {Missing, ""}}

\* The prefixes are a list, of eight different names.
LEMMA PrefixesAreAList == FIELD_PREFIXES \in Seq(Range(FIELD_PREFIXES))
<1>1. DOMAIN FIELD_PREFIXES = 1..8 /\ FIELD_PREFIXES = [i \in 1..8 |-> FIELD_PREFIXES[i]]
  BY DEF FIELD_PREFIXES
<1> QED
  BY <1>1 DEF Range

\* Its names.
LEMMA PrefixesAre ==
  Range(FIELD_PREFIXES) = {"uri", "version", "chainId", "nonce", "issuedAt", "expirationTime",
                           "notBefore", "requestId"}
<1>1. DOMAIN FIELD_PREFIXES = {1, 2, 3, 4, 5, 6, 7, 8}
  <2>1. DOMAIN FIELD_PREFIXES = 1..8 /\ 1..8 = {1, 2, 3, 4, 5, 6, 7, 8}
    BY DEF FIELD_PREFIXES
  <2> QED
    BY <2>1
<1> QED
  BY <1>1 DEF Range, FIELD_PREFIXES

\* The fields' lines: of each that is present, and of no other.
LEMMA FieldLinesAre ==
  ASSUME NEW fields, NEW n, n = Len(FieldLines(fields))
  PROVE  /\ FieldLines(fields) \in Seq({Line(k, fields[k]) : k \in Present(fields)})
         /\ n \in Nat /\ DOMAIN FieldLines(fields) = 1..n
         /\ \A i \in 1..n : \E k \in Present(fields) : FieldLines(fields)[i] = Line(k, fields[k])
         /\ \A k \in Present(fields) : \E i \in 1..n : FieldLines(fields)[i] = Line(k, fields[k])
<1> DEFINE kept == Filter(FIELD_PREFIXES, Present(fields))
<1>1. FIELD_PREFIXES \in Seq(Range(FIELD_PREFIXES))
  BY PrefixesAreAList
<1>2. kept \in Seq(Range(FIELD_PREFIXES)) /\ Range(kept) = Range(FIELD_PREFIXES) \cap Present(fields)
  BY <1>1, FilterKeeps
<1>3. FieldLines(fields) = [i \in DOMAIN kept |-> Line(kept[i], fields[kept[i]])]
  BY DEF FieldLines, Present
<1> HIDE DEF kept
<1>4. Range(kept) = Present(fields)
  BY <1>2 DEF Present
<1>5. DOMAIN kept = 1..Len(kept) /\ Len(kept) \in Nat
  BY <1>2
<1>6. n = Len(kept) /\ DOMAIN FieldLines(fields) = 1..n
  BY <1>3, <1>5
<1>7. \A i \in 1..n : kept[i] \in Present(fields) /\ FieldLines(fields)[i] = Line(kept[i], fields[kept[i]])
  BY <1>3, <1>4, <1>5, <1>6 DEF Range
<1>8. \A k \in Present(fields) : \E i \in 1..n : k = kept[i]
  BY <1>4, <1>5, <1>6 DEF Range
<1>9. FieldLines(fields) \in Seq({Line(k, fields[k]) : k \in Present(fields)})
  BY <1>3, <1>5, <1>6, <1>7
<1> QED
  BY <1>5, <1>6, <1>7, <1>8, <1>9

\* The same fields, the same lines.
LEMMA FieldLinesSame ==
  ASSUME NEW f, NEW g, Present(f) = Present(g), \A k \in Present(f) : f[k] = g[k]
  PROVE  FieldLines(f) = FieldLines(g)
<1> DEFINE kept == Filter(FIELD_PREFIXES, Present(f))
<1>1. FIELD_PREFIXES \in Seq(Range(FIELD_PREFIXES))
  BY PrefixesAreAList
<1>2. Range(kept) = Range(FIELD_PREFIXES) \cap Present(f)
  BY <1>1, FilterKeeps
<1>3. /\ FieldLines(f) = [i \in DOMAIN kept |-> Line(kept[i], f[kept[i]])]
      /\ FieldLines(g) = [i \in DOMAIN kept |-> Line(kept[i], g[kept[i]])]
  BY DEF FieldLines, Present
<1> HIDE DEF kept
<1>4. \A i \in DOMAIN kept : kept[i] \in Present(f)
  BY <1>2 DEF Range
<1> QED
  BY <1>3, <1>4

\* The resources' lines, under a header.
LEMMA ResourceLinesAre ==
  ASSUME NEW S, NEW resources \in Seq(S)
  PROVE  /\ ResourceLines(resources) \in
              Seq({Line("resources", "")} \cup {Line("item", x) : x \in S})
         /\ Len(ResourceLines(resources)) = IF resources = <<>> THEN 0 ELSE Len(resources) + 1
         /\ resources # <<>> =>
              /\ ResourceLines(resources)[1] = Line("resources", "")
              /\ \A i \in 1..Len(resources) :
                   ResourceLines(resources)[i + 1] = Line("item", resources[i])
<1> DEFINE T == {Line("resources", "")} \cup {Line("item", x) : x \in S}
<1>1. CASE resources = <<>>
  BY <1>1 DEF ResourceLines
<1>2. CASE resources # <<>>
  <2> DEFINE items == [i \in DOMAIN resources |-> Line("item", resources[i])]
             top == <<Line("resources", "")>>
  <2>1. /\ items \in Seq(T) /\ Len(items) = Len(resources) /\ Len(resources) \in Nat
        /\ \A i \in 1..Len(resources) : items[i] = Line("item", resources[i])
    <3>1. DOMAIN resources = 1..Len(resources) /\ \A i \in 1..Len(resources) : resources[i] \in S
      OBVIOUS
    <3>2. \A x \in S : Line("item", x) \in T
      OBVIOUS
    <3> HIDE DEF T
    <3> QED
      BY <3>1, <3>2
  <2>2. top \in Seq(T) /\ Len(top) = 1 /\ top[1] = Line("resources", "")
    OBVIOUS
  <2>3. ResourceLines(resources) = top \o items
    BY <1>2 DEF ResourceLines
  <2> HIDE DEF T, items, top
  <2>4. /\ top \o items \in Seq(T) /\ Len(top \o items) = Len(resources) + 1
        /\ (top \o items)[1] = top[1]
        /\ \A i \in 1..Len(resources) : (top \o items)[i + 1] = items[i]
    <3>1. top \in Seq(T) /\ items \in Seq(T)
      BY <2>1, <2>2
    <3>2. /\ top \o items \in Seq(T) /\ Len(top \o items) = Len(top) + Len(items)
          /\ \A i \in 1..Len(top) : (top \o items)[i] = top[i]
          /\ \A i \in 1..Len(items) : (top \o items)[Len(top) + i] = items[i]
      BY ONLY <3>1
    <3>3. Len(top) = 1 /\ Len(items) = Len(resources) /\ Len(resources) \in Nat
      BY <2>1, <2>2
    <3> QED
      BY ONLY <3>2, <3>3
  <2> QED
    BY <1>2, <2>1, <2>2, <2>3, <2>4 DEF T
<1> QED
  BY <1>1, <1>2

\* Where the lines before the fields end: two lines, a blank one, and the statement,
\* if there is one, before another.
BodyAt(statement) == IF statement = Blank THEN 4 ELSE 5

LinesOf(origin, accountType, address, statement, fields, resources) ==
  {Line(accountType, origin), Line("none", address), Blank, statement, Line("resources", "")}
  \cup {Line(k, fields[k]) : k \in Present(fields)} \cup {Line("item", x) : x \in Range(resources)}

\* Lists of fewer elements are lists of more.
LEMMA SubsetSeq ==
  ASSUME NEW S, NEW T, S \subseteq T
  PROVE  Seq(S) \subseteq Seq(T)
OBVIOUS

\* Those lines.
OpeningShape(o, b, T, x, y, z, s) ==
  /\ o \in Seq(T) /\ Len(o) = b
  /\ o[1] = x /\ o[2] = y /\ o[3] = z /\ o[b] = z /\ (s # z => o[4] = s)

\* A message opens so, whatever its lines are.
LEMMA OpeningIs ==
  ASSUME NEW T, NEW x \in T, NEW y \in T, NEW z \in T, NEW s \in T,
         NEW o, o = <<x, y, z>> \o (IF s = z THEN <<>> ELSE <<s>>) \o <<z>>,
         NEW b, b = IF s = z THEN 4 ELSE 5
  PROVE  OpeningShape(o, b, T, x, y, z, s)
<1> USE DEF OpeningShape
<1>1. CASE s = z
  <2>1. o = <<x, y, z>> \o <<>> \o <<z>>
    BY <1>1
  <2>2. <<x, y, z>> \o <<>> = <<x, y, z>>
    OBVIOUS
  <2>3. o = <<x, y, z>> \o <<z>>
    BY <2>1, <2>2
  <2> QED
    BY <1>1, <2>3
<1>2. CASE s # z
  <2> DEFINE q == <<x, y, z>> \o <<s>>
             w == <<z>>
  <2>1. q \in Seq(T) /\ Len(q) = 4 /\ q[1] = x /\ q[2] = y /\ q[3] = z /\ q[4] = s
    BY <1>2
  <2>2. w \in Seq(T) /\ Len(w) = 1 /\ w[1] = z
    OBVIOUS
  <2>3. o = q \o w /\ b = 5
    BY <1>2
  <2> HIDE DEF q, w
  <2>4. q \in Seq(T) /\ w \in Seq(T)
    BY <2>1, <2>2
  <2>5. /\ q \o w \in Seq(T) /\ Len(q \o w) = Len(q) + Len(w)
        /\ \A i \in 1..Len(q) : (q \o w)[i] = q[i]
        /\ \A i \in 1..Len(w) : (q \o w)[Len(q) + i] = w[i]
    BY ONLY <2>4
  <2>6. /\ o[1] = x /\ o[2] = y /\ o[3] = z /\ o[4] = s /\ o[5] = z /\ Len(o) = 5
    BY ONLY <2>1, <2>2, <2>3, <2>5
  <2> QED
    BY ONLY <1>2, <2>3, <2>5, <2>6
<1> QED
  BY <1>1, <1>2

\* A message, place by place.
MessageShape(c, origin, accountType, address, statement, fields, resources) ==
  LET b == BodyAt(statement)
      n == Len(FieldLines(fields))
      r == Len(ResourceLines(resources))
  IN  /\ n \in Nat /\ r \in Nat /\ Len(c) = b + n + r
      /\ c \in Seq(LinesOf(origin, accountType, address, statement, fields, resources))
      /\ c[1] = Line(accountType, origin) /\ c[2] = Line("none", address) /\ c[3] = Blank
      /\ c[b] = Blank /\ (statement # Blank => c[4] = statement)
      /\ \A i \in 1..n : c[b + i] = FieldLines(fields)[i]
      /\ \A i \in 1..r : c[b + n + i] = ResourceLines(resources)[i]

\* A message has the shape of MessageShape.
LEMMA MessageIs ==
  ASSUME NEW origin, NEW accountType, NEW address, NEW statement, NEW fields,
         NEW resources, resources \in Seq(Range(resources))
  PROVE  MessageShape(Compose(origin, accountType, address, statement, fields, resources),
                      origin, accountType, address, statement, fields, resources)
<1> DEFINE T == LinesOf(origin, accountType, address, statement, fields, resources)
           x == Line(accountType, origin)
           y == Line("none", address)
           O == <<x, y, Blank>> \o (IF statement = Blank THEN <<>> ELSE <<statement>>) \o <<Blank>>
           F == FieldLines(fields)
           R == ResourceLines(resources)
           c == Compose(origin, accountType, address, statement, fields, resources)
           b == IF statement = Blank THEN 4 ELSE 5
           n == Len(F)
           r == Len(R)
<1>1. /\ x \in T /\ y \in T /\ Blank \in T /\ statement \in T
      /\ {Line(k, fields[k]) : k \in Present(fields)} \subseteq T
      /\ {Line("resources", "")} \cup {Line("item", e) : e \in Range(resources)} \subseteq T
  BY DEF LinesOf
<1>2. c = (O \o F) \o R
  BY DEF Compose
<1>3. F \in Seq({Line(k, fields[k]) : k \in Present(fields)}) /\ n \in Nat
  BY FieldLinesAre
<1>4. R \in Seq({Line("resources", "")} \cup {Line("item", e) : e \in Range(resources)})
  BY ResourceLinesAre
<1>17. /\ O = <<x, y, Blank>> \o (IF statement = Blank THEN <<>> ELSE <<statement>>) \o <<Blank>>
       /\ b = IF statement = Blank THEN 4 ELSE 5
  OBVIOUS
<1> HIDE DEF T, F, R, x, y, c, O, b
<1>5. F \in Seq(T) /\ R \in Seq(T)
  BY ONLY <1>1, <1>3, <1>4, SubsetSeq
<1>6. /\ O \in Seq(T) /\ Len(O) = b
      /\ O[1] = x /\ O[2] = y /\ O[3] = Blank /\ O[b] = Blank
      /\ statement # Blank => O[4] = statement
  <2>1. OpeningShape(O, b, T, x, y, Blank, statement)
    BY ONLY <1>1, <1>17, OpeningIs, Zenon
  <2> QED
    BY ONLY <2>1 DEF OpeningShape
<1>7. b \in 4..5 /\ (statement # Blank => b = 5)
  BY ONLY <1>17
<1>8. /\ O \o F \in Seq(T) /\ Len(O \o F) = Len(O) + Len(F) /\ Len(F) \in Nat
      /\ \A i \in 1..Len(O) : (O \o F)[i] = O[i]
      /\ \A i \in 1..Len(F) : (O \o F)[Len(O) + i] = F[i]
  <2>1. O \in Seq(T)
    BY <1>6
  <2> QED
    BY ONLY <1>5, <2>1
<1>9. /\ (O \o F) \o R \in Seq(T) /\ Len((O \o F) \o R) = Len(O \o F) + Len(R)
      /\ \A i \in 1..Len(O \o F) : ((O \o F) \o R)[i] = (O \o F)[i]
      /\ \A i \in 1..Len(R) : ((O \o F) \o R)[Len(O \o F) + i] = R[i]
  BY ONLY <1>5, <1>8
<1>10. n \in Nat /\ r \in Nat /\ n = Len(F) /\ r = Len(R)
  BY ONLY <1>5
<1> HIDE DEF n, r
<1>11. c \in Seq(T) /\ Len(c) = b + n + r
  BY ONLY <1>2, <1>6, <1>8, <1>9, <1>10
<1>12. \A i \in 1..b : c[i] = O[i]
  BY ONLY <1>2, <1>6, <1>7, <1>8, <1>9, <1>10
<1>13. ASSUME NEW i \in 1..n PROVE c[b + i] = F[i]
  <2>1. b + i \in 1..Len(O \o F)
    BY ONLY <1>6, <1>7, <1>8, <1>10, i \in 1..n
  <2> QED
    BY ONLY <1>2, <1>6, <1>8, <1>9, <1>10, <2>1, i \in 1..n
<1>14. \A i \in 1..r : c[b + n + i] = R[i]
  BY ONLY <1>2, <1>6, <1>8, <1>9, <1>10
<1>15. 1 \in 1..b /\ 2 \in 1..b /\ 3 \in 1..b /\ b \in 1..b /\ (statement # Blank => 4 \in 1..b)
  BY ONLY <1>7
<1>16. c[1] = x /\ c[2] = y /\ c[3] = Blank /\ c[b] = Blank /\ (statement # Blank => c[4] = statement)
  BY ONLY <1>6, <1>12, <1>15
<1> QED
  BY <1>10, <1>11, <1>13, <1>14, <1>16 DEF MessageShape, BodyAt, T, F, R, c, x, y, b, n, r

\* What the lines from the third on are: no field and no header before the fields,
\* each field that is present, then the header and nothing but resources.
LabelShape(c, b, n, fields, resources) ==
  /\ n \in Nat /\ b \in 4..5 /\ Len(resources) \in Nat
  /\ resources = <<>> => Len(c) = b + n
  /\ resources # <<>> => Len(c) = b + n + Len(resources) + 1
  /\ \A i \in 3..b : c[i].label = "none"
  /\ \A i \in (b + 1)..(b + n) : \E k \in Present(fields) : c[i] = Line(k, fields[k])
  /\ \A k \in Present(fields) : \E i \in (b + 1)..(b + n) : c[i] = Line(k, fields[k])
  /\ Len(c) > b + n => c[b + n + 1] = Line("resources", "")
  /\ \A i \in (b + n + 2)..Len(c) : c[i].label = "item"
  /\ resources # <<>> =>
       \A i \in 1..Len(resources) : c[b + n + 1 + i] = Line("item", resources[i])

\* Its lines have the labels of LabelShape.
LEMMA LabelsAre ==
  ASSUME NEW origin, NEW accountType, NEW address, NEW statement, NEW fields,
         NEW resources, resources \in Seq(Range(resources)), statement.label = "none",
         NEW c, c = Compose(origin, accountType, address, statement, fields, resources),
         NEW b, b = BodyAt(statement), NEW n, n = Len(FieldLines(fields))
  PROVE  LabelShape(c, b, n, fields, resources)
<1> DEFINE F == FieldLines(fields)
           R == ResourceLines(resources)
           r == Len(R)
<1>1. /\ n \in Nat /\ r \in Nat /\ Len(c) = b + n + r
      /\ c[3] = Blank /\ c[b] = Blank /\ (statement # Blank => c[4] = statement)
      /\ \A i \in 1..n : c[b + i] = F[i]
      /\ \A i \in 1..r : c[b + n + i] = R[i]
  <2>1. MessageShape(c, origin, accountType, address, statement, fields, resources)
    BY MessageIs
  <2> QED
    BY <2>1 DEF MessageShape
<1>2. /\ \A i \in 1..n : \E k \in Present(fields) : F[i] = Line(k, fields[k])
      /\ \A k \in Present(fields) : \E i \in 1..n : F[i] = Line(k, fields[k])
  BY FieldLinesAre
<1>3. /\ r = IF resources = <<>> THEN 0 ELSE Len(resources) + 1
      /\ resources # <<>> =>
           /\ R[1] = Line("resources", "")
           /\ \A i \in 1..Len(resources) : R[i + 1] = Line("item", resources[i])
  BY ResourceLinesAre
<1>4. Len(resources) \in Nat /\ b \in 4..5 /\ (statement = Blank <=> b = 4)
  BY DEF BodyAt
<1> HIDE DEF F, R, r
<1>11. b \in 4..5 /\ n \in Nat /\ r \in Nat /\ Len(c) = b + n + r /\ Len(resources) \in Nat
  BY ONLY <1>1, <1>4
<1>12. /\ resources = <<>> => r = 0
       /\ resources # <<>> => r = Len(resources) + 1
  BY ONLY <1>3
<1>5. ASSUME NEW i \in 3..b PROVE c[i].label = "none"
  <2>1. Blank.label = "none"
    BY LineHas DEF Blank
  <2>2. i = 3 \/ i = b \/ (i = 4 /\ statement # Blank)
    BY ONLY <1>4, i \in 3..b
  <2> QED
    BY <1>1, <2>1, <2>2
<1>6. ASSUME NEW i \in (b + 1)..(b + n)
      PROVE  \E k \in Present(fields) : c[i] = Line(k, fields[k])
  <2>1. i - b \in 1..n /\ b + (i - b) = i
    BY ONLY <1>11, i \in (b + 1)..(b + n)
  <2>2. c[i] = F[i - b]
    BY ONLY <1>1, <2>1
  <2> QED
    BY ONLY <1>2, <2>1, <2>2
<1>7. ASSUME NEW k \in Present(fields)
      PROVE  \E i \in (b + 1)..(b + n) : c[i] = Line(k, fields[k])
  <2>1. PICK i \in 1..n : F[i] = Line(k, fields[k])
    BY <1>2
  <2>2. b + i \in (b + 1)..(b + n)
    BY ONLY <1>11, i \in 1..n
  <2>3. c[b + i] = F[i]
    BY <1>1
  <2> QED
    BY ONLY <2>1, <2>2, <2>3
<1>8. ASSUME NEW i \in 1..Len(resources), resources # <<>>
      PROVE  c[b + n + 1 + i] = Line("item", resources[i])
  <2>1. i + 1 \in 1..r /\ b + n + (i + 1) = b + n + 1 + i
    BY ONLY <1>11, <1>12, <1>8
  <2>2. c[b + n + 1 + i] = R[i + 1]
    BY ONLY <1>1, <2>1
  <2> QED
    BY <1>3, <1>8, <2>2
<1>9. ASSUME Len(c) > b + n PROVE c[b + n + 1] = Line("resources", "")
  <2>1. 1 \in 1..r /\ resources # <<>>
    BY ONLY <1>11, <1>12, <1>9
  <2> QED
    BY <1>1, <1>3, <2>1
<1>10. ASSUME NEW i \in (b + n + 2)..Len(c) PROVE c[i].label = "item"
  <2>1. resources # <<>>
    BY ONLY <1>11, <1>12, i \in (b + n + 2)..Len(c)
  <2>2. i - (b + n + 1) \in 1..Len(resources) /\ b + n + 1 + (i - (b + n + 1)) = i
    BY ONLY <1>11, <1>12, <2>1, i \in (b + n + 2)..Len(c)
  <2>3. c[i] = Line("item", resources[i - (b + n + 1)])
    BY ONLY <1>8, <2>1, <2>2
  <2> QED
    BY <2>3, LineHas
<1>13. /\ resources = <<>> => Len(c) = b + n
       /\ resources # <<>> => Len(c) = b + n + Len(resources) + 1
  BY ONLY <1>11, <1>12
<1> QED
  BY ONLY <1>11, <1>5, <1>6, <1>7, <1>8, <1>9, <1>10, <1>13 DEF LabelShape

-----------------------------------------------------------------------------
(* Parsing a message                                                       *)

\* The first field, and the header or the end.
LEMMA PlacesFound ==
  ASSUME NEW c, NEW b, NEW n, NEW fields, NEW resources,
         LabelShape(c, b, n, fields, resources), Present(fields) # {}
  PROVE  /\ FirstIndex(c, LAMBDA line : line.label \in Range(FIELD_PREFIXES) \cup {"resources"}) = b + 1
         /\ ResourcesAt(c) = b + n + 1
<1>1. "none" \notin Range(FIELD_PREFIXES) \cup {"resources"}
  BY PrefixesAre
<1>2. Present(fields) \subseteq Range(FIELD_PREFIXES) /\ "resources" \notin Present(fields)
  BY PrefixesAre DEF Present
<1>3. n > 0 /\ n \in Nat /\ b \in 4..5 /\ Len(c) \in Nat /\ Len(c) >= b + n
  <2>1. \E i \in (b + 1)..(b + n) : TRUE
    BY DEF LabelShape
  <2>2. /\ n \in Nat /\ b \in 4..5 /\ Len(resources) \in Nat
        /\ resources = <<>> => Len(c) = b + n
        /\ resources # <<>> => Len(c) = b + n + Len(resources) + 1
    BY DEF LabelShape
  <2> QED
    BY ONLY <2>1, <2>2
<1>4. FirstIndex(c, LAMBDA line : line.label \in Range(FIELD_PREFIXES) \cup {"resources"}) = b + 1
  <2> DEFINE S == {i \in 3..Len(c) : c[i].label \in Range(FIELD_PREFIXES) \cup {"resources"}}
  <2>1. b + 1 \in (b + 1)..(b + n) /\ b + 1 \in 3..Len(c)
    BY ONLY <1>3
  <2>2. b + 1 \in S
    <3>1. PICK k \in Present(fields) : c[b + 1] = Line(k, fields[k])
      BY <2>1 DEF LabelShape
    <3>2. c[b + 1].label = k
      BY <3>1, LineHas
    <3> QED
      BY <1>2, <2>1, <3>2
  <2>3. ASSUME NEW i \in S PROVE b + 1 <= i
    <3>1. ~ (i \in 3..b)
      BY <1>1 DEF LabelShape
    <3>2. i \in 3..Len(c)
      OBVIOUS
    <3> QED
      BY ONLY <1>3, <3>1, <3>2
  <2>4. S \in SUBSET Nat
    BY <1>3
  <2>5. FirstIndex(c, LAMBDA line : line.label \in Range(FIELD_PREFIXES) \cup {"resources"}) =
          IF S = {} THEN Len(c) + 1 ELSE CHOOSE i \in S : \A j \in S : i <= j
    BY DEF FirstIndex, Indices
  <2> HIDE DEF S
  <2> QED
    BY <2>2, <2>3, <2>4, <2>5, LeastOf
<1>5. ResourcesAt(c) = b + n + 1
  <2> DEFINE S == {i \in 3..Len(c) : c[i].label = "resources"}
  <2>1. ResourcesAt(c) = IF S = {} THEN Len(c) + 1 ELSE CHOOSE i \in S : \A j \in S : i <= j
    BY DEF ResourcesAt, FirstIndex, Indices
  <2>2. \A i \in S : b + n + 1 <= i
    <3>1. TAKE i \in S
    <3>2. ~ (i \in 3..b)
      BY DEF LabelShape
    <3>3. ~ (i \in (b + 1)..(b + n))
      <4>1. SUFFICES ASSUME i \in (b + 1)..(b + n) PROVE FALSE
        OBVIOUS
      <4>2. PICK k \in Present(fields) : c[i] = Line(k, fields[k])
        BY <4>1 DEF LabelShape
      <4> QED
        BY <1>2, <4>2, LineHas
    <3>4. i \in 3..Len(c)
      OBVIOUS
    <3> QED
      BY ONLY <1>3, <3>2, <3>3, <3>4
  <2>3. S \in SUBSET Nat
    BY <1>3
  <2>4. CASE Len(c) = b + n
    <3>1. S = {}
      <4>1. \A i \in S : i <= Len(c) /\ i \in Nat
        BY <1>3
      <4> HIDE DEF S
      <4> QED
        BY <1>3, <2>2, <2>4, <4>1
    <3> HIDE DEF S
    <3> QED
      BY <1>3, <2>1, <2>4, <3>1
  <2>5. CASE Len(c) > b + n
    <3>1. b + n + 1 \in 3..Len(c)
      BY ONLY <1>3, <2>5
    <3>2. c[b + n + 1] = Line("resources", "")
      BY <2>5 DEF LabelShape
    <3>3. b + n + 1 \in S
      <4>1. c[b + n + 1].label = "resources"
        BY ONLY <3>2, LineHas
      <4> QED
        BY ONLY <3>1, <4>1
    <3> HIDE DEF S
    <3> QED
      BY <2>1, <2>2, <2>3, <3>3, LeastOf
  <2> QED
    BY ONLY <1>3, <2>4, <2>5
<1> QED
  BY <1>4, <1>5

\* Each field is found with its value, or not at all.
LEMMA FieldIsParsed ==
  ASSUME NEW c, NEW b, NEW n, NEW fields, NEW resources,
         LabelShape(c, b, n, fields, resources), Present(fields) # {},
         NEW key \in Range(FIELD_PREFIXES)
  PROVE  parsedField(c, key) = IF key \in Present(fields) THEN fields[key] ELSE Missing
<1> DEFINE S == {i \in 3..Len(c) : c[i].label = key /\ c[i].text # ""}
           at == IF S = {} THEN Len(c) + 1 ELSE CHOOSE i \in S : \A j \in S : i <= j
<1>1. parsedField(c, key) = IF at < b + n + 1 THEN c[at].text ELSE Missing
  <2>1. parsedField(c, key) = IF at < ResourcesAt(c) THEN c[at].text ELSE Missing
    BY DEF parsedField, FirstIndex, Indices
  <2>2. ResourcesAt(c) = b + n + 1
    BY PlacesFound
  <2> QED
    BY ONLY <2>1, <2>2
<1>2. n \in Nat /\ b \in 4..5 /\ Len(c) \in Nat /\ Len(c) >= b + n
  <2>1. /\ n \in Nat /\ b \in 4..5 /\ Len(resources) \in Nat
        /\ resources = <<>> => Len(c) = b + n
        /\ resources # <<>> => Len(c) = b + n + Len(resources) + 1
    BY DEF LabelShape
  <2> QED
    BY ONLY <2>1
<1>3. key \notin {"none", "resources", "item"}
  BY PrefixesAre
<1>4. ASSUME NEW i \in 3..Len(c), c[i].label = key, c[i].text # ""
      PROVE  i \in (b + 1)..(b + n) /\ key \in Present(fields) /\ c[i].text = fields[key]
  <2>1. ~ (i \in 3..b)
    BY <1>3, <1>4 DEF LabelShape
  <2>2. ~ (i \in (b + n + 2)..Len(c))
    BY <1>3, <1>4 DEF LabelShape
  <2>3. i # b + n + 1
    <3>1. SUFFICES ASSUME i = b + n + 1 PROVE FALSE
      OBVIOUS
    <3>3. Len(c) > b + n
      BY ONLY <1>2, <3>1, i \in 3..Len(c)
    <3>4. c[i] = Line("resources", "")
      BY <3>1, <3>3 DEF LabelShape
    <3> QED
      BY ONLY <1>3, <1>4, <3>4, LineHas
  <2>5. i \in (b + 1)..(b + n)
    BY ONLY <1>2, <2>1, <2>2, <2>3, i \in 3..Len(c)
  <2>6. PICK k \in Present(fields) : c[i] = Line(k, fields[k])
    BY <2>5 DEF LabelShape
  <2>7. c[i].label = k /\ c[i].text = fields[k]
    BY ONLY <2>6, LineHas
  <2>8. k = key
    BY ONLY <1>4, <2>7, Zenon
  <2> QED
    BY ONLY <2>5, <2>7, <2>8, k \in Present(fields)
<1>5. CASE key \in Present(fields)
  <2>1. PICK i \in (b + 1)..(b + n) : c[i] = Line(key, fields[key])
    BY <1>5 DEF LabelShape
  <2>2. i \in 3..Len(c)
    BY ONLY <1>2, i \in (b + 1)..(b + n)
  <2>3. i \in S
    <3>1. fields[key] # ""
      BY <1>5 DEF Present
    <3>2. c[i].label = key /\ c[i].text = fields[key]
      BY ONLY <2>1, LineHas
    <3> QED
      BY ONLY <2>2, <3>1, <3>2
  <2>4. S \in SUBSET Nat /\ S # {}
    <3>1. 3..Len(c) \subseteq Nat
      BY <1>2
    <3> QED
      BY ONLY <2>3, <3>1, Zenon
  <2>5. at \in S
    <3> HIDE DEF S
    <3>1. PICK m \in S : \A j \in S : m <= j
      BY ONLY <2>4, LeastExists
    <3> QED
      BY <2>4, <3>1, LeastOf
  <2>6. at \in (b + 1)..(b + n) /\ c[at].text = fields[key]
    <3>1. at \in 3..Len(c) /\ c[at].label = key /\ c[at].text # ""
      <4> HIDE DEF at
      <4> QED
        BY <2>5
    <3> HIDE DEF S, at
    <3> QED
      BY <1>4, <3>1
  <2> HIDE DEF S, at
  <2>7. at < b + n + 1
    BY ONLY <1>2, <2>6
  <2> QED
    BY <1>1, <1>5, <2>6, <2>7
<1>6. CASE key \notin Present(fields)
  <2>1. S = {}
    BY <1>4, <1>6
  <2>2. at = Len(c) + 1
    BY <2>1
  <2> HIDE DEF S, at
  <2> QED
    BY <1>1, <1>2, <1>6, <2>2
<1> QED
  BY <1>5, <1>6

\* The statement is what is left between the blank lines.
LEMMA StatementIsParsed ==
  ASSUME NEW T, NEW c \in Seq(T), NEW statement,
         NEW b, b = BodyAt(statement), Len(c) >= b,
         c[3] = Blank, c[b] = Blank, statement # Blank => c[4] = statement
  PROVE  trimmed(SubSeq(c, 3, b)) = IF statement = Blank THEN <<>> ELSE <<statement>>
<1> DEFINE s == SubSeq(c, 3, b)
           filled == {i \in DOMAIN s : s[i] # Blank}
<1>1. b \in 4..5 /\ (statement = Blank <=> b = 4) /\ Len(c) \in Nat
  BY DEF BodyAt
<1>2. s \in Seq(T) /\ Len(s) = b - 2 /\ \A i \in 1..(b - 2) : s[i] = c[i + 2]
  BY ONLY <1>1, c \in Seq(T), Len(c) >= b
<1>3. DOMAIN s = 1..(b - 2)
  BY <1>2
<1>4. trimmed(s) = IF filled = {} THEN <<>>
                   ELSE SubSeq(s, CHOOSE i \in filled : \A j \in filled : i <= j,
                                  CHOOSE i \in filled : \A j \in filled : i >= j)
  BY DEF trimmed
<1> HIDE DEF s
<1>5. CASE statement = Blank
  <2>1. b = 4 /\ 1..(b - 2) = {1, 2}
    BY <1>1, <1>5
  <2>2. s[1] = c[3] /\ s[2] = c[4]
    BY <1>2, <2>1
  <2>3. filled = {}
    BY <1>3, <2>1, <2>2
  <2> HIDE DEF filled
  <2>4. trimmed(s) = <<>>
    BY <1>4, <2>3
  <2> QED
    BY <1>5, <2>4 DEF s
<1>6. CASE statement # Blank
  <2>1. b = 5 /\ 1..(b - 2) = {1, 2, 3}
    BY <1>1, <1>6
  <2>2. s[1] = c[3] /\ s[2] = c[4] /\ s[3] = c[5]
    BY <1>2, <2>1
  <2>3. filled = {2}
    BY <1>3, <1>6, <2>1, <2>2
  <2> HIDE DEF filled
  <2>4. /\ (CHOOSE i \in filled : \A j \in filled : i <= j) = 2
        /\ (CHOOSE i \in filled : \A j \in filled : i >= j) = 2
    BY <2>3
  <2>5. SubSeq(s, 2, 2) = <<s[2]>>
    <3>1. s \in Seq(T) /\ Len(s) = 3
      BY <1>2, <2>1
    <3> DEFINE one == SubSeq(s, 2, 2)
    <3>2. one \in Seq(T) /\ Len(one) = 1 /\ one[1] = s[2]
      BY ONLY <3>1
    <3> HIDE DEF one
    <3>3. one = <<one[1]>>
      BY ONLY <3>2
    <3> QED
      BY <3>2, <3>3 DEF one
  <2>6. trimmed(s) = SubSeq(s, 2, 2)
    BY <1>4, <2>3, <2>4
  <2> QED
    BY <1>6, <2>2, <2>5, <2>6 DEF s
<1> QED
  BY <1>5, <1>6

\* The texts of what follows the header are the resources.
LEMMA ResourcesAreParsed ==
  ASSUME NEW c, NEW b, NEW n, NEW fields, NEW resources, LabelShape(c, b, n, fields, resources),
         NEW T, c \in Seq(T), resources \in Seq(Range(resources)),
         NEW items, items = Filter(SubSeq(c, b + n + 2, Len(c)), {line \in Range(c) : line.label = "item"})
  PROVE  [i \in DOMAIN items |-> items[i].text] = resources
<1> DEFINE s == SubSeq(c, b + n + 2, Len(c))
           K == {line \in Range(c) : line.label = "item"}
<1>1. /\ n \in Nat /\ b \in 4..5 /\ Len(resources) \in Nat
      /\ resources = <<>> => Len(c) = b + n
      /\ resources # <<>> => Len(c) = b + n + Len(resources) + 1
  BY DEF LabelShape
<1>2. CASE resources = <<>>
  <2>1. s = <<>>
    <3>1. b + n + 2 > Len(c) /\ b + n + 2 \in Nat /\ Len(c) \in Nat
      BY ONLY <1>1, <1>2
    <3> QED
      BY <3>1
  <2>2. items = <<>>
    BY <2>1, FilterOfEmpty
  <2>3. DOMAIN items = 1..0 /\ Len(resources) = 0
    BY <1>2, <2>2
  <2>4. resources = [i \in 1..0 |-> items[i].text]
    BY <1>2
  <2> QED
    BY ONLY <2>3, <2>4
<1>3. CASE resources # <<>>
  <2>1. /\ b + n + 2 \in 1..Len(c) /\ Len(c) \in Nat
        /\ Len(c) - (b + n + 2) + 1 = Len(resources)
    BY ONLY <1>1, <1>3
  <2>2. s \in Seq(T) /\ Len(s) = Len(c) - (b + n + 2) + 1
        /\ \A i \in 1..Len(s) : s[i] = c[(b + n + 2) + i - 1]
    BY ONLY <2>1, c \in Seq(T)
  <2>3. Len(s) = Len(resources) /\ DOMAIN s = 1..Len(resources)
    BY <2>1, <2>2
  <2>4. ASSUME NEW i \in 1..Len(resources) PROVE s[i] = Line("item", resources[i]) /\ s[i] \in Range(c)
    <3>1. (b + n + 2) + i - 1 = b + n + 1 + i /\ b + n + 1 + i \in 1..Len(c)
      BY ONLY <1>1, <1>3, i \in 1..Len(resources)
    <3>2. c[b + n + 1 + i] = Line("item", resources[i])
      BY <1>3 DEF LabelShape
    <3>3. DOMAIN c = 1..Len(c)
      OBVIOUS
    <3>4. s[i] = c[b + n + 1 + i]
      BY <2>2, <2>3, <3>1
    <3> QED
      BY <3>1, <3>2, <3>3, <3>4 DEF Range
  <2>5. \A i \in 1..Len(resources) : s[i] \in K /\ s[i].text = resources[i]
    <3>1. TAKE i \in 1..Len(resources)
    <3>2. s[i].label = "item" /\ s[i].text = resources[i]
      <4> HIDE DEF s
      <4> QED
        BY ONLY <2>4, LineHas, i \in 1..Len(resources)
    <3>3. s[i] \in Range(c)
      BY <2>4
    <3> HIDE DEF s
    <3> QED
      BY ONLY <3>2, <3>3
  <2> HIDE DEF s, K
  <2>6. Range(s) \subseteq K
    BY <2>3, <2>5 DEF Range
  <2>7. items = Filter(s, K)
    BY DEF s, K
  <2>8. items = s
    BY <2>2, <2>6, <2>7, FilterKeeps
  <2>9. [i \in DOMAIN items |-> items[i].text] = [i \in 1..Len(resources) |-> resources[i]]
    BY <2>3, <2>5, <2>8
  <2>10. resources = [i \in 1..Len(resources) |-> resources[i]]
    OBVIOUS
  <2> QED
    BY <2>9, <2>10
<1> QED
  BY <1>2, <1>3

\* Parsing a message gives back what it was composed of.
ParsedShape(p, origin, accountType, address, statement, fields, resources) ==
  /\ p.origin = origin /\ p.accountType = accountType /\ p.address = address
  /\ p.statement = IF statement = Blank THEN <<>> ELSE <<statement>>
  /\ Present(p.fields) = Present(fields) /\ \A k \in Present(fields) : p.fields[k] = fields[k]
  /\ p.resources = resources

\* What parseSiwxMessage makes of a message is what it was composed of.
LEMMA MessageIsParsed ==
  ASSUME NEW origin, NEW accountType, NEW address, NEW statement, NEW fields,
         NEW resources, resources \in Seq(Range(resources)), statement.label = "none",
         Present(fields) # {},
         NEW c, c = Compose(origin, accountType, address, statement, fields, resources)
  PROVE  ParsedShape(parseSiwxMessage(c), origin, accountType, address, statement, fields, resources)
<1> DEFINE b == BodyAt(statement)
           n == Len(FieldLines(fields))
           T == LinesOf(origin, accountType, address, statement, fields, resources)
           first == FirstIndex(c, LAMBDA line : line.label \in Range(FIELD_PREFIXES) \cup {"resources"})
           items == Filter(SubSeq(c, ResourcesAt(c) + 1, Len(c)), {line \in Range(c) : line.label = "item"})
           found == [k \in Range(FIELD_PREFIXES) |-> parsedField(c, k)]
           texts == [i \in DOMAIN items |-> items[i].text]
<1>1. LabelShape(c, b, n, fields, resources)
  BY LabelsAre
<1>2. MessageShape(c, origin, accountType, address, statement, fields, resources)
  BY MessageIs
<1>3. parseSiwxMessage(c) =
        [origin |-> c[1].text, accountType |-> c[1].label, address |-> c[2].text,
         statement |-> trimmed(SubSeq(c, 3, first - 1)), fields |-> found, resources |-> texts]
  BY DEF parseSiwxMessage
<1>4. c[1].text = origin /\ c[1].label = accountType /\ c[2].text = address
  BY <1>2, LineHas DEF MessageShape
<1>5. n \in Nat /\ b \in 4..5 /\ Len(c) >= b
  <2>1. n \in Nat /\ b \in 4..5 /\ Len(resources) \in Nat
        /\ (resources = <<>> => Len(c) = b + n)
        /\ (resources # <<>> => Len(c) = b + n + Len(resources) + 1)
    BY <1>1 DEF LabelShape
  <2> QED
    BY ONLY <2>1
<1>6. c \in Seq(T) /\ c[3] = Blank /\ c[b] = Blank /\ (statement # Blank => c[4] = statement)
  BY <1>2 DEF MessageShape
<1> HIDE DEF n, T
<1>7. first = b + 1 /\ ResourcesAt(c) = b + n + 1
  BY <1>1, PlacesFound
<1>8. trimmed(SubSeq(c, 3, first - 1)) = IF statement = Blank THEN <<>> ELSE <<statement>>
  <2>1. first - 1 = b
    BY ONLY <1>5, <1>7
  <2>2. trimmed(SubSeq(c, 3, b)) = IF statement = Blank THEN <<>> ELSE <<statement>>
    BY <1>5, <1>6, StatementIsParsed
  <2> HIDE DEF first
  <2> QED
    BY ONLY <2>1, <2>2
<1>9. texts = resources
  <2>1. b + n + 1 + 1 = b + n + 2
    BY ONLY <1>5
  <2>2. items = Filter(SubSeq(c, b + n + 2, Len(c)), {line \in Range(c) : line.label = "item"})
    BY ONLY <1>7, <2>1
  <2> HIDE DEF items, b
  <2> QED
    BY <1>1, <1>6, <2>2, ResourcesAreParsed
<1>10. \A k \in Range(FIELD_PREFIXES) : found[k] = IF k \in Present(fields) THEN fields[k] ELSE Missing
  BY <1>1, FieldIsParsed
<1> HIDE DEF found, texts, first
<1>11. /\ Present(found) = Present(fields)
       /\ \A k \in Present(fields) : found[k] = fields[k]
  BY <1>10 DEF Present
<1> DEFINE p == parseSiwxMessage(c)
<1>12. /\ p.origin = origin /\ p.accountType = accountType /\ p.address = address
       /\ p.statement = trimmed(SubSeq(c, 3, first - 1)) /\ p.fields = found /\ p.resources = texts
  BY <1>3, <1>4
<1> HIDE DEF p
<1>13. ParsedShape(p, origin, accountType, address, statement, fields, resources)
  BY ONLY <1>8, <1>9, <1>11, <1>12 DEF ParsedShape
<1> QED
  BY <1>13 DEF p

\* And what the API composes of it is the message.
LEMMA MessageIsRebuilt ==
  ASSUME NEW origin, NEW accountType, NEW address, NEW statement, NEW fields,
         NEW resources, resources \in Seq(Range(resources)),
         NEW m, ParsedShape(m, origin, accountType, address, statement, fields, resources)
  PROVE  Rebuilt(m) = Compose(origin, accountType, address, statement, fields, resources)
<1> DEFINE c == Compose(origin, accountType, address, statement, fields, resources)
           whole == Compose(origin, accountType, address, Blank, fields, resources)
<1>1. FieldLines(m.fields) = FieldLines(fields)
  BY FieldLinesSame DEF ParsedShape
<1>2. Compose(m.origin, m.accountType, m.address, Blank, m.fields, m.resources) = whole
  BY <1>1 DEF Compose, ParsedShape
<1>3. Rebuilt(m) = IF m.statement = <<>> THEN whole
                   ELSE SubSeq(whole, 1, 3) \o m.statement \o SubSeq(whole, 4, Len(whole))
  BY <1>2 DEF Rebuilt
<1>4. CASE statement = Blank
  BY <1>3, <1>4 DEF ParsedShape
<1>5. CASE statement # Blank
  <2> DEFINE n == Len(FieldLines(fields))
             r == Len(ResourceLines(resources))
             F == FieldLines(fields)
             R == ResourceLines(resources)
             T == LinesOf(origin, accountType, address, Blank, fields, resources)
                  \cup LinesOf(origin, accountType, address, statement, fields, resources)
             start == SubSeq(whole, 1, 3)
             one == <<statement>>
             rest == SubSeq(whole, 4, Len(whole))
  <2>1. MessageShape(c, origin, accountType, address, statement, fields, resources)
    BY MessageIs
  <2>2. MessageShape(whole, origin, accountType, address, Blank, fields, resources)
    BY MessageIs
  <2>3. /\ n \in Nat /\ r \in Nat /\ Len(c) = 5 + n + r /\ Len(whole) = 4 + n + r
        /\ c \in Seq(LinesOf(origin, accountType, address, statement, fields, resources))
        /\ whole \in Seq(LinesOf(origin, accountType, address, Blank, fields, resources))
        /\ c[1] = whole[1] /\ c[2] = whole[2] /\ c[3] = whole[3]
        /\ c[4] = statement /\ c[5] = whole[4]
        /\ \A i \in 1..n : c[5 + i] = F[i] /\ whole[4 + i] = F[i]
        /\ \A i \in 1..r : c[5 + n + i] = R[i] /\ whole[4 + n + i] = R[i]
    BY <1>5, <2>1, <2>2 DEF MessageShape, BodyAt
  <2> HIDE DEF n, r, F, R
  <2>4. c \in Seq(T) /\ whole \in Seq(T) /\ statement \in T
    <3>1. statement \in LinesOf(origin, accountType, address, statement, fields, resources)
      BY DEF LinesOf
    <3>2. /\ LinesOf(origin, accountType, address, Blank, fields, resources) \subseteq T
          /\ LinesOf(origin, accountType, address, statement, fields, resources) \subseteq T
      OBVIOUS
    <3> HIDE DEF T, c, whole
    <3> QED
      BY ONLY <2>3, <3>1, <3>2, SubsetSeq
  <2>5. Rebuilt(m) = (start \o one) \o rest
    BY <1>3, <1>5 DEF ParsedShape
  <2> HIDE DEF c, whole, T
  <2>6. one \in Seq(T) /\ Len(one) = 1 /\ one[1] = statement
    BY <2>4
  <2>7. /\ start \in Seq(T) /\ Len(start) = 3
        /\ start[1] = whole[1] /\ start[2] = whole[2] /\ start[3] = whole[3]
        /\ rest \in Seq(T) /\ Len(rest) = 1 + n + r
        /\ \A i \in 1..(1 + n + r) : rest[i] = whole[3 + i]
    BY <2>3, <2>4
  <2> HIDE DEF start, one, rest
  <2> DEFINE a == start \o one
             d == a \o rest
  <2>8. /\ a \in Seq(T) /\ Len(a) = Len(start) + Len(one)
        /\ \A i \in 1..Len(start) : a[i] = start[i]
        /\ \A i \in 1..Len(one) : a[Len(start) + i] = one[i]
    <3>1. start \in Seq(T) /\ one \in Seq(T)
      BY <2>6, <2>7
    <3> QED
      BY ONLY <3>1
  <2> HIDE DEF a
  <2>9. Len(a) = 4 /\ a[1] = c[1] /\ a[2] = c[2] /\ a[3] = c[3] /\ a[4] = c[4]
    BY ONLY <2>3, <2>6, <2>7, <2>8
  <2>10. /\ d \in Seq(T) /\ Len(d) = Len(a) + Len(rest)
         /\ \A i \in 1..Len(a) : d[i] = a[i]
         /\ \A i \in 1..Len(rest) : d[Len(a) + i] = rest[i]
    <3>1. a \in Seq(T) /\ rest \in Seq(T)
      BY <2>7, <2>8
    <3> QED
      BY ONLY <3>1
  <2> HIDE DEF d
  <2>11. n \in Nat /\ r \in Nat /\ Len(c) = 5 + n + r /\ Len(rest) = 1 + n + r /\ Len(a) = 4
    BY <2>3, <2>7, <2>9
  <2>12. ASSUME NEW i \in 1..(1 + n + r) PROVE c[4 + i] = whole[3 + i]
    <3>1. CASE i = 1
      BY ONLY <2>3, <3>1
    <3>2. CASE i \in 2..(1 + n)
      <4>1. i - 1 \in 1..n /\ 5 + (i - 1) = 4 + i /\ 4 + (i - 1) = 3 + i
        BY ONLY <2>11, <3>2
      <4>2. c[5 + (i - 1)] = whole[4 + (i - 1)]
        BY ONLY <2>3, <4>1
      <4> QED
        BY ONLY <4>1, <4>2
    <3>3. CASE i \in (2 + n)..(1 + n + r)
      <4>1. /\ i - 1 - n \in 1..r /\ 5 + n + (i - 1 - n) = 4 + i
            /\ 4 + n + (i - 1 - n) = 3 + i
        BY ONLY <2>11, <3>3
      <4>2. c[5 + n + (i - 1 - n)] = whole[4 + n + (i - 1 - n)]
        BY ONLY <2>3, <4>1
      <4> QED
        BY ONLY <4>1, <4>2
    <3> QED
      BY ONLY <2>11, <3>1, <3>2, <3>3, i \in 1..(1 + n + r)
  <2>13. ASSUME NEW i \in 1..Len(c) PROVE c[i] = d[i]
    <3>1. CASE i \in 1..4
      <4>1. d[i] = a[i]
        BY ONLY <2>10, <2>11, <3>1
      <4> QED
        BY ONLY <2>9, <3>1, <4>1
    <3>2. CASE i \in 5..Len(c)
      <4>1. i - 4 \in 1..(1 + n + r) /\ 4 + (i - 4) = i
        BY ONLY <2>11, <3>2
      <4>2. d[4 + (i - 4)] = rest[i - 4]
        BY ONLY <2>10, <2>11, <4>1
      <4>3. rest[i - 4] = whole[3 + (i - 4)] /\ c[4 + (i - 4)] = whole[3 + (i - 4)]
        BY ONLY <2>7, <2>12, <4>1
      <4> QED
        BY ONLY <4>1, <4>2, <4>3
    <3> QED
      BY ONLY <2>11, <3>1, <3>2, i \in 1..Len(c)
  <2>14. Len(d) = Len(c)
    BY ONLY <2>10, <2>11
  <2>15. c \in Seq(T) /\ d \in Seq(T)
    BY <2>4, <2>10
  <2>16. c = d
    BY ONLY <2>13, <2>14, <2>15, SeqEqual
  <2> QED
    BY <2>5, <2>16 DEF a, c, d
<1> QED
  BY <1>4, <1>5

-----------------------------------------------------------------------------
(* Linking a wallet                                                        *)

\* What linkWalletWithSiwx has in hand at each of its steps.
LinkInv ==
  /\ linkStep # "idle" => options \in Links
  /\ linkStep \in {"address", "signature", "link"} => nonce = "fresh" /\ "fresh" \in issued
  /\ linkStep \in {"signature", "link"} => message = createSiwxMessage(options, nonce)
  /\ linkStep \in {"idle", "token", "nonce", "address", "signature"} => payload = NoPayload
  /\ linkStep = "link" =>
       payload = [posted |-> FALSE, verified |-> FALSE, message |-> parseSiwxMessage(message),
                  signature |-> message, chainArch |-> options.chainArch]

\* The fields of a message: those of the options, with the nonce.
FieldsOfMessage(o, n) == [k \in Range(FIELD_PREFIXES) |-> IF k = "nonce" THEN n ELSE o.fields[k]]

\* Whatever is posted is what the API composes again, with the nonce it issued.
LEMMA PostedVerifies ==
  ASSUME LinkInv, linkStep = "link", StatementOf(options).label = "none"
  PROVE  Verifies
<1> DEFINE f == FieldsOfMessage(options, nonce)
           t == chainArchToAccountType(options.chainArch)
           m == parseSiwxMessage(message)
<1>1. /\ options \in Links /\ nonce = "fresh" /\ "fresh" \in issued
      /\ message = createSiwxMessage(options, nonce)
      /\ payload = [posted |-> FALSE, verified |-> FALSE, message |-> m, signature |-> message,
                    chainArch |-> options.chainArch]
  BY DEF LinkInv
<1>2. options.resources \in Seq(Range(options.resources))
  BY <1>1, LinksAssumption
<1>3. "nonce" \in Range(FIELD_PREFIXES) /\ "nonce" \in Present(f) /\ f["nonce"] = "fresh"
  BY <1>1, PrefixesAre, LinksAssumption DEF FieldsOfMessage, Present
<1>4. message = Compose(OriginOf(options), t, formattedAddress(options), StatementOf(options), f,
                        options.resources)
  BY <1>1 DEF createSiwxMessage, FieldsOfMessage
<1> HIDE DEF f, t
<1>5. ParsedShape(m, OriginOf(options), t, formattedAddress(options), StatementOf(options), f,
                  options.resources)
  BY <1>2, <1>3, <1>4, MessageIsParsed
<1> HIDE DEF m
<1>6. Rebuilt(m) = message
  BY <1>2, <1>4, <1>5, MessageIsRebuilt
<1>7. m.fields["nonce"] \in issued /\ m.accountType = t
  BY <1>1, <1>3, <1>5 DEF ParsedShape
<1>8. payload.message = m /\ payload.signature = message /\ payload.chainArch = options.chainArch
  BY <1>1
<1> QED
  BY <1>6, <1>7, <1>8 DEF Verifies, t

\* Every step of linking keeps what is in hand, and posts only what verifies.
LEMMA LinkStep ==
  ASSUME LinkInv, LinkedAsSigned, [Next]_vars
  PROVE  LinkInv' /\ LinkedAsSigned'
<1>1. CASE UNCHANGED linkVars
  BY <1>1 DEF LinkInv, LinkedAsSigned, linkVars
<1>2. CASE CheckAuthToken
  BY <1>2 DEF LinkInv, LinkedAsSigned, CheckAuthToken, Awaits, Throws
<1>3. CASE RequestSiwxNonce
  BY <1>3 DEF LinkInv, LinkedAsSigned, RequestSiwxNonce, Awaits, Throws
<1>4. CASE BuildMessage
  BY <1>4 DEF LinkInv, LinkedAsSigned, BuildMessage, Awaits, Throws
<1>5. CASE SignMessage
  <2>1. payload' = NoPayload \/ payload' = [posted |-> FALSE, verified |-> FALSE, message |-> parseSiwxMessage(message),
                       signature |-> message, chainArch |-> options.chainArch]
    BY <1>5 DEF SignMessage, LinkInv
  <2>2. LinkedAsSigned'
    BY <2>1 DEF LinkedAsSigned, NoPayload
  <2> QED
    BY <1>5, <2>2 DEF LinkInv, SignMessage, Awaits, Throws
<1>6. CASE PostLink
  <2>1. PICK reaches \in BOOLEAN :
          payload' = [payload EXCEPT !.posted = reaches, !.verified = Verifies]
    BY <1>6 DEF PostLink
  <2>2. linkStep = "link" /\ linkStep' = "settled" /\ UNCHANGED <<options, nonce, message>>
    BY <1>6 DEF PostLink, Throws
  <2>3. payload = [posted |-> FALSE, verified |-> FALSE, message |-> parseSiwxMessage(message),
                   signature |-> message, chainArch |-> options.chainArch]
    BY <2>2 DEF LinkInv
  <2>4. Verifies => payload'.verified
    BY <2>1, <2>3
  <2>5. StatementOf(options).label = "none" => Verifies
    BY <2>2, PostedVerifies
  <2>6. LinkedAsSigned'
    BY <2>2, <2>4, <2>5 DEF LinkedAsSigned, StatementOf
  <2> QED
    BY <2>2, <2>6 DEF LinkInv
<1> QED
  BY <1>1, <1>2, <1>3, <1>4, <1>5, <1>6 DEF Next, LinkNext, vars

\* Invariant of linking.
THEOREM LinkInvariant == Spec => [](LinkInv /\ LinkedAsSigned)
<1>1. Init => LinkInv /\ LinkedAsSigned
  BY DEF Init, LinkStart, LinkInv, LinkedAsSigned, NoPayload
<1>2. LinkInv /\ LinkedAsSigned /\ [Next]_vars => (LinkInv /\ LinkedAsSigned)'
  BY LinkStep
<1> QED
  BY <1>1, <1>2, PTL DEF Spec

\* The message that the API rebuilds from the posted fields is the one that the wallet
\* signed (siwx.ts:112-262), for all options, resources and statements that do not read
\* as a field's line.
THEOREM LinkedAsSignedHolds == Spec => []LinkedAsSigned
  BY LinkInvariant, PTL

-----------------------------------------------------------------------------
(* A path and its segments                                                 *)

Splits == INSTANCE Folding WITH Op <- LAMBDA p, path, s : PushParts(path, s), Base <- <<>>
Pushes == INSTANCE Folding WITH Op <- LAMBDA p, path, s : PushSegment(path, s), Base <- <<>>

\* No segments, split at slashes.
LEMMA SplitOfEmpty == FoldLeft(PushParts, <<>>, <<>>) = <<>>
<1>1. Splits!Fold(0, <<>>) = <<>>
  BY Splits!FoldEmpty
<1> QED
  BY <1>1 DEF Splits!Fold, Splits!FoldLeft, Splits!MapThenFoldSet, Splits!Max,
              FoldLeft, MapThenFoldSet, Max

\* One segment more, split at slashes.
LEMMA SplitOfAppend ==
  ASSUME NEW S, NEW s \in Seq(S), NEW e \in S
  PROVE  FoldLeft(PushParts, <<>>, Append(s, e)) = PushParts(FoldLeft(PushParts, <<>>, s), e)
<1>1. Splits!Fold(0, Append(s, e)) = PushParts(Splits!Fold(0, s), e)
  BY Splits!FoldAppend
<1> QED
  BY <1>1 DEF Splits!Fold, Splits!FoldLeft, Splits!MapThenFoldSet, Splits!Max,
              FoldLeft, MapThenFoldSet, Max

\* No segments, with dot segments removed.
LEMMA PushOfEmpty == FoldLeft(PushSegment, <<>>, <<>>) = <<>>
<1>1. Pushes!Fold(0, <<>>) = <<>>
  BY Pushes!FoldEmpty
<1> QED
  BY <1>1 DEF Pushes!Fold, Pushes!FoldLeft, Pushes!MapThenFoldSet, Pushes!Max,
              FoldLeft, MapThenFoldSet, Max

\* One segment more, with dot segments removed.
LEMMA PushOfAppend ==
  ASSUME NEW S, NEW s \in Seq(S), NEW e \in S
  PROVE  FoldLeft(PushSegment, <<>>, Append(s, e)) = PushSegment(FoldLeft(PushSegment, <<>>, s), e)
<1>1. Pushes!Fold(0, Append(s, e)) = PushSegment(Pushes!Fold(0, s), e)
  BY Pushes!FoldAppend
<1> QED
  BY <1>1 DEF Pushes!Fold, Pushes!FoldLeft, Pushes!MapThenFoldSet, Pushes!Max,
              FoldLeft, MapThenFoldSet, Max

\* What a URL parser would split or remove.
Apart == {".", ".."} \cup DOMAIN UriParts

\* A path of segments that are neither is left as it is.
LEMMA NormalizedIs ==
  ASSUME NEW S, S \cap Apart = {}
  PROVE  \A s \in Seq(S) : Normalized(s) = s
<1> DEFINE P == {s \in Seq(S) : FoldLeft(PushParts, <<>>, s) = s}
           Q == {s \in Seq(S) : FoldLeft(PushSegment, <<>>, s) = s}
<1>1. <<>> \in P /\ <<>> \in Q
  BY SplitOfEmpty, PushOfEmpty
<1>2. ASSUME NEW s \in Seq(S), NEW e \in S, s \in P PROVE Append(s, e) \in P
  <2>1. FoldLeft(PushParts, <<>>, Append(s, e)) = PushParts(s, e)
    BY <1>2, SplitOfAppend
  <2>2. PushParts(s, e) = s \o <<e>> /\ s \o <<e>> = Append(s, e) /\ Append(s, e) \in Seq(S)
    BY DEF PushParts, Apart
  <2> QED
    BY <2>1, <2>2
<1>3. ASSUME NEW s \in Seq(S), NEW e \in S, s \in Q PROVE Append(s, e) \in Q
  <2>1. FoldLeft(PushSegment, <<>>, Append(s, e)) = PushSegment(s, e)
    BY <1>3, PushOfAppend
  <2>2. PushSegment(s, e) = Append(s, e) /\ Append(s, e) \in Seq(S)
    BY DEF PushSegment, Apart
  <2> QED
    BY <2>1, <2>2
<1> HIDE DEF P, Q
<1>4. (\A s \in Seq(S) : s \in P) /\ (\A s \in Seq(S) : s \in Q)
  BY <1>1, <1>2, <1>3, Splits!SequenceInduction
<1> QED
  BY <1>4 DEF P, Q, Normalized

\* What a server makes of one segment.
DecodedSegment(s) ==
  IF s \in Range(UriEncoded) THEN CHOOSE v \in DOMAIN UriEncoded : UriEncoded[v] = s ELSE s

\* A segment says which argument it is of, and looks like nothing else.
LEMMA SegmentIs ==
  ASSUME NEW a \in Arguments, segment(a).ok, NEW x, x = segment(a).value
  PROVE  /\ DecodedSegment(x) = a /\ x \notin Apart \cup Words /\ (x = "" <=> a = "")
<1>1. x = encodeURIComponent(a) /\ a \notin {".", ".."}
  BY DEF segment, Returned, Threw
<1>2. CASE a \in DOMAIN UriEncoded
  <2>1. x = UriEncoded[a] /\ x \in Range(UriEncoded)
    BY <1>1, <1>2 DEF encodeURIComponent, Range
  <2>2. \A v \in DOMAIN UriEncoded : UriEncoded[v] = x => v = a
    BY <1>2, <2>1, EncodingAssumption
  <2>3. DecodedSegment(x) = a
    BY <1>2, <2>1, <2>2 DEF DecodedSegment
  <2> QED
    BY <1>2, <2>1, <2>3, EncodingAssumption DEF Apart
<1>3. CASE a \notin DOMAIN UriEncoded
  <2>1. x = a
    BY <1>1, <1>3 DEF encodeURIComponent
  <2>2. a \notin Range(UriEncoded) /\ a \notin DOMAIN UriParts
    BY <1>3, EncodingAssumption
  <2> QED
    BY <1>1, <2>1, <2>2, ArgumentsAreNoLiterals DEF DecodedSegment, Apart
<1> QED
  BY <1>2, <1>3

\* A word of a path is itself.
LEMMA WordIs ==
  ASSUME NEW x \in Words
  PROVE  DecodedSegment(x) = x /\ x \notin Apart /\ x # ""
BY EncodingAssumption, WordsAssumption DEF DecodedSegment, Apart

\* A path that is sent: one segment for each part of the operation's.
PathShape(x, m, g) ==
  LET path == Operations[m].path IN
  /\ path \in Seq(STRING) /\ DOMAIN x = 1..Len(path) /\ DOMAIN path = 1..Len(path)
  /\ Len(path) \in Nat /\ x \in Seq(Range(x)) /\ Len(x) = Len(path)
  /\ \A i \in DOMAIN path :
       /\ path[i] \in Words
       /\ path[i] \in PathParameters =>
            /\ path[i] \in Placed(m) /\ g[path[i]] \in Arguments
            /\ DecodedSegment(x[i]) = g[path[i]]
            /\ x[i] \notin Apart \cup Words /\ (x[i] = "" <=> g[path[i]] = "")
       /\ path[i] \notin PathParameters => x[i] = path[i]

\* Path makes a path of that shape, unless it refuses an argument.
LEMMA PathIs ==
  ASSUME NEW m \in DOMAIN Operations, NEW g \in [Placed(m) -> Arguments], Path(m, g).ok
  PROVE  PathShape(Path(m, g).value, m, g)
<1> DEFINE path == Operations[m].path
           Part(i) == IF path[i] \in PathParameters THEN segment(g[path[i]]) ELSE Returned(path[i])
           x == [i \in DOMAIN path |-> Part(i).value]
<1>1. path \in Seq(STRING)
  BY EndpointsAssumption
<1>2. Path(m, g) = IF \A i \in DOMAIN path : Part(i).ok THEN Returned(x) ELSE Threw
  BY DEF Path
<1>3. (\A i \in DOMAIN path : Part(i).ok) /\ Path(m, g).value = x
  <2> HIDE DEF Part, x
  <2> QED
    BY <1>2 DEF Returned, Threw
<1>4. DOMAIN path = 1..Len(path) /\ Len(path) \in Nat
  BY <1>1
<1>5. ASSUME NEW i \in DOMAIN path, path[i] \in PathParameters
      PROVE  /\ path[i] \in Placed(m) /\ g[path[i]] \in Arguments
             /\ DecodedSegment(x[i]) = g[path[i]]
             /\ x[i] \notin Apart \cup Words /\ (x[i] = "" <=> g[path[i]] = "")
  <2>1. path[i] \in Placed(m)
    BY <1>5 DEF Placed, Range
  <2>2. g[path[i]] \in Arguments
    BY <2>1
  <2>3. segment(g[path[i]]).ok /\ x[i] = segment(g[path[i]]).value
    BY <1>3, <1>5
  <2> HIDE DEF x, path, Part
  <2> QED
    BY <2>1, <2>2, <2>3, SegmentIs
<1>6. ASSUME NEW i \in DOMAIN path PROVE path[i] \in Words /\ (path[i] \notin PathParameters => x[i] = path[i])
  BY DEF Words, Range, Returned
<1>7. x \in Seq(Range(x)) /\ DOMAIN x = 1..Len(path) /\ Len(x) = Len(path)
  <2>1. x = [i \in 1..Len(path) |-> x[i]] /\ DOMAIN x = 1..Len(path)
    BY <1>4
  <2> HIDE DEF x, path
  <2>2. \A i \in 1..Len(path) : x[i] \in Range(x)
    BY <2>1 DEF Range
  <2> QED
    BY <1>4, <2>1, <2>2
<1> HIDE DEF x, Part
<1> QED
  BY <1>1, <1>3, <1>4, <1>5, <1>6, <1>7 DEF PathShape

\* A path arrives as it was sent, and is decoded to the arguments.
LEMMA PathArrives ==
  ASSUME NEW m, NEW g, NEW x, PathShape(x, m, g)
  PROVE  /\ Normalized(x) = x
         /\ Decoded(x) = [i \in DOMAIN Operations[m].path |->
                          IF Operations[m].path[i] \in PathParameters
                          THEN g[Operations[m].path[i]] ELSE Operations[m].path[i]]
<1> DEFINE path == Operations[m].path
<1>1. ASSUME NEW i \in DOMAIN path
      PROVE  /\ x[i] \notin Apart
             /\ DecodedSegment(x[i]) = IF path[i] \in PathParameters THEN g[path[i]] ELSE path[i]
  <2>1. CASE path[i] \in PathParameters
    BY <2>1 DEF PathShape
  <2>2. CASE path[i] \notin PathParameters
    BY <2>2, WordIs DEF PathShape
  <2> QED
    BY <2>1, <2>2
<1>2. DOMAIN x = DOMAIN path /\ x \in Seq(Range(x))
  BY DEF PathShape
<1> HIDE DEF path
<1>3. Range(x) \cap Apart = {}
  BY <1>1, <1>2 DEF Range
<1>4. Normalized(x) = x
  BY <1>2, <1>3, NormalizedIs
<1>5. Decoded(x) = [i \in DOMAIN x |-> DecodedSegment(x[i])]
  BY DEF Decoded, DecodedSegment
<1> QED
  BY <1>1, <1>2, <1>4, <1>5 DEF path

\* An endpoint a path may be for.
Fits(e, verb, x) ==
  /\ e \in {Endpoint(m) : m \in DOMAIN Operations}
  /\ e.verb = verb /\ Len(e.path) = Len(x)
  /\ \A i \in DOMAIN x : \/ e.path[i] = x[i]
                         \/ e.path[i] \in PathParameters /\ x[i] # ""

\* The endpoints that serve a path are those that no other fits more closely.
LEMMA ServingIs ==
  ASSUME NEW verb, NEW x, NEW e
  PROVE  e \in Serving(verb, x) <=>
           /\ Fits(e, verb, x)
           /\ \A f : Fits(f, verb, x) =>
                \A i \in DOMAIN x : e.path[i] \in PathParameters => f.path[i] \in PathParameters
BY DEF Serving, Fits

\* An endpoint's verb and path.
LEMMA EndpointHas == \A m : Endpoint(m).verb = Operations[m].verb /\ Endpoint(m).path = Operations[m].path
BY DEF Endpoint

\* The parts of an operation's path.
LEMMA PartsAre ==
  ASSUME NEW n \in DOMAIN Operations
  PROVE  /\ DOMAIN Operations[n].path = 1..Len(Operations[n].path)
         /\ \A i \in DOMAIN Operations[n].path : Operations[n].path[i] \in Words
<1>1. Operations[n].path \in Seq(STRING)
  BY EndpointsAssumption
<1> QED
  BY <1>1 DEF Words, Range

\* A path is served by the operation's endpoint and no other, unless an argument is
\* empty: then by none.
LEMMA PathIsServed ==
  ASSUME NEW m \in DOMAIN Operations, NEW g \in [Placed(m) -> Arguments],
         NEW x, PathShape(x, m, g)
  PROVE  Serving(Operations[m].verb, x) = IF \E p \in DOMAIN g : g[p] = "" THEN {} ELSE {Endpoint(m)}
<1> DEFINE path == Operations[m].path
           verb == Operations[m].verb
           e == Endpoint(m)
<1>1. ASSUME NEW f, Fits(f, verb, x)
      PROVE  /\ DOMAIN f.path = DOMAIN path /\ DOMAIN x = DOMAIN path
             /\ Len(f.path) = Len(path) /\ f.verb = verb
             /\ \A i \in DOMAIN path : f.path[i] \in Words
             /\ \A i \in DOMAIN path : \/ f.path[i] = x[i]
                                       \/ f.path[i] \in PathParameters /\ x[i] # ""
  <2>1. PICK n \in DOMAIN Operations : f = Endpoint(n)
    BY <1>1 DEF Fits
  <2>2. f.path = Operations[n].path
    BY <2>1, EndpointHas
  <2>3. /\ f.verb = verb /\ Len(f.path) = Len(x)
        /\ \A i \in DOMAIN x : \/ f.path[i] = x[i]
                               \/ f.path[i] \in PathParameters /\ x[i] # ""
    BY <1>1 DEF Fits
  <2>4. DOMAIN x = DOMAIN path /\ Len(x) = Len(path) /\ DOMAIN path = 1..Len(path)
    BY DEF PathShape
  <2> HIDE DEF path, verb
  <2> QED
    BY <2>2, <2>3, <2>4, PartsAre
<1>2. ASSUME NEW f, Fits(f, verb, x), NEW i \in DOMAIN path, path[i] \in PathParameters
      PROVE  f.path[i] \in PathParameters
  BY <1>1, <1>2 DEF PathShape
<1>3. CASE \E p \in DOMAIN g : g[p] = ""
  <2>1. PICK i \in DOMAIN path : path[i] \in PathParameters /\ g[path[i]] = ""
    <3>1. PICK p \in Placed(m) : g[p] = ""
      BY <1>3
    <3>2. p \in PathParameters /\ p \in Range(path)
      BY DEF Placed
    <3> QED
      BY <3>1, <3>2 DEF Range
  <2>2. x[i] = ""
    BY <2>1 DEF PathShape
  <2>3. ASSUME NEW f, Fits(f, verb, x) PROVE FALSE
    <3>1. f.path[i] = "" /\ f.path[i] \in Words
      BY <1>1, <2>2, <2>3
    <3> QED
      BY <3>1, WordsAssumption
  <2> QED
    BY <1>3, <2>3, ServingIs
<1>4. CASE \A p \in DOMAIN g : g[p] # ""
  <2>1. ASSUME NEW i \in DOMAIN path
        PROVE  \/ path[i] = x[i]
               \/ path[i] \in PathParameters /\ x[i] # ""
    BY <1>4 DEF PathShape
  <2>2. Fits(e, verb, x)
    <3>1. e.verb = verb /\ e.path = path
      BY EndpointHas
    <3>2. e \in {Endpoint(n) : n \in DOMAIN Operations}
      OBVIOUS
    <3>3. DOMAIN x = DOMAIN path /\ Len(x) = Len(path)
      BY DEF PathShape
    <3> HIDE DEF e, path, verb
    <3> QED
      BY <2>1, <3>1, <3>2, <3>3 DEF Fits
  <2>3. DOMAIN x = DOMAIN path /\ e.path = path
    BY EndpointHas DEF PathShape
  <2>4. e \in Serving(verb, x)
    <3> HIDE DEF e, path, verb
    <3> QED
      BY <1>2, <2>2, <2>3, ServingIs
  <2>5. ASSUME NEW f \in Serving(verb, x) PROVE f = e
    <3>1. Fits(f, verb, x)
      BY <2>5, ServingIs
    <3>2. \A i \in DOMAIN path : f.path[i] \in PathParameters => path[i] \in PathParameters
      <4> HIDE DEF e, path, verb
      <4> QED
        BY <2>2, <2>3, <2>5, ServingIs
    <3>3. \A i \in DOMAIN path : \/ f.path[i] = path[i]
                                \/ {f.path[i], path[i]} \subseteq PathParameters
      <4>1. ASSUME NEW i \in DOMAIN path, path[i] \notin PathParameters PROVE f.path[i] = path[i]
        <5>1. x[i] = path[i]
          BY <4>1 DEF PathShape
        <5> QED
          BY <1>1, <3>1, <3>2, <4>1, <5>1
      <4> QED
        BY <1>2, <3>1, <4>1
    <3>4. PICK n \in DOMAIN Operations : f = Endpoint(n)
      BY <3>1 DEF Fits
    <3>5. LooksLike(f, e)
      <4>1. /\ DOMAIN f.path = DOMAIN path /\ Len(f.path) = Len(path)
            /\ f.verb = verb /\ e.verb = verb /\ e.path = path
        BY <1>1, <3>1, EndpointHas
      <4> HIDE DEF e, path, verb
      <4> QED
        BY <3>3, <4>1 DEF LooksLike
    <3> QED
      BY <3>4, <3>5, EndpointsAssumption
  <2> HIDE DEF e, verb
  <2> QED
    BY <1>4, <2>4, <2>5 DEF e, verb
<1> QED
  BY <1>3, <1>4

-----------------------------------------------------------------------------
(* A call                                                                  *)

\* What a call has in hand at each of its steps.
CallInv ==
  /\ step # "idle" =>
       /\ method \in DOMAIN Operations /\ given \in [Placed(method) -> Arguments]
       /\ request.sent => Path(method, given).ok /\ request.path = Path(method, given).value
  /\ step \in {"sent", "answered"} => request.sent
  /\ step = "answered" \/ (step = "done" /\ request.sent) =>
       answer.served = Serving(Operations[method].verb, Normalized(request.path))
  /\ step = "done" /\ ~request.sent => ~Path(method, given).ok

\* A call begins with nothing sent.
LEMMA CallStarts ==
  ASSUME Init
  PROVE  CallInv
<1>1. CASE \E c \in Calls : ApiStart(c.method, c.arguments, c.params, c.by)
  BY <1>1, CallsAssumption DEF ApiStart, CallInv, NoRequest
<1>2. CASE step = "idle" /\ request = NoRequest
  BY <1>2 DEF CallInv, NoRequest
<1> QED
  BY <1>1, <1>2 DEF Init

\* Every step of a call keeps what is in hand.
LEMMA CallStep ==
  ASSUME CallInv, [Next]_vars
  PROVE  CallInv'
<1>1. CASE UNCHANGED apiVars
  BY <1>1 DEF CallInv, apiVars
<1>2. CASE Send
  <2>1. CASE Path(method, given).ok
    <3>1. /\ request'.sent /\ request'.path = Path(method, given).value /\ step' = "sent"
          /\ UNCHANGED <<method, given>> /\ step # "idle"
      BY <1>2, <2>1 DEF Send
    <3> QED
      BY <2>1, <3>1 DEF CallInv
  <2>2. CASE ~Path(method, given).ok
    <3>1. request' = request /\ step' = "done" /\ UNCHANGED <<method, given>> /\ step = "call"
      BY <1>2, <2>2 DEF Send
    <3>2. ~request.sent
      BY <2>2, <3>1 DEF CallInv
    <3> QED
      BY <2>2, <3>1, <3>2 DEF CallInv
  <2> QED
    BY <2>1, <2>2
<1>3. CASE Serve
  <2>1. answer'.served = Serving(Operations[method].verb, Normalized(request.path))
    <3> DEFINE served == Serving(Operations[method].verb, Normalized(request.path))
    <3>1. \E k, p, n : answer' = [served |-> served] \/ answer' = [served |-> served, keys |-> k, page |-> p, next |-> n]
      <4> HIDE DEF served
      <4> QED
        BY <1>3 DEF Serve, served
    <3> HIDE DEF served
    <3> QED
      BY <3>1 DEF served
  <2>2. step = "sent" /\ step' = "answered" /\ UNCHANGED <<method, given, request>>
    BY <1>3 DEF Serve
  <2> QED
    BY <2>1, <2>2 DEF CallInv
<1>4. CASE Receive
  <2>1. /\ step = "answered" /\ step' \in {"call", "done"}
        /\ UNCHANGED <<method, given, request, answer>>
    BY <1>4 DEF Receive
  <2> QED
    BY <2>1 DEF CallInv
<1> QED
  BY <1>1, <1>2, <1>3, <1>4 DEF Next, ApiNext, vars

\* What is in hand says that the arguments arrive.
LEMMA CallsArrive ==
  ASSUME CallInv
  PROVE  ArgumentsArrive
<1> DEFINE path == Operations[method].path
<1>1. ASSUME step = "done", ~request.sent PROVE Refused
  <2>1. /\ method \in DOMAIN Operations /\ given \in [Placed(method) -> Arguments]
        /\ ~Path(method, given).ok
    BY <1>1 DEF CallInv
  <2>2. PICK i \in DOMAIN path : path[i] \in PathParameters /\ ~segment(given[path[i]]).ok
    BY <2>1 DEF Path, Returned
  <2>3. path[i] \in DOMAIN given
    BY <2>1, <2>2 DEF Placed, Range
  <2>4. given[path[i]] \in {".", ".."}
    BY <2>2 DEF segment, Returned
  <2> QED
    BY <2>3, <2>4 DEF Refused
<1>2. ASSUME step \in {"answered", "done"}, request.sent
      PROVE  /\ Decoded(Normalized(request.path)) =
                  [i \in DOMAIN Endpoint(method).path |->
                     IF Endpoint(method).path[i] \in PathParameters
                     THEN given[Endpoint(method).path[i]] ELSE Endpoint(method).path[i]]
             /\ answer.served = IF \E p \in DOMAIN given : given[p] = "" THEN {} ELSE {Endpoint(method)}
  <2>1. /\ method \in DOMAIN Operations /\ given \in [Placed(method) -> Arguments]
        /\ Path(method, given).ok /\ request.path = Path(method, given).value
        /\ answer.served = Serving(Operations[method].verb, Normalized(request.path))
    BY <1>2 DEF CallInv
  <2>2. PathShape(request.path, method, given)
    BY <2>1, PathIs
  <2>3. Endpoint(method).path = path
    BY EndpointHas
  <2>4. /\ Normalized(request.path) = request.path
        /\ Decoded(request.path) = [i \in DOMAIN path |->
                                     IF path[i] \in PathParameters THEN given[path[i]] ELSE path[i]]
    BY <2>2, PathArrives
  <2>5. Serving(Operations[method].verb, request.path) =
          IF \E p \in DOMAIN given : given[p] = "" THEN {} ELSE {Endpoint(method)}
    BY <2>1, <2>2, PathIsServed
  <2>6. Decoded(Normalized(request.path)) =
          [i \in DOMAIN Endpoint(method).path |->
             IF Endpoint(method).path[i] \in PathParameters
             THEN given[Endpoint(method).path[i]] ELSE Endpoint(method).path[i]]
    <3> HIDE DEF path
    <3> QED
      BY <2>3, <2>4, Zenon
  <2> QED
    BY <2>1, <2>4, <2>5, <2>6
<1> QED
  BY <1>1, <1>2 DEF ArgumentsArrive

\* Invariant of a call.
THEOREM CallInvariant == Spec => []CallInv
<1> QED
  BY CallStarts, CallStep, PTL DEF Spec

\* A call reaches its endpoint with each argument in its own place (apiPaths.ts:24-33),
\* for all arguments and all encodings that can be undone.
THEOREM ArgumentsArriveHolds == Spec => []ArgumentsArrive
  BY CallInvariant, CallsArrive, PTL

-----------------------------------------------------------------------------
(* The pages of a list                                                     *)

\* Parameters that ask for a page, in the way a consumer pages: the first by none.
Asks(by, p, k) ==
  /\ by = "both" =>
       /\ k = 1 => p = [cursor |-> Undefined]
       /\ k > 1 => "cursor" \in DOMAIN p /\ p["cursor"] = k
  /\ by # "both" =>
       /\ DOMAIN p \cap {"cursor", "next", "after"} \subseteq {by}
       /\ k = 1 => (by \in DOMAIN p => p[by] \in {Undefined, EmptyCursor})
       /\ k > 1 => by \in DOMAIN p /\ p[by] = k

\* A query that asks an endpoint for a page, by the parameter it reads.
QueryAsks(q, n, k) ==
  /\ k = 1 => (n \in DOMAIN q => q[n] \notin 1..Pages)
  /\ k > 1 => n \in DOMAIN q /\ q[n] = k

\* Parameters without a value say nothing.
LEMMA SearchParamsAsk ==
  ASSUME NEW args, NEW n, NEW k \in Nat, k # 1 => k > 1,
         k = 1 => (n \in DOMAIN args => args[n] \in {Undefined, EmptyCursor}),
         k > 1 => n \in DOMAIN args /\ args[n] = k
  PROVE  QueryAsks(objectToSearchParams(args), n, k)
<1> DEFINE q == objectToSearchParams(args)
<1>1. /\ DOMAIN q = {x \in DOMAIN args : args[x] # Undefined}
      /\ \A x \in DOMAIN q : q[x] = args[x]
  BY DEF objectToSearchParams, Without
<1> HIDE DEF q
<1>2. CASE k = 1
  <2>1. ASSUME n \in DOMAIN q PROVE q[n] \notin 1..Pages
    <3>1. q[n] = args[n] /\ args[n] # Undefined /\ n \in DOMAIN args
      BY <1>1, <2>1
    <3>2. q[n] = 0
      BY <1>2, <3>1 DEF EmptyCursor
    <3> QED
      BY <3>2, PagesAssumption
  <2> QED
    BY <1>2, <2>1 DEF QueryAsks, q
<1>3. CASE k > 1
  <2>1. n \in DOMAIN args /\ args[n] = k /\ k # Undefined
    BY <1>3, PagesAssumption
  <2>2. n \in DOMAIN q /\ q[n] = k
    BY <1>1, <2>1
  <2> QED
    BY <1>3, <2>2 DEF QueryAsks, q
<1> QED
  BY <1>2, <1>3

\* Whichever way the consumer pages, the query asks the endpoint for that page.
LEMMA CallAsks ==
  ASSUME NEW m \in DOMAIN Operations, Operations[m].page # "none",
         NEW by \in Cursors(m), NEW p, NEW k \in Nat \ {0}, Asks(by, p, k)
  PROVE  QueryAsks(objectToSearchParams(QueryOf(m, p)), Operations[m].page, k)
<1> DEFINE n == Operations[m].page
<1>1. n \in {"cursor", "next", "after"}
  BY EndpointsAssumption
<1>2. k # 1 => k > 1
  OBVIOUS
<1>3. k # Undefined /\ 0 # Undefined
  BY PagesAssumption
<1>4. CASE m \in TakesEitherCursor
  <2> DEFINE rest == Without(p, {"next"})
             taken == /\ "next" \in DOMAIN p /\ p["next"] \notin {EmptyCursor, Undefined}
                      /\ ("cursor" \in DOMAIN rest => rest["cursor"] = Undefined)
  <2>1. n = "cursor" /\ by \in {"cursor", "next", "both"}
    BY <1>4, EndpointsAssumption DEF Cursors
  <2>2. QueryOf(m, p) = IF taken THEN With(rest, "cursor", p["next"]) ELSE rest
    <3>1. QueryOf(m, p) = withCursor(p)
      BY <1>4 DEF QueryOf, TakesEitherCursor, IgnoresChain
    <3>2. withCursor(p) = IF taken THEN With(rest, "cursor", p["next"]) ELSE rest
      BY Zenon DEF withCursor
    <3> QED
      BY <3>1, <3>2, Zenon
  <2>3. /\ "cursor" \in DOMAIN rest <=> "cursor" \in DOMAIN p
        /\ "cursor" \in DOMAIN p => rest["cursor"] = p["cursor"]
    BY DEF Without
  <2>4. /\ "cursor" \in DOMAIN With(rest, "cursor", p["next"])
        /\ With(rest, "cursor", p["next"])["cursor"] = p["next"]
    BY DEF With
  <2> HIDE DEF rest
  <2>5. CASE by \in {"cursor", "both"}
    <3>1. ~taken
      <4>1. CASE k = 1
        <5>1. "next" \notin DOMAIN p
          BY <2>5, <4>1 DEF Asks
        <5> QED
          BY <5>1
      <4>2. CASE k > 1
        <5>1. "cursor" \in DOMAIN p /\ p["cursor"] = k
          BY <2>5, <4>2 DEF Asks
        <5> QED
          BY <1>3, <2>3, <5>1
      <4> QED
        BY <1>2, <4>1, <4>2
    <3>2. QueryOf(m, p) = rest
      BY <2>2, <3>1
    <3>3. k = 1 => ("cursor" \in DOMAIN rest => rest["cursor"] \in {Undefined, EmptyCursor})
      BY <2>3, <2>5 DEF Asks
    <3>4. k > 1 => "cursor" \in DOMAIN rest /\ rest["cursor"] = k
      BY <2>3, <2>5 DEF Asks
    <3> QED
      BY <1>2, <2>1, <3>2, <3>3, <3>4, SearchParamsAsk
  <2>6. CASE by = "next"
    <3>1. "cursor" \notin DOMAIN p
      BY <2>6 DEF Asks
    <3>2. CASE k = 1
      <4>1. ~taken
        BY <2>6, <3>2 DEF Asks
      <4>2. QueryOf(m, p) = rest /\ "cursor" \notin DOMAIN rest
        BY <2>2, <2>3, <3>1, <4>1
      <4> QED
        BY <1>2, <2>1, <3>2, <4>2, SearchParamsAsk
    <3>3. CASE k > 1
      <4>1. "next" \in DOMAIN p /\ p["next"] = k
        BY <2>6, <3>3 DEF Asks
      <4>2. taken
        BY <1>3, <2>3, <3>1, <4>1 DEF EmptyCursor
      <4>3. QueryOf(m, p) = With(rest, "cursor", p["next"])
        BY <2>2, <4>2
      <4> QED
        BY <1>2, <2>1, <2>4, <3>3, <4>1, <4>3, SearchParamsAsk
    <3> QED
      BY <1>2, <3>2, <3>3
  <2> QED
    BY <2>1, <2>5, <2>6
<1>5. CASE m \notin TakesEitherCursor
  <2>1. by = n
    BY <1>5 DEF Cursors
  <2>2. /\ k = 1 => (n \in DOMAIN p => p[n] \in {Undefined, EmptyCursor})
        /\ k > 1 => n \in DOMAIN p /\ p[n] = k
    BY <1>1, <2>1 DEF Asks
  <2>3. CASE m \in IgnoresChain
    <3>1. QueryOf(m, p) = Without(p, {"chain"})
      BY <1>5, <2>3 DEF QueryOf, withoutIgnoredChain
    <3>2. /\ n \in DOMAIN Without(p, {"chain"}) <=> n \in DOMAIN p
          /\ n \in DOMAIN p => Without(p, {"chain"})[n] = p[n]
      <4>1. n # "chain"
        BY <1>1
      <4> HIDE DEF n
      <4> QED
        BY <4>1 DEF Without
    <3> HIDE DEF n
    <3>3. QueryAsks(objectToSearchParams(Without(p, {"chain"})), n, k)
      BY <1>2, <2>2, <3>2, SearchParamsAsk
    <3> QED
      BY <3>1, <3>3 DEF n
  <2>4. CASE m \notin IgnoresChain
    <3>1. QueryOf(m, p) = p
      BY <1>5, <2>4 DEF QueryOf
    <3> HIDE DEF n
    <3>2. QueryAsks(objectToSearchParams(p), n, k)
      BY <1>2, <2>2, SearchParamsAsk
    <3> QED
      BY <3>1, <3>2 DEF n
  <2> QED
    BY <2>3, <2>4
<1> QED
  BY <1>4, <1>5

\* What the consumer has read so far, and asks for next.
PageInv ==
  /\ pages \in Seq(Nat) /\ \A i \in DOMAIN pages : pages[i] = i
  /\ pages # <<>> => /\ Path(method, given).ok /\ \A p \in DOMAIN given : given[p] # ""
                     /\ Operations[method].page # "none"
  /\ step \in {"call", "sent", "answered"} =>
       /\ pageBy \in Cursors(method) /\ Len(pages) + 1 \in 1..Pages
       /\ Asks(pageBy, params, Len(pages) + 1)
  /\ step = "sent" => request.query = objectToSearchParams(QueryOf(method, params))
  /\ step = "answered" /\ Cardinality(answer.served) = 1 /\ Operations[method].page # "none" =>
       /\ answer.page = Len(pages) + 1
       /\ answer.next = IF answer.page < Pages THEN answer.page + 1 ELSE Undefined
  /\ step = "done" /\ pages # <<>> => Len(pages) = Pages

\* The first call asks for the first page.
LEMMA PagesStart ==
  ASSUME Init
  PROVE  PageInv
<1>1. pages = <<>> /\ step \in {"idle", "call"}
  BY DEF Init, ApiStart
<1>2. Len(pages) = 0 /\ DOMAIN pages = {} /\ pages \in Seq(Nat)
  BY <1>1
<1>3. ASSUME step = "call"
      PROVE  pageBy \in Cursors(method) /\ 1 \in 1..Pages /\ Asks(pageBy, params, 1)
  <2>1. PICK c \in Calls : pageBy = c.by /\ params = c.params /\ method = c.method
    BY <1>3 DEF Init, ApiStart
  <2>2. /\ c.by \in Cursors(c.method) /\ (c.by = "both" => c.params = [cursor |-> Undefined])
        /\ c.by # "both" =>
             /\ DOMAIN c.params \cap {"cursor", "next", "after"} \subseteq {c.by}
             /\ c.by \in DOMAIN c.params => c.params[c.by] \in {Undefined, EmptyCursor}
    BY CallsAssumption
  <2>3. Asks(c.by, c.params, 1)
    BY <2>2 DEF Asks
  <2> QED
    BY <2>1, <2>2, <2>3, PagesAssumption
<1> QED
  BY <1>1, <1>2, <1>3 DEF PageInv

\* The page the API finds in a query that asks its endpoint for one.
LEMMA PageIsAsked ==
  ASSUME NEW m \in DOMAIN Operations, NEW q, NEW k \in 1..Pages,
         QueryAsks(q, Operations[m].page, k)
  PROVE  PageAsked(Endpoint(m), q) = k
<1> DEFINE e == Endpoint(m)
           n == MethodFor(e)
           by == Operations[n].page
<1>1. n \in DOMAIN Operations /\ Endpoint(n) = e
  BY DEF MethodFor
<1>2. LooksLike(Endpoint(n), Endpoint(m))
  BY <1>1 DEF LooksLike
<1>3. by = Operations[m].page
  BY <1>1, <1>2, EndpointsAssumption
<1>4. PageAsked(e, q) = IF by \in DOMAIN q /\ q[by] \in 1..Pages THEN q[by] ELSE 1
  BY DEF PageAsked
<1>5. k \in Nat /\ (k = 1 \/ k > 1)
  BY PagesAssumption
<1> HIDE DEF e, by
<1>6. CASE k = 1
  BY <1>3, <1>4, <1>6 DEF QueryAsks, e
<1>7. CASE k > 1
  BY <1>3, <1>4, <1>7 DEF QueryAsks, e
<1> QED
  BY <1>5, <1>6, <1>7

\* Which endpoints serve a call: its own, or none.
LEMMA CallIsServed ==
  ASSUME CallInv, step \in {"sent", "answered"}
  PROVE  /\ method \in DOMAIN Operations /\ Path(method, given).ok
         /\ Serving(Operations[method].verb, Normalized(request.path)) =
              IF \E p \in DOMAIN given : given[p] = "" THEN {} ELSE {Endpoint(method)}
         /\ Cardinality(Serving(Operations[method].verb, Normalized(request.path))) = 1 <=>
              \A p \in DOMAIN given : given[p] # ""
<1>1. /\ method \in DOMAIN Operations /\ given \in [Placed(method) -> Arguments]
      /\ Path(method, given).ok /\ request.path = Path(method, given).value
  BY DEF CallInv
<1>2. PathShape(request.path, method, given)
  BY <1>1, PathIs
<1>3. Normalized(request.path) = request.path
  BY <1>2, PathArrives
<1> DEFINE served == Serving(Operations[method].verb, Normalized(request.path))
<1>4. served = IF \E p \in DOMAIN given : given[p] = "" THEN {} ELSE {Endpoint(method)}
  BY <1>1, <1>2, <1>3, PathIsServed
<1>5. Cardinality({Endpoint(method)}) = 1 /\ Cardinality({}) = 0
  BY FS_EmptySet, FS_Singleton
<1> HIDE DEF served
<1>6. Cardinality(served) = 1 <=> \A p \in DOMAIN given : given[p] # ""
  <2>1. CASE \E p \in DOMAIN given : given[p] = ""
    <3>1. Cardinality(served) # 1
      <4>1. served = {}
        BY <1>4, <2>1
      <4>2. Cardinality(served) = 0
        BY <1>5, <4>1
      <4> QED
        BY <4>2
    <3> QED
      BY <2>1, <3>1, Zenon
  <2>2. CASE \A p \in DOMAIN given : given[p] # ""
    <3>1. served = {Endpoint(method)}
      BY <1>4, <2>2
    <3> QED
      BY <1>5, <2>2, <3>1
  <2> QED
    BY <2>1, <2>2
<1> QED
  BY <1>1, <1>4, <1>6, Zenon DEF served

\* Sending: the query is that of the parameters; a call that throws has read nothing.
LEMMA PagesSend ==
  ASSUME CallInv, PageInv, Send
  PROVE  PageInv'
<1>1. /\ step = "call" /\ UNCHANGED <<method, given, params, pageBy, answer, pages>>
  BY DEF Send
<1>2. CASE Path(method, given).ok
  <2>1. step' = "sent" /\ request'.query = objectToSearchParams(QueryOf(method, params))
    BY <1>2 DEF Send
  <2> QED
    BY <1>1, <2>1 DEF PageInv
<1>3. CASE ~Path(method, given).ok
  <2>1. step' = "done"
    BY <1>3 DEF Send
  <2>2. pages = <<>>
    BY <1>3 DEF PageInv
  <2> QED
    BY <1>1, <2>1, <2>2 DEF PageInv
<1> QED
  BY <1>2, <1>3

\* The API answers with the page that was asked for, and the next, if there is one.
LEMMA PagesServe ==
  ASSUME CallInv, PageInv, Serve
  PROVE  PageInv'
<1> DEFINE served == Serving(Operations[method].verb, Normalized(request.path))
           k == Len(pages) + 1
<1>1. /\ step = "sent" /\ step' = "answered"
      /\ UNCHANGED <<method, given, params, pageBy, request, pages>>
  BY DEF Serve
<1>2. /\ method \in DOMAIN Operations
      /\ served = IF \E p \in DOMAIN given : given[p] = "" THEN {} ELSE {Endpoint(method)}
      /\ Cardinality(served) = 1 <=> \A p \in DOMAIN given : given[p] # ""
  BY <1>1, CallIsServed
<1>3. /\ pageBy \in Cursors(method) /\ k \in 1..Pages /\ Asks(pageBy, params, k)
      /\ request.query = objectToSearchParams(QueryOf(method, params))
  BY <1>1 DEF PageInv
<1>4. ASSUME Cardinality(answer'.served) = 1, Operations[method].page # "none"
      PROVE  answer'.page = k /\ answer'.next = IF k < Pages THEN k + 1 ELSE Undefined
  <2> DEFINE e == CHOOSE e \in served : TRUE
             page == PageAsked(e, request.query)
  <2>1. answer' = IF Cardinality(served) # 1 THEN [served |-> served]
                  ELSE [served |-> served, keys |-> AnswerKeys(e), page |-> page,
                        next |-> IF page < Pages THEN page + 1 ELSE Undefined]
    BY DEF Serve
  <2>2. Cardinality(served) = 1
    <3> HIDE DEF served, e, page
    <3> QED
      BY <1>4, <2>1
  <2>3. served = {Endpoint(method)}
    <3> HIDE DEF served
    <3> QED
      BY <1>2, <2>2
  <2>4. e = Endpoint(method)
    <3> HIDE DEF served
    <3> QED
      BY <2>3
  <2>5. k \in Nat \ {0}
    BY <1>3, PagesAssumption
  <2>6. QueryAsks(request.query, Operations[method].page, k)
    <3> HIDE DEF k
    <3> QED
      BY <1>2, <1>3, <1>4, <2>5, CallAsks
  <2>7. PageAsked(Endpoint(method), request.query) = k
    <3> HIDE DEF k
    <3> QED
      BY <1>2, <1>3, <2>6, PageIsAsked
  <2>8. page = k
    <3> HIDE DEF e, k
    <3> QED
      BY <2>4, <2>7
  <2> HIDE DEF served, e, page, k
  <2> QED
    BY <2>1, <2>2, <2>8
<1> QED
  BY <1>1, <1>4 DEF PageInv

\* The page is the next one in order, and the next call asks for the one after it.
LEMMA PagesReceive ==
  ASSUME CallInv, PageInv, Receive
  PROVE  PageInv'
<1> DEFINE k == Len(pages) + 1
<1>1. /\ step = "answered" /\ UNCHANGED <<method, given, pageBy, request, answer>>
  BY DEF Receive
<1>2. /\ method \in DOMAIN Operations /\ Path(method, given).ok
      /\ Cardinality(answer.served) = 1 <=> \A p \in DOMAIN given : given[p] # ""
  BY <1>1, CallIsServed DEF CallInv
<1>3. /\ pageBy \in Cursors(method) /\ k \in 1..Pages /\ Asks(pageBy, params, k)
      /\ pages \in Seq(Nat) /\ \A i \in DOMAIN pages : pages[i] = i
      /\ k \in Nat /\ Len(pages) \in Nat /\ Pages \in Nat
  <2>1. /\ pageBy \in Cursors(method) /\ k \in 1..Pages /\ Asks(pageBy, params, k)
        /\ pages \in Seq(Nat) /\ \A i \in DOMAIN pages : pages[i] = i
    BY <1>1 DEF PageInv
  <2>2. Pages \in Nat /\ Len(pages) \in Nat
    BY <2>1, PagesAssumption
  <2> QED
    BY <2>1, <2>2
<1>4. CASE Cardinality(answer.served) = 1 /\ Operations[method].page # "none"
  <2>1. answer.page = k /\ answer.next = IF k < Pages THEN k + 1 ELSE Undefined
    BY <1>1, <1>4 DEF PageInv
  <2>2. pages' = Append(pages, k)
    BY <1>4, <2>1 DEF Receive
  <2>3. /\ pages' \in Seq(Nat) /\ Len(pages') = k
        /\ \A i \in DOMAIN pages' : pages'[i] = i
    BY <1>3, <2>2
  <2>4. CASE k < Pages
    <3>1. answer.next = k + 1 /\ k + 1 # Undefined
      BY <1>3, <2>1, <2>4, PagesAssumption
    <3>2. Len(pages) < Pages
      BY <1>3, <2>4
    <3>3. step' = "call" /\ params' = PageOn(k + 1)
      <4> HIDE DEF k
      <4> QED
        BY <1>4, <3>1, <3>2 DEF Receive
    <3>4. Asks(pageBy, PageOn(k + 1), k + 1)
      <4>1. CASE pageBy = "both"
        <5>1. PageOn(k + 1) = [cursor |-> k + 1, next |-> params["cursor"]]
          BY <4>1 DEF PageOn
        <5>2. "cursor" \in DOMAIN PageOn(k + 1) /\ PageOn(k + 1)["cursor"] = k + 1
          <6> HIDE DEF k
          <6> QED
            BY <5>1
        <5>3. k + 1 # 1
          BY <1>3
        <5> HIDE DEF k
        <5> QED
          BY <4>1, <5>2, <5>3 DEF Asks
      <4>2. CASE pageBy # "both"
        <5>1. PageOn(k + 1) = With(params, pageBy, k + 1)
          BY <4>2 DEF PageOn
        <5>2. /\ DOMAIN With(params, pageBy, k + 1) = DOMAIN params \cup {pageBy}
              /\ With(params, pageBy, k + 1)[pageBy] = k + 1
          BY DEF With
        <5>3. DOMAIN params \cap {"cursor", "next", "after"} \subseteq {pageBy}
          BY <1>3, <4>2 DEF Asks
        <5>4. k + 1 # 1
          BY <1>3
        <5> HIDE DEF k
        <5> QED
          BY <4>2, <5>1, <5>2, <5>3, <5>4 DEF Asks
      <4> QED
        BY <4>1, <4>2
    <3>5. Len(pages') + 1 = k + 1 /\ k + 1 \in 1..Pages
      BY <1>3, <2>3, <2>4
    <3> HIDE DEF k
    <3> QED
      BY <1>1, <1>2, <1>3, <1>4, <2>3, <3>3, <3>4, <3>5 DEF PageInv
  <2>5. CASE ~(k < Pages)
    <3>1. step' = "done"
      <4>1. answer.next = Undefined
        BY <2>1, <2>5
      <4> QED
        BY <1>4, <4>1 DEF Receive
    <3>2. Len(pages') = Pages
      BY <1>3, <2>3, <2>5
    <3> HIDE DEF k
    <3> QED
      BY <1>1, <1>2, <1>4, <2>3, <3>1, <3>2 DEF PageInv
  <2> QED
    BY <2>4, <2>5
<1>5. CASE ~(Cardinality(answer.served) = 1 /\ Operations[method].page # "none")
  <2>1. step' = "done" /\ pages' = pages
    BY <1>5 DEF Receive
  <2>2. pages = <<>>
    BY <1>2, <1>5 DEF PageInv
  <2> QED
    BY <1>1, <2>1, <2>2 DEF PageInv
<1> QED
  BY <1>4, <1>5

\* Every step keeps it.
LEMMA PagesStep ==
  ASSUME CallInv, PageInv, [Next]_vars
  PROVE  PageInv'
<1>1. CASE UNCHANGED apiVars
  BY <1>1 DEF PageInv, apiVars
<1> QED
  BY <1>1, PagesSend, PagesServe, PagesReceive DEF Next, ApiNext, vars

\* Invariant of reading a list.
THEOREM PageInvariant == Spec => [](CallInv /\ PageInv)
<1>1. Init => CallInv /\ PageInv
  BY CallStarts, PagesStart
<1>2. CallInv /\ PageInv /\ [Next]_vars => (CallInv /\ PageInv)'
  BY CallStep, PagesStep
<1> QED
  BY <1>1, <1>2, PTL DEF Spec

\* Every page is read once and in order, by whichever cursor (tokens.ts:53-69), for any
\* number of pages.
THEOREM PagesAdvanceHolds == Spec => []PagesAdvance
<1>1. PageInv => PagesAdvance
  BY DEF PageInv, PagesAdvance
<1> QED
  BY <1>1, PageInvariant, PTL
=============================================================================
