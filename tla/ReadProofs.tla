-------------------------------- MODULE ReadProofs --------------------------------
(***************************************************************************)
(* What the public read API promises, for every content of the regions,    *)
(* every request and every time: the response cache serves no answer that  *)
(* its handler would no longer give; a region reported ready is served,    *)
(* and the regions an answer names as having a record are those that have  *)
(* it; the pages of a list are the list, a batch answers each of its ids,  *)
(* the views of an event agree, and what sums up or previews other answers *)
(* agrees with them.                                                       *)
(*                                                                         *)
(* The cache's theorem rests on one promise of the handlers, AnswersKeep:  *)
(* the moment a handler reports to cachehint.ValidUntil comes before       *)
(* anything in its answer can change.  It is proved for every cached       *)
(* route, handler by handler, from the helpers they share in QueryBase.    *)
(***************************************************************************)
EXTENDS ReadProperties, FiniteSetTheorems, TLAPS

-----------------------------------------------------------------------------
(* Lists by positions                                                       *)

\* A set of natural numbers has a least one.
LEMMA LeastNumber ==
  ASSUME NEW S, S \subseteq Nat, S # {}
  PROVE  \E m \in S : \A x \in S : m <= x
<1> DEFINE less == {p \in Nat \X Nat : p[1] < p[2]}
<1>1. IsWellFoundedOn(less, Nat)
  <2>1. less = OpToRel(<, Nat)
    BY DEF OpToRel
  <2> QED
    BY <2>1, NatLessThanWellFounded
<1>2. PICK m \in S : \A x \in S : <<x, m>> \notin less
  <2> HIDE DEF less
  <2> QED
    BY <1>1, WFMin
<1>3. ASSUME NEW x \in S PROVE m <= x
  <2>1. x \in Nat /\ m \in Nat
    OBVIOUS
  <2>2. x < m => <<x, m>> \in less
    BY <2>1
  <2> QED
    BY <1>2, <2>1, <2>2
<1> QED
  BY <1>3

\* R orders S: no two of S come before each other, nor neither.
StrictOrder(R, S) ==
  /\ \A x \in S : <<x, x>> \notin R
  /\ \A x, y, z \in S : <<x, y>> \in R /\ <<y, z>> \in R => <<x, z>> \in R
  /\ \A x, y \in S : x # y => <<x, y>> \in R \/ <<y, x>> \in R

\* What comes before x, and how much it is.
Under(x, R, S) == {y \in S : <<y, x>> \in R}
Rank(x, R, S) == Cardinality(Under(x, R, S))

\* Less comes before what comes first.
LEMMA RankGrows ==
  ASSUME NEW S, IsFiniteSet(S), NEW R, StrictOrder(R, S),
         NEW x \in S, NEW y \in S, <<x, y>> \in R
  PROVE  Rank(x, R, S) \in Nat /\ Rank(y, R, S) \in Nat /\ Rank(x, R, S) < Rank(y, R, S)
<1>1. Under(y, R, S) \in SUBSET S /\ Under(x, R, S) \in SUBSET S
  BY DEF Under
<1>2. IsFiniteSet(Under(y, R, S)) /\ IsFiniteSet(Under(x, R, S))
  BY <1>1, FS_Subset
<1>3. x \in Under(y, R, S) /\ Under(x, R, S) \in SUBSET (Under(y, R, S) \ {x})
  BY DEF Under, StrictOrder
<1>4. /\ IsFiniteSet(Under(y, R, S) \ {x})
      /\ Cardinality(Under(y, R, S) \ {x}) = Cardinality(Under(y, R, S)) - 1
  BY <1>2, <1>3, FS_RemoveElement
<1>5. Cardinality(Under(x, R, S)) <= Cardinality(Under(y, R, S) \ {x})
  BY <1>3, <1>4, FS_Subset
<1>6. Cardinality(Under(x, R, S)) \in Nat /\ Cardinality(Under(y, R, S)) \in Nat
  BY <1>2, FS_CardinalityType
<1> QED
  BY <1>4, <1>5, <1>6 DEF Rank

\* The order R numbers S from 1 on.
Numbered(S, R) ==
  LET N == Cardinality(S)
  IN  /\ N \in Nat
      /\ \A n \in 1..N : Ranked(S, R, n) \in S /\ Rank(Ranked(S, R, n), R, S) = n - 1
      /\ \A x \in S : \E n \in 1..N : x = Ranked(S, R, n)
      /\ \A n, m \in 1..N : Ranked(S, R, n) = Ranked(S, R, m) => n = m
      /\ \A n, m \in 1..N : n < m => <<Ranked(S, R, n), Ranked(S, R, m)>> \in R

\* An order of a finite set numbers it.
LEMMA OrderNumbers ==
  ASSUME NEW S, IsFiniteSet(S), NEW R, StrictOrder(R, S)
  PROVE  Numbered(S, R)
<1> DEFINE N == Cardinality(S)
<1>1. N \in Nat
  BY FS_CardinalityType
<1>2. ASSUME NEW x \in S PROVE Rank(x, R, S) \in 0..(N - 1)
  <2>1. Under(x, R, S) \in SUBSET (S \ {x})
    BY DEF Under, StrictOrder
  <2>2. IsFiniteSet(S \ {x}) /\ Cardinality(S \ {x}) = N - 1
    BY FS_RemoveElement
  <2>3. IsFiniteSet(Under(x, R, S)) /\ Cardinality(Under(x, R, S)) <= N - 1
    BY <2>1, <2>2, FS_Subset
  <2>4. Cardinality(Under(x, R, S)) \in Nat
    BY <2>3, FS_CardinalityType
  <2> QED
    BY <1>1, <2>3, <2>4 DEF Rank
<1>3. ASSUME NEW x \in S, NEW y \in S, Rank(x, R, S) = Rank(y, R, S) PROVE x = y
  <2>1. CASE <<x, y>> \in R
    BY <1>3, <2>1, RankGrows
  <2>2. CASE <<y, x>> \in R
    BY <1>3, <2>2, RankGrows
  <2> QED
    BY <2>1, <2>2 DEF StrictOrder
<1>4. \A n \in 1..N : \E x \in S : Rank(x, R, S) = n - 1
  <2> DEFINE number == [x \in S |-> Rank(x, R, S) + 1]
  <2>1. number \in [S -> 1..N]
    BY <1>1, <1>2
  <2>2. number \in Injection(S, 1..N)
    <3>1. \A x, y \in S : number[x] = number[y] => x = y
      BY <1>2, <1>3
    <3> QED
      BY <2>1, <3>1 DEF Injection, IsInjective
  <2>3. IsFiniteSet(1..N) /\ Cardinality(1..N) = N
    BY <1>1, FS_Interval
  <2>4. number \in Surjection(S, 1..N)
    <3> HIDE DEF number
    <3> QED
      BY <2>2, <2>3, FS_Injection
  <2>5. \A n \in 1..N : \E x \in S : number[x] = n
    BY <2>4 DEF Surjection
  <2> QED
    BY <1>1, <1>2, <2>5
<1>5. ASSUME NEW n \in 1..N PROVE Ranked(S, R, n) \in S /\ Rank(Ranked(S, R, n), R, S) = n - 1
  BY <1>4, Zenon DEF Ranked, Rank, Under
<1>6. ASSUME NEW x \in S PROVE \E n \in 1..N : x = Ranked(S, R, n)
  <2>1. PICK n \in 1..N : Rank(x, R, S) = n - 1
    <3>1. Rank(x, R, S) + 1 \in 1..N /\ Rank(x, R, S) = (Rank(x, R, S) + 1) - 1
      BY <1>1, <1>2
    <3> QED
      BY <3>1
  <2> QED
    BY <1>3, <1>5, <2>1
<1>7. ASSUME NEW n \in 1..N, NEW m \in 1..N, Ranked(S, R, n) = Ranked(S, R, m) PROVE n = m
  <2>1. n - 1 = m - 1
    BY <1>5, <1>7
  <2> QED
    BY <1>1, <2>1
<1>8. ASSUME NEW n \in 1..N, NEW m \in 1..N, n < m
      PROVE  <<Ranked(S, R, n), Ranked(S, R, m)>> \in R
  <2>1. PICK x \in S, y \in S : x = Ranked(S, R, n) /\ y = Ranked(S, R, m)
    BY <1>5
  <2>2. Rank(x, R, S) = n - 1 /\ Rank(y, R, S) = m - 1
    BY <1>5, <2>1
  <2>3. n \in Int /\ m \in Int
    BY <1>1
  <2>4. x # y
    BY <1>8, <2>2, <2>3
  <2>5. CASE <<y, x>> \in R
    <3>1. Rank(y, R, S) < Rank(x, R, S)
      BY <2>5, RankGrows
    <3> QED
      BY <1>8, <2>2, <2>3, <3>1
  <2> QED
    BY <2>1, <2>4, <2>5 DEF StrictOrder
<1> QED
  BY <1>1, <1>5, <1>6, <1>7, <1>8 DEF Numbered

\* Positions in their own order.
Earlier == {p \in Nat \X Nat : p[1] < p[2]}

\* The n-th of the positions is the one of rank n in that order.
LEMMA NthIsRanked ==
  ASSUME NEW P \in SUBSET Nat, NEW n
  PROVE  Nth(P, n) = Ranked(P, Earlier, n)
<1>1. \A i \in P : {j \in P : j < i} = {j \in P : <<j, i>> \in Earlier}
  BY DEF Earlier
<1>2. \A i \in P : Cardinality({j \in P : j < i}) = n - 1 <=> Cardinality({j \in P : <<j, i>> \in Earlier}) = n - 1
  BY <1>1
<1> HIDE DEF Earlier
<1>3. (CHOOSE i : i \in P /\ Cardinality({j \in P : j < i}) = n - 1)
        = CHOOSE i : i \in P /\ Cardinality({j \in P : <<j, i>> \in Earlier}) = n - 1
  BY <1>2, Zenon
<1> QED
  BY <1>3 DEF Nth, Ranked

\* A finite set of positions is numbered by its order.
LEMMA PositionsNumbered ==
  ASSUME NEW P \in SUBSET Nat, IsFiniteSet(P)
  PROVE  /\ Cardinality(P) \in Nat
         /\ \A n \in 1..Cardinality(P) : Nth(P, n) \in P
         /\ \A i \in P : \E n \in 1..Cardinality(P) : i = Nth(P, n)
         /\ \A n, m \in 1..Cardinality(P) : Nth(P, n) = Nth(P, m) => n = m
         /\ \A n, m \in 1..Cardinality(P) : n < m => Nth(P, n) < Nth(P, m)
<1>1. StrictOrder(Earlier, P)
  BY DEF StrictOrder, Earlier
<1>2. Numbered(P, Earlier)
  BY <1>1, OrderNumbers
<1>3. \A n : Nth(P, n) = Ranked(P, Earlier, n)
  BY NthIsRanked
<1>4. \A i, j : <<i, j>> \in Earlier => i < j
  BY DEF Earlier
<1>5. PICK N : N = Cardinality(P)
  OBVIOUS
<1>6. /\ N \in Nat
      /\ \A n \in 1..N : Ranked(P, Earlier, n) \in P
      /\ \A x \in P : \E n \in 1..N : x = Ranked(P, Earlier, n)
      /\ \A n, m \in 1..N : Ranked(P, Earlier, n) = Ranked(P, Earlier, m) => n = m
      /\ \A n, m \in 1..N : n < m => <<Ranked(P, Earlier, n), Ranked(P, Earlier, m)>> \in Earlier
  BY <1>2, <1>5, Zenon DEF Numbered
<1> HIDE DEF Earlier
<1>7. ASSUME NEW n \in 1..N, NEW m \in 1..N, n < m PROVE Nth(P, n) < Nth(P, m)
  <2>1. <<Ranked(P, Earlier, n), Ranked(P, Earlier, m)>> \in Earlier
    BY <1>6, <1>7
  <2>2. Ranked(P, Earlier, n) < Ranked(P, Earlier, m)
    BY <1>4, <2>1, Zenon
  <2> QED
    BY <1>3, <2>2
<1>8. /\ \A n \in 1..N : Nth(P, n) \in P
      /\ \A i \in P : \E n \in 1..N : i = Nth(P, n)
      /\ \A n, m \in 1..N : Nth(P, n) = Nth(P, m) => n = m
  BY <1>3, <1>6
<1> QED
  BY <1>5, <1>6, <1>7, <1>8, Zenon

\* The positions of a list of n members.
LEMMA Places ==
  ASSUME NEW n \in Nat
  PROVE  IsFiniteSet(1..n) /\ Cardinality(1..n) = n
<1>1. 1 \in Int /\ n \in Int
  OBVIOUS
<1> QED
  BY <1>1, FS_Interval

\* What is picked of a list: its members at the positions, each once.
PicksOf(s, T, P) ==
  /\ IsFiniteSet(P) /\ Cardinality(P) \in Nat /\ Cardinality(P) <= Len(s)
  /\ Picked(s, P) \in Seq(T)
  /\ DOMAIN Picked(s, P) = 1..Cardinality(P) /\ Len(Picked(s, P)) = Cardinality(P)
  /\ \A n \in 1..Cardinality(P) : Nth(P, n) \in P /\ Picked(s, P)[n] = s[Nth(P, n)]
  /\ Range(Picked(s, P)) = {s[i] : i \in P}

\* Picking positions keeps the members there.
LEMMA PickedHolds ==
  ASSUME NEW T, NEW s \in Seq(T), NEW P \in SUBSET DOMAIN s
  PROVE  PicksOf(s, T, P)
<1>1. PICK n \in Nat : n = Len(s)
  OBVIOUS
<1>2. DOMAIN s = 1..n
  BY <1>1
<1>3. IsFiniteSet(P) /\ Cardinality(P) <= Len(s)
  <2>1. IsFiniteSet(1..n) /\ Cardinality(1..n) = n
    BY Places
  <2>2. P \in SUBSET (1..n)
    BY <1>2
  <2> QED
    BY <1>1, <2>1, <2>2, FS_Subset
<1>4. P \in SUBSET Nat
  BY <1>2
<1>5. /\ Cardinality(P) \in Nat
      /\ \A k \in 1..Cardinality(P) : Nth(P, k) \in P
      /\ \A i \in P : \E k \in 1..Cardinality(P) : i = Nth(P, k)
  BY <1>3, <1>4, PositionsNumbered
<1>6. \A i \in P : s[i] \in T
  BY <1>2
<1>7. Picked(s, P) = [k \in 1..Cardinality(P) |-> s[Nth(P, k)]]
  BY DEF Picked
<1>8. Picked(s, P) \in Seq(T) /\ Len(Picked(s, P)) = Cardinality(P)
  <2>1. Picked(s, P) \in [1..Cardinality(P) -> T]
    BY <1>5, <1>6, <1>7
  <2> QED
    BY <1>5, <2>1
<1>9. Range(Picked(s, P)) = {s[i] : i \in P}
  <2>1. Range(Picked(s, P)) = {s[Nth(P, k)] : k \in 1..Cardinality(P)}
    BY <1>7 DEF Range
  <2>2. \A k \in 1..Cardinality(P) : s[Nth(P, k)] \in {s[i] : i \in P}
    BY <1>5
  <2>3. ASSUME NEW i \in P PROVE s[i] \in {s[Nth(P, k)] : k \in 1..Cardinality(P)}
    <3>1. PICK k \in 1..Cardinality(P) : i = Nth(P, k)
      BY <1>5
    <3> QED
      BY <3>1
  <2> QED
    BY <2>1, <2>2, <2>3
<1> QED
  BY <1>3, <1>5, <1>7, <1>8, <1>9 DEF PicksOf

\* A list that repeats nothing has as many members as places.
LEMMA NoneRepeated ==
  ASSUME NEW T, NEW s \in Seq(T), IsInjective(s)
  PROVE  Cardinality(Range(s)) = Len(s)
<1>1. PICK n \in Nat : n = Len(s)
  OBVIOUS
<1>2. DOMAIN s = 1..n
  BY <1>1
<1>3. IsFiniteSet(1..n) /\ Cardinality(1..n) = n
  BY Places
<1>4. s \in [1..n -> Range(s)] /\ \A x \in Range(s) : \E i \in 1..n : s[i] = x
  BY <1>2 DEF Range
<1>5. s \in Surjection(1..n, Range(s)) /\ s \in Injection(1..n, Range(s))
  BY <1>4 DEF Surjection, Injection
<1> QED
  BY <1>1, <1>3, <1>5, FS_Surjection

\* Picking from a list that repeats nothing repeats nothing.
LEMMA PickedOnce ==
  ASSUME NEW T, NEW s \in Seq(T), IsInjective(s), NEW P \in SUBSET DOMAIN s
  PROVE  IsInjective(Picked(s, P)) /\ Cardinality(Range(Picked(s, P))) = Cardinality(P)
<1>1. PicksOf(s, T, P) /\ P \in SUBSET Nat
  BY PickedHolds
<1>2. \A n, m \in 1..Cardinality(P) : Nth(P, n) = Nth(P, m) => n = m
  BY <1>1, PositionsNumbered DEF PicksOf
<1>3. IsInjective(Picked(s, P))
  BY <1>1, <1>2 DEF PicksOf, IsInjective
<1> QED
  BY <1>1, <1>3, NoneRepeated DEF PicksOf

\* Distinct keeps every member, each once.
LEMMA DistinctHolds ==
  ASSUME NEW T, NEW s \in Seq(T)
  PROVE  /\ Distinct(s) \in Seq(T) /\ Range(Distinct(s)) = Range(s)
         /\ IsInjective(Distinct(s)) /\ Len(Distinct(s)) <= Len(s)
<1> DEFINE P == {i \in DOMAIN s : \A j \in 1..(i - 1) : s[j] # s[i]}
<1>1. PICK n \in Nat : n = Len(s)
  OBVIOUS
<1>2. DOMAIN s = 1..n /\ P \in SUBSET DOMAIN s /\ P \in SUBSET Nat
  BY <1>1
<1>3. PicksOf(s, T, P)
  BY <1>2, PickedHolds
<1>4. Distinct(s) = Picked(s, P)
  BY DEF Distinct
<1>5. ASSUME NEW i \in DOMAIN s PROVE \E k \in P : s[k] = s[i]
  <2>1. PICK k \in {j \in DOMAIN s : s[j] = s[i]} : \A x \in {j \in DOMAIN s : s[j] = s[i]} : k <= x
    <3>1. {j \in DOMAIN s : s[j] = s[i]} \subseteq Nat /\ i \in {j \in DOMAIN s : s[j] = s[i]}
      BY <1>2
    <3> QED
      BY <3>1, LeastNumber
  <2>2. \A j \in 1..(k - 1) : j \in DOMAIN s /\ ~(k <= j)
    BY <1>2
  <2> QED
    BY <2>1, <2>2
<1>6. \A i, j \in P : s[i] = s[j] => i = j
  <2>1. ASSUME NEW i \in P, NEW j \in P, i < j PROVE s[i] # s[j]
    <3>1. i \in 1..(j - 1)
      BY <1>2, <2>1
    <3> QED
      BY <3>1
  <2> QED
    BY <1>2, <2>1
<1>7. \A k, m \in 1..Cardinality(P) : Nth(P, k) = Nth(P, m) => k = m
  <2> HIDE DEF P
  <2> QED
    BY <1>2, <1>3, PositionsNumbered DEF PicksOf
<1>8. IsInjective(Distinct(s))
  <2> HIDE DEF P
  <2> QED
    BY <1>3, <1>4, <1>6, <1>7 DEF PicksOf, IsInjective
<1>9. Range(Distinct(s)) = Range(s)
  <2>1. {s[i] : i \in P} = {s[i] : i \in DOMAIN s}
    <3> HIDE DEF P
    <3> QED
      BY <1>2, <1>5
  <2> QED
    BY <1>3, <1>4, <2>1 DEF PicksOf, Range
<1> QED
  <2> HIDE DEF P
  <2> QED
    BY <1>3, <1>4, <1>8, <1>9 DEF PicksOf

-----------------------------------------------------------------------------
(* Moments                                                                  *)

\* A moment reported at t: none (0), or one that is still to come.
Reports(until, t)  == until \in Int /\ (until = 0 \/ t < until)

\* u is not past the reported moment.
Foreseen(until, u) == until = 0 \/ u < until

\* cachehint.ValidUntil keeps the first of the moments it is told: it is still
\* to come, and a time before it is before each of them.
LEMMA SoonestIsFirst ==
  ASSUME NEW t \in Nat, NEW S, S \subseteq Int, \A x \in S : t < x
  PROVE  /\ Reports(Soonest(S), t)
         /\ \A u \in Nat : Foreseen(Soonest(S), u) => \A x \in S : u < x
<1>1. CASE S = {}
  BY <1>1 DEF Soonest, Reports
<1>2. CASE S # {}
  <2>1. PICK m \in S : \A x \in S : m <= x
    <3>1. S \subseteq Nat
      OBVIOUS
    <3> QED
      BY <1>2, <3>1, LeastNumber
  <2>2. Min(S) \in S /\ \A x \in S : Min(S) <= x
    BY <2>1 DEF Min
  <2>3. PICK k : k = Soonest(S)
    OBVIOUS
  <2>4. k \in S /\ \A x \in S : k <= x
    BY <1>2, <2>2, <2>3 DEF Soonest
  <2>5. k \in Int /\ t < k
    BY <2>4
  <2> QED
    BY <2>3, <2>4, <2>5 DEF Reports, Foreseen
<1> QED
  BY <1>1, <1>2

\* The earlier of two reports (earliestNonZero) is before both of them.
LEMMA EarliestIsBoth ==
  ASSUME NEW t \in Nat, NEW x, NEW y, Reports(x, t), Reports(y, t)
  PROVE  /\ Reports(Earliest(x, y), t)
         /\ \A u \in Nat : Foreseen(Earliest(x, y), u) => Foreseen(x, u) /\ Foreseen(y, u)
BY DEF Reports, Foreseen, Earliest

\* A set of numbers that is empty or has a last one.
Bounded(S) == S = {} \/ \E m \in S : \A x \in S : x <= m

\* Two bounded sets are bounded together.
LEMMA BoundedUnion ==
  ASSUME NEW S, NEW T, S \subseteq Int, T \subseteq Int, Bounded(S), Bounded(T)
  PROVE  Bounded(S \cup T)
<1>1. CASE S = {} \/ T = {}
  BY <1>1 DEF Bounded
<1>2. CASE S # {} /\ T # {}
  <2>1. PICK m \in S : \A x \in S : x <= m
    BY <1>2 DEF Bounded
  <2>2. PICK n \in T : \A x \in T : x <= n
    BY <1>2 DEF Bounded
  <2>3. CASE m <= n
    <3>1. \A x \in S \cup T : x <= n
      BY <2>1, <2>2, <2>3
    <3> QED
      BY <3>1 DEF Bounded
  <2>4. CASE n <= m
    <3>1. \A x \in S \cup T : x <= m
      BY <2>1, <2>2, <2>4
    <3> QED
      BY <3>1 DEF Bounded
  <2> QED
    BY <2>3, <2>4
<1> QED
  BY <1>1, <1>2

-----------------------------------------------------------------------------
(* Spoilers                                                                 *)

\* An item is revealed at the last of the moments that hold it back.
LEMMA RevealIsLast ==
  ASSUME NEW r, NEW t \in Nat, IsSpoilerItem(r, t)
  PROVE  /\ SpoilerRevealAt(r, t) \in Ahead(r, t)
         /\ \A x \in Ahead(r, t) : x <= SpoilerRevealAt(r, t)
<1> DEFINE Of(f) == {x \in {r[f]} : f \in DOMAIN r /\ IsTime(x) /\ x > t}
<1>1. \A f : Of(f) \subseteq Int /\ Bounded(Of(f))
  BY DEF IsTime, Bounded
<1>2. Ahead(r, t) = (Of("releaseAt") \cup Of("releastAt")) \cup (Of("publishedAt") \cup Of("startAt"))
  BY DEF Ahead, SpoilerTimestampKeys
<1>3. Ahead(r, t) \subseteq Int /\ Bounded(Ahead(r, t))
  <2> HIDE DEF Of
  <2> DEFINE A == Of("releaseAt") \cup Of("releastAt")
             B == Of("publishedAt") \cup Of("startAt")
  <2>1. A \subseteq Int /\ Bounded(A) /\ B \subseteq Int /\ Bounded(B)
    BY <1>1, BoundedUnion
  <2>2. Ahead(r, t) = A \cup B
    BY <1>2
  <2> HIDE DEF A, B
  <2> QED
    BY <2>1, <2>2, BoundedUnion
<1>4. PICK m \in Ahead(r, t) : \A x \in Ahead(r, t) : x <= m
  BY <1>3 DEF Bounded, IsSpoilerItem
<1> QED
  <2>1. Max(Ahead(r, t)) \in Ahead(r, t) /\ \A x \in Ahead(r, t) : Max(Ahead(r, t)) >= x
    BY <1>4, <1>3 DEF Max
  <2>2. \A x \in Ahead(r, t) : x <= Max(Ahead(r, t))
    BY <1>3, <2>1
  <2> QED
    BY <2>1, <2>2 DEF SpoilerRevealAt

\* The moments that hold an item back are still to come.
LEMMA AheadIsLater ==
  ASSUME NEW r, NEW t \in Nat
  PROVE  Ahead(r, t) \subseteq Int /\ \A x \in Ahead(r, t) : t < x
BY DEF Ahead, IsTime

\* nextReveal foresees filterSpoilerItems: until the moment it reports, the
\* list without its spoilers is the same list.
LEMMA SpoilersForeseen ==
  ASSUME NEW items, NEW t \in Nat
  PROVE  /\ Reports(NextReveal(items, t), t)
         /\ \A u \in Nat : t <= u /\ Foreseen(NextReveal(items, t), u)
              => FilterSpoilerItems(items, u) = FilterSpoilerItems(items, t)
<1> DEFINE S == {SpoilerRevealAt(r, t) : r \in Spoilers(items, t)}
<1>1. \A r \in Spoilers(items, t) : SpoilerRevealAt(r, t) \in Ahead(r, t)
  BY RevealIsLast DEF Spoilers
<1>2. S \subseteq Int /\ \A x \in S : t < x
  BY <1>1, AheadIsLater
<1>3. NextReveal(items, t) = Soonest(S)
  BY DEF NextReveal
<1> HIDE DEF S
<1>4. Reports(NextReveal(items, t), t)
  BY <1>2, <1>3, SoonestIsFirst
<1>5. ASSUME NEW u \in Nat, t <= u, Foreseen(NextReveal(items, t), u)
      PROVE  FilterSpoilerItems(items, u) = FilterSpoilerItems(items, t)
  <2>1. \A x \in S : u < x
    BY <1>2, <1>3, <1>5, SoonestIsFirst
  <2>2. ASSUME NEW r \in Spoilers(items, t) PROVE r \in Spoilers(items, u)
    <3>1. SpoilerRevealAt(r, t) \in Ahead(r, t) /\ u < SpoilerRevealAt(r, t)
      BY <1>1, <2>1 DEF S
    <3>2. SpoilerRevealAt(r, t) \in Ahead(r, u)
      BY <3>1 DEF Ahead, IsTime
    <3> QED
      BY <3>2 DEF Spoilers, IsSpoilerItem
  <2>3. ASSUME NEW r \in Spoilers(items, u) PROVE r \in Spoilers(items, t)
    BY <1>5 DEF Spoilers, IsSpoilerItem, Ahead, IsTime
  <2>4. Spoilers(items, u) = Spoilers(items, t)
    BY <2>2, <2>3
  <2> QED
    BY <2>4 DEF FilterSpoilerItems
<1> QED
  BY <1>4, <1>5

\* The same when the request may switch the filter off (spoiler=true).
LEMMA ShownUntilReveal ==
  ASSUME NEW items, NEW spoiler, NEW t \in Nat, NEW u \in Nat,
         NEW until, until = IF spoiler THEN 0 ELSE NextReveal(items, t)
  PROVE  /\ Reports(until, t)
         /\ t <= u /\ Foreseen(until, u)
              => spoiler \/ FilterSpoilerItems(items, u) = FilterSpoilerItems(items, t)
<1>1. CASE spoiler
  BY <1>1 DEF Reports
<1>2. CASE ~spoiler
  BY <1>2, SpoilersForeseen
<1> QED
  BY <1>1, <1>2

\* The same for what a request may see.
LEMMA VisibleUntilReveal ==
  ASSUME NEW items, NEW q, NEW t \in Nat, NEW u \in Nat,
         NEW until, until = IF q.spoiler THEN 0 ELSE NextReveal(items, t)
  PROVE  /\ Reports(until, t)
         /\ t <= u /\ Foreseen(until, u) => Visible(items, q, u) = Visible(items, q, t)
BY ShownUntilReveal DEF Visible

-----------------------------------------------------------------------------
(* The handlers keep their answers                                          *)

\* The answer a, given at t, reports a moment until which it is the answer b
\* given at u.
Keeps(a, b, t, u) ==
  /\ Reports(a.until, t)
  /\ t <= u /\ Foreseen(a.until, u) => b.status = a.status /\ b.body = a.body

\* The list of events changes only when a spoiler is revealed.
LEMMA EventListKeeps ==
  ASSUME NEW db, NEW q, NEW t \in Nat, NEW u \in Nat
  PROVE  Keeps(EventList(db, q, t), EventList(db, q, u), t, u)
<1> DEFINE all == Selected(ListAll(db, "events"), LAMBDA e : EventMatches(db, e, q))
           until == EventList(db, q, t).until
<1>1. until = IF q.spoiler THEN 0 ELSE NextReveal(all, t)
  BY DEF EventList, OkUntil
<1>2. Visible(all, q, u) = Visible(all, q, t)
        => EventList(db, q, u).body = EventList(db, q, t).body
  BY ZenonT(40) DEF EventList, OkUntil
<1>3. EventList(db, q, u).status = EventList(db, q, t).status
  BY DEF EventList, OkUntil
<1> QED
  <2> HIDE DEF all
  <2>1. PICK m : m = until
    OBVIOUS
  <2> HIDE DEF until
  <2>2. Reports(m, t) /\ (t <= u /\ Foreseen(m, u) => Visible(all, q, u) = Visible(all, q, t))
    BY <1>1, <2>1, VisibleUntilReveal
  <2> QED
    BY <1>2, <1>3, <2>1, <2>2 DEF Keeps, until

\* The list of virtual lives changes only when a spoiler is revealed.
LEMMA VirtualLiveListKeeps ==
  ASSUME NEW db, NEW q, NEW t \in Nat, NEW u \in Nat
  PROVE  Keeps(VirtualLiveList(db, q, t), VirtualLiveList(db, q, u), t, u)
<1> DEFINE all == ListAll(db, "virtuallives")
           until == VirtualLiveList(db, q, t).until
<1>1. until = IF q.spoiler THEN 0 ELSE NextReveal(all, t)
  BY DEF VirtualLiveList, OkUntil
<1>2. Visible(all, q, u) = Visible(all, q, t)
        => VirtualLiveList(db, q, u).body = VirtualLiveList(db, q, t).body
  BY ZenonT(40) DEF VirtualLiveList, OkUntil
<1>3. VirtualLiveList(db, q, u).status = VirtualLiveList(db, q, t).status
  BY DEF VirtualLiveList, OkUntil
<1> QED
  <2> HIDE DEF all
  <2>1. PICK m : m = until
    OBVIOUS
  <2> HIDE DEF until
  <2>2. Reports(m, t) /\ (t <= u /\ Foreseen(m, u) => Visible(all, q, u) = Visible(all, q, t))
    BY <1>1, <2>1, VisibleUntilReveal
  <2> QED
    BY <1>2, <1>3, <2>1, <2>2 DEF Keeps, until

\* The list of a lookup entity changes only when a spoiler is revealed; a
\* refused page size never changes.
LEMMA LookupListKeeps ==
  ASSUME NEW db, NEW q, NEW t \in Nat, NEW u \in Nat
  PROVE  Keeps(LookupList(db, q, t), LookupList(db, q, u), t, u)
<1> DEFINE all == ListAll(db, q.entity)
           refused == q.size > MaxPageSize
           until == LookupList(db, q, t).until
<1>1. until = IF refused \/ q.spoiler THEN 0 ELSE NextReveal(all, t)
  BY DEF LookupList, OkUntil, Fail
<1>2. refused \/ Visible(all, q, u) = Visible(all, q, t)
        => LookupList(db, q, u).body = LookupList(db, q, t).body
  BY ZenonT(40) DEF LookupList, OkUntil, Fail
<1>3. LookupList(db, q, u).status = LookupList(db, q, t).status
  BY DEF LookupList, OkUntil, Fail
<1> QED
  <2> HIDE DEF all, refused
  <2>1. PICK m : m = until
    OBVIOUS
  <2> HIDE DEF until
  <2>2. Reports(m, t) /\ (t <= u /\ Foreseen(m, u) => refused \/ Visible(all, q, u) = Visible(all, q, t))
    BY <1>1, <2>1, VisibleUntilReveal DEF Reports
  <2> QED
    BY <1>2, <1>3, <2>1, <2>2 DEF Keeps, until

\* The list of music records changes only when one of its songs is revealed.
LEMMA MusicRecordsListKeeps ==
  ASSUME NEW db, NEW q, NEW t \in Nat, NEW u \in Nat
  PROVE  Keeps(MusicRecordsList(db, q, t), MusicRecordsList(db, q, u), t, u)
<1> DEFINE all == FirstRows(db, "musics", MusicFields)
           whole == q.spoiler \/ q.size > MaxPageSize
           until == MusicRecordsList(db, q, t).until
<1>1. until = IF whole THEN 0 ELSE NextReveal(all, t)
  BY DEF MusicRecordsList, TypedPage, Ok, Fail
<1>2. q.spoiler \/ FilterSpoilerItems(all, u) = FilterSpoilerItems(all, t)
        => MysekaiMusicRecords(db, q.spoiler, u) = MysekaiMusicRecords(db, q.spoiler, t)
  BY ZenonT(40) DEF MysekaiMusicRecords
<1>3. whole \/ FilterSpoilerItems(all, u) = FilterSpoilerItems(all, t)
        => MusicRecordsList(db, q, u).body = MusicRecordsList(db, q, t).body
  BY <1>2 DEF MusicRecordsList, TypedPage, Ok, Fail
<1>4. MusicRecordsList(db, q, u).status = MusicRecordsList(db, q, t).status
  BY DEF MusicRecordsList, TypedPage, Ok, Fail
<1> QED
  <2> HIDE DEF all, whole
  <2>1. PICK m : m = until
    OBVIOUS
  <2> HIDE DEF until
  <2>2. Reports(m, t) /\ (t <= u /\ Foreseen(m, u) => whole \/ FilterSpoilerItems(all, u) = FilterSpoilerItems(all, t))
    BY <1>1, <2>1, ShownUntilReveal
  <2> QED
    BY <1>3, <1>4, <2>1, <2>2 DEF Keeps, until

\* nextOngoingChange foresees the gachas that open and those that close, the
\* closing time itself included.
LEMMA OngoingForeseen ==
  ASSUME NEW rows, NEW t \in Nat, NEW u \in Nat
  PROVE  /\ Reports(NextOngoingChange(rows, t), t)
         /\ t <= u /\ Foreseen(NextOngoingChange(rows, t), u)
              => Ongoing(rows, u) = Ongoing(rows, t)
<1> DEFINE starts == {r.startAt : r \in Upcoming(rows, t)}
           ends   == {r.endAt + 1 : r \in Ongoing(rows, t)}
<1>1. starts \cup ends \subseteq Int /\ \A x \in starts \cup ends : t < x
  <2>1. \A r : HasGachaWindow(r) => r.startAt \in Int /\ r.endAt \in Int
    BY QueryAssumption DEF HasGachaWindow, IsTime, Get, Field
  <2>2. \A r \in Upcoming(rows, t) : r.startAt \in Int /\ t < r.startAt
    BY <2>1 DEF Upcoming
  <2>3. \A r \in Ongoing(rows, t) : r.endAt + 1 \in Int /\ t < r.endAt + 1
    BY <2>1 DEF Ongoing
  <2> QED
    BY <2>2, <2>3
<1>2. NextOngoingChange(rows, t) = Soonest(starts \cup ends)
  BY DEF NextOngoingChange
<1>3. ASSUME t <= u, Foreseen(NextOngoingChange(rows, t), u)
      PROVE  Ongoing(rows, u) = Ongoing(rows, t)
  <2>1. \A x \in starts \cup ends : u < x
    <3> HIDE DEF starts, ends
    <3> QED
      BY <1>1, <1>2, <1>3, SoonestIsFirst
  <2>2. \A r \in Upcoming(rows, t) : u < r.startAt
    BY <2>1
  <2>3. \A r \in Ongoing(rows, t) : u < r.endAt + 1
    BY <2>1
  <2> HIDE DEF starts, ends
  <2>4. ASSUME NEW r, HasGachaWindow(r)
        PROVE  r.startAt \in Int /\ r.endAt \in Int
    BY <2>4, QueryAssumption DEF HasGachaWindow, IsTime, Get, Field
  <2>5. ASSUME NEW r \in Range(rows), HasGachaWindow(r)
        PROVE  r \in Ongoing(rows, u) <=> r \in Ongoing(rows, t)
    BY <1>3, <2>2, <2>3, <2>4, <2>5 DEF Ongoing, Upcoming
  <2> QED
    BY <2>5 DEF Ongoing
<1> QED
  <2> HIDE DEF starts, ends
  <2> QED
    BY <1>1, <1>2, <1>3, SoonestIsFirst

\* The list of gachas changes when a spoiler is revealed and, when only the
\* ongoing ones are asked for, when one opens or closes.
LEMMA GachaListKeeps ==
  ASSUME NEW db, NEW q, NEW t \in Nat, NEW u \in Nat
  PROVE  Keeps(GachaList(db, q, t), GachaList(db, q, u), t, u)
<1> DEFINE rows == ProjectionRows(db, "gachas", GachaProjection)
           seen == Visible(rows, q, t)
           reveal == IF q.spoiler THEN 0 ELSE NextReveal(rows, t)
           change == IF q.ongoing THEN NextOngoingChange(seen, t) ELSE 0
           until == GachaList(db, q, t).until
<1>1. until = Earliest(reveal, change)
  BY DEF GachaList, OkUntil
<1>2. Visible(rows, q, u) = seen /\ (q.ongoing => Ongoing(seen, u) = Ongoing(seen, t))
        => GachaList(db, q, u).body = GachaList(db, q, t).body
  <2> SUFFICES ASSUME Visible(rows, q, u) = seen,
                      q.ongoing => Ongoing(seen, u) = Ongoing(seen, t)
               PROVE  GachaList(db, q, u).body = GachaList(db, q, t).body
    OBVIOUS
  <2>1. CASE ~q.ongoing
    BY <2>1, ZenonT(40) DEF GachaList, OkUntil
  <2>2. CASE q.ongoing
    BY <2>2, ZenonT(40) DEF GachaList, OkUntil
  <2> QED
    BY <2>1, <2>2
<1>3. GachaList(db, q, u).status = GachaList(db, q, t).status
  BY DEF GachaList, OkUntil
<1>4. /\ Reports(reveal, t)
      /\ t <= u /\ Foreseen(reveal, u) => Visible(rows, q, u) = seen
  <2>1. PICK m : m = reveal
    OBVIOUS
  <2> HIDE DEF rows
  <2>2. Reports(m, t) /\ (t <= u /\ Foreseen(m, u) => Visible(rows, q, u) = Visible(rows, q, t))
    BY <2>1, VisibleUntilReveal
  <2> QED
    BY <2>1, <2>2
<1>5. /\ Reports(change, t)
      /\ t <= u /\ Foreseen(change, u) => (q.ongoing => Ongoing(seen, u) = Ongoing(seen, t))
  <2>1. PICK shown : shown = seen
    OBVIOUS
  <2> HIDE DEF seen
  <2> QED
    BY <2>1, OngoingForeseen DEF Reports
<1> HIDE DEF rows, seen, reveal, change
<1>6. PICK m : m = until
  OBVIOUS
<1>7. Reports(m, t) /\ (Foreseen(m, u) => Foreseen(reveal, u) /\ Foreseen(change, u))
  BY <1>1, <1>4, <1>5, <1>6, EarliestIsBoth
<1> HIDE DEF until
<1> QED
  BY <1>2, <1>3, <1>4, <1>5, <1>6, <1>7 DEF Keeps, until

\* The moment reported for stamps is before any of the hidden ones appears.
LEMMA StampsForeseen ==
  ASSUME NEW rows, NEW t \in Nat, NEW u \in Nat,
         NEW until, until = Soonest({r.archivePublishedAt : r \in HiddenStamps(rows, t)})
  PROVE  /\ Reports(until, t)
         /\ t <= u /\ Foreseen(until, u) => HiddenStamps(rows, u) = HiddenStamps(rows, t)
<1> DEFINE S == {r.archivePublishedAt : r \in HiddenStamps(rows, t)}
<1>1. S \subseteq Int /\ \A x \in S : t < x
  BY QueryAssumption DEF HiddenStamps, IsTime, Get, Field
<1>2. ASSUME t <= u, Foreseen(until, u)
      PROVE  HiddenStamps(rows, u) = HiddenStamps(rows, t)
  <2>1. \A x \in S : u < x
    <3> HIDE DEF S
    <3> QED
      BY <1>1, <1>2, SoonestIsFirst DEF S
  <2>2. \A r \in HiddenStamps(rows, t) : u < r.archivePublishedAt
    BY <2>1
  <2> HIDE DEF S
  <2>3. \A r : IsTime(Get(r, "archivePublishedAt")) => r.archivePublishedAt \in Int
    BY QueryAssumption DEF IsTime, Get, Field
  <2> QED
    BY <1>2, <2>2, <2>3 DEF HiddenStamps
<1> QED
  <2> HIDE DEF S
  <2> QED
    BY <1>1, <1>2, SoonestIsFirst DEF S

\* The list of stamps changes only when a hidden stamp appears.
LEMMA StampsListKeeps ==
  ASSUME NEW db, NEW q, NEW t \in Nat, NEW u \in Nat
  PROVE  Keeps(StampsList(db, q, t), StampsList(db, q, u), t, u)
<1> DEFINE rows == FirstRows(db, "stamps", StampFields)
           whole == q.spoiler \/ q.size > MaxPageSize
           first == Soonest({r.archivePublishedAt : r \in HiddenStamps(rows, t)})
           until == StampsList(db, q, t).until
<1>1. until = IF whole THEN 0 ELSE first
  BY DEF StampsList, TypedPage, Ok, Fail, FirstStampReveal
<1>2. q.spoiler \/ HiddenStamps(rows, u) = HiddenStamps(rows, t)
        => StampItems(db, q.spoiler, u) = StampItems(db, q.spoiler, t)
  BY Zenon DEF StampItems
<1>3. whole \/ HiddenStamps(rows, u) = HiddenStamps(rows, t)
        => StampsList(db, q, u).body = StampsList(db, q, t).body
  BY <1>2 DEF StampsList, TypedPage, Ok, Fail
<1>4. StampsList(db, q, u).status = StampsList(db, q, t).status
  BY DEF StampsList, TypedPage, Ok, Fail
<1>5. Reports(first, t) /\ (t <= u /\ Foreseen(first, u) => HiddenStamps(rows, u) = HiddenStamps(rows, t))
  <2>1. PICK m : m = first
    OBVIOUS
  <2> HIDE DEF rows
  <2>2. Reports(m, t) /\ (t <= u /\ Foreseen(m, u) => HiddenStamps(rows, u) = HiddenStamps(rows, t))
    BY <2>1, StampsForeseen
  <2> QED
    BY <2>1, <2>2
<1> HIDE DEF rows, whole, first
<1>6. PICK m : m = until
  OBVIOUS
<1>7. Reports(m, t) /\ (~whole => m = first)
  BY <1>1, <1>5, <1>6 DEF Reports
<1> HIDE DEF until
<1> QED
  BY <1>3, <1>4, <1>5, <1>6, <1>7 DEF Keeps, until

\* The current event is the same until the reported moment.
CurrentKeeps(a, b, t, u) ==
  /\ Reports(a.until, t)
  /\ t <= u /\ Foreseen(a.until, u) => b.record = a.record

\* currentEventUntil foresees the event that opens next and the closing of
\* each open one, whichever of them is the current one.
LEMMA CurrentEventKeeps ==
  ASSUME NEW db, NEW t \in Nat, NEW u \in Nat
  PROVE  CurrentKeeps(CurrentEventUntil(db, t), CurrentEventUntil(db, u), t, u)
<1> DEFINE events  == {e \in Range(ListAll(db, "events")) : HasEventWindow(e)}
           ahead   == {e \in events : t < e.startAt}
           open(w) == {e \in events : InWindow(e, w)}
           moments == {e.startAt : e \in ahead} \cup {e.closedAt + 1 : e \in open(t)}
           until   == CurrentEventUntil(db, t).until
<1>1. \A e \in events : e.startAt \in Int /\ e.closedAt \in Int
  BY QueryAssumption DEF HasEventWindow, IsTime, Get, Field
<1>2. until = Soonest(moments)
  BY DEF CurrentEventUntil
<1>3. open(u) = open(t) => CurrentEventUntil(db, u).record = CurrentEventUntil(db, t).record
  BY Zenon DEF CurrentEventUntil
<1> HIDE DEF events
<1>4. moments \subseteq Int /\ \A x \in moments : t < x
  <2>1. \A e \in ahead : e.startAt \in Int /\ t < e.startAt
    BY <1>1
  <2>2. \A e \in open(t) : e.closedAt + 1 \in Int /\ t < e.closedAt + 1
    BY <1>1 DEF InWindow
  <2> HIDE DEF ahead, open
  <2> QED
    BY <2>1, <2>2
<1>5. ASSUME t <= u, Foreseen(until, u)
      PROVE  open(u) = open(t)
  <2>1. \A x \in moments : u < x
    <3> HIDE DEF moments, until
    <3> QED
      BY <1>2, <1>4, <1>5, SoonestIsFirst
  <2>2. \A e \in ahead : u < e.startAt
    <3> HIDE DEF ahead
    <3> QED
      BY <2>1
  <2>3. \A e \in open(t) : u < e.closedAt + 1
    <3> HIDE DEF open
    <3> QED
      BY <2>1
  <2> QED
    BY <1>1, <1>5, <2>2, <2>3 DEF InWindow
<1>6. PICK m : m = until
  OBVIOUS
<1> HIDE DEF open, moments
<1>7. Reports(m, t)
  BY <1>2, <1>4, <1>6, SoonestIsFirst
<1> HIDE DEF until
<1> QED
  BY <1>3, <1>5, <1>6, <1>7 DEF CurrentKeeps, until

\* As Keeps, for the part of an answer that comes from the region's own data:
\* the detail of an event also borrows from the other regions and from the
\* ranges of its rewards.
KeepsOwn(q, a, b, t, u) ==
  /\ Reports(a.until, t)
  /\ t <= u /\ Foreseen(a.until, u)
       => b.status = a.status /\ OwnPart(q, b.body) = OwnPart(q, a.body)

\* The detail of an event shows whether it is the current one, and reports
\* when that may change.
LEMMA EventDetailKeeps ==
  ASSUME NEW q, q.route = "events/detail", NEW w, NEW v, NEW e, NEW t \in Nat, NEW u \in Nat, NEW p, NEW s,
         v[q.region].db = w[q.region].db
  PROVE  KeepsOwn(q, EventAggregate(w, q.region, e, t, p), EventAggregate(v, q.region, e, u, s), t, u)
<1> DEFINE a == EventAggregate(w, q.region, e, t, p)
           b == EventAggregate(v, q.region, e, u, s)
           db == w[q.region].db
<1>1. a.until = CurrentEventUntil(db, t).until
  BY DEF EventAggregate, OkUntil
<1>2. a.status = 200 /\ b.status = 200
  BY DEF EventAggregate, OkUntil
<1>3. CurrentEventUntil(db, u).record = CurrentEventUntil(db, t).record
        => IsCurrentEvent(db, e.id, u) = IsCurrentEvent(db, e.id, t)
  BY DEF IsCurrentEvent
<1>4. IsCurrentEvent(db, e.id, u) = IsCurrentEvent(db, e.id, t)
        => Without(b.body, Borrowed) = Without(a.body, Borrowed)
  BY DEF EventAggregate, OkUntil, Without, Borrowed
<1>5. CurrentKeeps(CurrentEventUntil(db, t), CurrentEventUntil(db, u), t, u)
  BY CurrentEventKeeps
<1> QED
  <2> HIDE DEF a, b, db
  <2> QED
    BY <1>1, <1>2, <1>3, <1>4, <1>5 DEF KeepsOwn, CurrentKeeps, OwnPart, a, b

\* The cached routes, by the handler that serves them.
LEMMA CachedFamily ==
  ASSUME NEW q, IsCached(q), q.family \in DOMAIN Routes, q.route \in Routes[q.family]
  PROVE  \/ q.family = "events" /\ q.route \in {"events/list", "events/detail"}
         \/ q.family = "gachas" /\ q.route = "gachas/list"
         \/ q.family = "lookups" /\ q.route = "lookups/list"
         \/ q.family = "honors" /\ q.route = "honors/groups"
         \/ q.family = "virtuallives" /\ q.route = "virtuallives/list"
         \/ q.family = "costumes" /\ q.route = "costumes/list"
         \/ q.family = "stamps" /\ q.route = "stamps/list"
         \/ q.family = "mysekai" /\ q.route \in {"fixtures/list", "fixtures/filters", "fixtures/id",
              "materials/list", "materials/id", "musicrecords/list", "musicrecords/filters", "shops/list"}
BY DEF IsCached, CachedRoutes, CachedLists, Routes

\* An answer that does not depend on the time reports no moment.
LEMMA TimelessKeeps ==
  ASSUME NEW q, NEW a, NEW t, NEW u, a.until = 0
  PROVE  KeepsOwn(q, a, a, t, u)
BY DEF KeepsOwn, Reports

\* The rule of the cached routes (public_routes.go: "A route may be added only
\* if its response depends on nothing but its path, query, the region's stored
\* data, the build, and time reported through cachehint.ValidUntil"): whatever
\* the other regions store in between, a cached route answers the same until
\* the moment it reported, as long as the region stores the same data.
LEMMA AnswersKeep ==
  ASSUME NEW q, IsCached(q), q.family \in DOMAIN Routes, q.route \in Routes[q.family],
         NEW w, NEW v, v[q.region].db = w[q.region].db, NEW t \in Nat, NEW u \in Nat
  PROVE  KeepsOwn(q, FamilyAnswer(w, q, t), FamilyAnswer(v, q, u), t, u)
<1> DEFINE db == w[q.region].db
<1>1. CASE q.family = "gachas" /\ q.route = "gachas/list"
  <2>1. FamilyAnswer(w, q, t) = GachaList(db, q, t) /\ FamilyAnswer(v, q, u) = GachaList(db, q, u)
    BY <1>1 DEF FamilyAnswer, GachaAnswer
  <2> QED
    BY <1>1, <2>1, GachaListKeeps DEF Keeps, KeepsOwn, OwnPart
<1>2. CASE q.family = "lookups" /\ q.route = "lookups/list"
  <2>1. FamilyAnswer(w, q, t) = LookupList(db, q, t) /\ FamilyAnswer(v, q, u) = LookupList(db, q, u)
    BY <1>2 DEF FamilyAnswer, LookupAnswer
  <2> QED
    BY <1>2, <2>1, LookupListKeeps DEF Keeps, KeepsOwn, OwnPart
<1>3. CASE q.family = "virtuallives" /\ q.route = "virtuallives/list"
  <2>1. FamilyAnswer(w, q, t) = VirtualLiveList(db, q, t) /\ FamilyAnswer(v, q, u) = VirtualLiveList(db, q, u)
    BY <1>3 DEF FamilyAnswer, VirtualLiveAnswer
  <2> QED
    BY <1>3, <2>1, VirtualLiveListKeeps DEF Keeps, KeepsOwn, OwnPart
<1>4. CASE q.family = "stamps"
  <2>1. FamilyAnswer(w, q, t) = StampsList(db, q, t) /\ FamilyAnswer(v, q, u) = StampsList(db, q, u)
    BY <1>4 DEF FamilyAnswer, StampAnswer
  <2>2. q.route # "events/detail"
    BY <1>4 DEF Routes
  <2> QED
    BY <2>1, <2>2, StampsListKeeps DEF Keeps, KeepsOwn, OwnPart
<1>5. CASE q.family = "costumes" /\ q.route = "costumes/list"
  <2>1. FamilyAnswer(w, q, t) = Costume3DsList(db, q) /\ FamilyAnswer(v, q, u) = Costume3DsList(db, q)
    BY <1>5 DEF FamilyAnswer, CostumeAnswer
  <2>2. Costume3DsList(db, q).until = 0
    BY DEF Costume3DsList, TypedPage, Ok, Fail
  <2> QED
    BY <2>1, <2>2, TimelessKeeps
<1>6. CASE q.family = "honors" /\ q.route = "honors/groups"
  <2>1. FamilyAnswer(w, q, t) = HonorGroupsList(db, q) /\ FamilyAnswer(v, q, u) = HonorGroupsList(db, q)
    BY <1>6 DEF FamilyAnswer, HonorAnswer
  <2>2. HonorGroupsList(db, q).until = 0
    BY DEF HonorGroupsList, Ok, Fail
  <2> QED
    BY <2>1, <2>2, TimelessKeeps
<1>7. CASE q.family = "events" /\ q.route = "events/list"
  <2>1. FamilyAnswer(w, q, t) = EventList(db, q, t) /\ FamilyAnswer(v, q, u) = EventList(db, q, u)
    BY <1>7 DEF FamilyAnswer, EventAnswer
  <2> QED
    BY <1>7, <2>1, EventListKeeps DEF Keeps, KeepsOwn, OwnPart
<1>8. CASE q.family = "events" /\ q.route = "events/detail"
  <2> DEFINE e == GetByID(db, "events", q.id)
  <2>1. FamilyAnswer(w, q, t) = EventAnswer(w, q, t) /\ FamilyAnswer(v, q, u) = EventAnswer(v, q, u)
    BY <1>8 DEF FamilyAnswer
  <2>2. CASE e = None
    <3>1. EventAnswer(w, q, t) = Fail(404) /\ EventAnswer(v, q, u) = Fail(404)
      BY <1>8, <2>2 DEF EventAnswer
    <3> QED
      BY <2>1, <3>1, TimelessKeeps DEF Fail
  <2>3. CASE e # None
    <3>1. /\ EventAnswer(w, q, t) = EventByID(w, q, e, t)
          /\ EventAnswer(v, q, u) = EventByID(v, q, e, u)
      BY <1>8, <2>3 DEF EventAnswer
    <3>2. /\ EventByID(w, q, e, t)
               = EventAggregate(w, q.region, e, t, RewardPreview(w, q.region, e))
          /\ EventByID(v, q, e, u)
               = EventAggregate(v, q.region, e, u, RewardPreview(v, q.region, e))
      BY <1>8 DEF EventByID
    <3> HIDE DEF e
    <3> QED
      BY <1>8, <2>1, <3>1, <3>2, EventDetailKeeps
  <2> QED
    BY <2>2, <2>3
<1>9. CASE q.family = "mysekai"
  <2> DEFINE M(x, m) == MysekaiAnswer(x, q, m)
  <2>1. FamilyAnswer(w, q, t) = M(w, t) /\ FamilyAnswer(v, q, u) = M(v, u) /\ q.route # "events/detail"
    BY <1>9 DEF FamilyAnswer, Routes
  <2>2. CASE q.route = "musicrecords/list"
    <3>1. M(w, t) = MusicRecordsList(db, q, t) /\ M(v, u) = MusicRecordsList(db, q, u)
      BY <2>2 DEF MysekaiAnswer
    <3> QED
      BY <2>1, <3>1, MusicRecordsListKeeps DEF Keeps, KeepsOwn, OwnPart
  <2>3. CASE q.route # "musicrecords/list"
    <3>1. q.route \in {"fixtures/list", "fixtures/filters", "fixtures/id", "materials/list", "materials/id",
                       "musicrecords/filters", "shops/list"}
      BY <1>9, <2>3 DEF Routes
    <3>2. MusicRecordFilters(db, t) = MusicRecordFilters(db, u)
      BY DEF MusicRecordFilters, MysekaiMusicRecords
    <3>3. M(w, t) = M(v, u)
      <4>1. CASE q.route = "musicrecords/filters"
        BY <3>2, <4>1 DEF MysekaiAnswer
      <4>2. CASE q.route \in {"fixtures/list", "fixtures/filters", "materials/list", "shops/list"}
        BY <4>2 DEF MysekaiAnswer
      <4>3. CASE q.route \in {"fixtures/id", "materials/id"}
        BY <4>3 DEF MysekaiAnswer, Found
      <4> QED
        BY <3>1, <4>1, <4>2, <4>3
    <3>4. M(w, t).until = 0
      BY <3>1 DEF MysekaiAnswer, FixturesList, MaterialsList, ShopsList,
           TypedPage, Found, Ok, Fail
    <3> HIDE DEF M
    <3> QED
      BY <2>1, <3>3, <3>4, TimelessKeeps
  <2> QED
    BY <2>2, <2>3
<1> QED
  BY <1>1, <1>2, <1>3, <1>4, <1>5, <1>6, <1>7, <1>8, <1>9, CachedFamily

-----------------------------------------------------------------------------
(* The cache                                                                *)

\* The times, the regions' states and their revisions.
Typed ==
  /\ now \in Nat /\ 1 <= now /\ now <= MaxNow
  /\ status \in [Region -> {"running", "success", "failed"}]
  /\ stored \in [Region -> Content] /\ rev \in [Region -> 0 .. MaxRev]

\* The entries are no more than the cache holds.
Few == IsFiniteSet(entries) /\ Cardinality(entries) <= MaxEntries

\* An entry for a cached request, of a revision its region has had, that has
\* not expired.
Kept(e) ==
  /\ e.request \in Watched /\ IsCached(e.request)
  /\ e.expires \in Int /\ now < e.expires /\ e.expires <= now + TTL
  /\ e.rev \in Nat /\ e.rev <= rev[e.request.region]

\* What the entry holds was answered at t from the data db, and the entry
\* expires before that answer changes.
AnsweredAt(e, db, w, t) ==
  LET a == FamilyAnswer(w, e.request, t)
  IN  /\ w[e.request.region].db = db
      /\ a.status = 200 /\ e.body = a.body
      /\ a.until = 0 \/ e.expires <= a.until

\* An entry that a hit would serve was answered, at some moment, from what the
\* region stores now, and its region is ready.
Answered(e) ==
  LET r == e.request.region
  IN  e.rev = rev[r] /\ status[r] = "success" =>
        /\ RegionReadyForEntity(World, r, e.request.entity)
        /\ \E w : \E t \in 1 .. now : AnsweredAt(e, Db[stored[r]], w, t)

\* The inductive invariant: every entry remembers an answer from the region's
\* present data, so AnswersKeep carries it from that moment to this one.
CacheInv == Typed /\ Few /\ \A e \in entries : Kept(e) /\ Answered(e)

\* The requests of the runs are requests of the program.
LEMMA WatchedRequests ==
  ASSUME NEW q \in Watched
  PROVE  q.region \in Region /\ q.family \in DOMAIN Routes /\ q.route \in Routes[q.family]
BY PublicReadAssumption, RequestAssumption

\* What a request sees of a region.
LEMMA WorldOfRegion ==
  ASSUME NEW r \in Region
  PROVE  World[r].db = Db[stored[r]] /\ World[r].status = status[r] /\ World[r].version = Version[stored[r]]
BY DEF World

\* The cache starts empty.
LEMMA InitInv == Init => CacheInv
<1> SUFFICES ASSUME Init PROVE CacheInv
  OBVIOUS
<1>1. Typed
  BY PublicReadAssumption DEF Init, Typed
<1>2. Few
  BY PublicReadAssumption, FS_EmptySet DEF Init, Few
<1> QED
  BY <1>1, <1>2 DEF Init, CacheInv

\* An entry of a region whose data, revision and status stay is still good,
\* whatever the other regions do.
LEMMA StaysAnswered ==
  ASSUME CacheInv, NEW e \in entries, now' \in Nat, now <= now',
         rev'[e.request.region] = rev[e.request.region],
         stored'[e.request.region] = stored[e.request.region],
         status'[e.request.region] = status[e.request.region]
  PROVE  Answered(e)'
<1> DEFINE r == e.request.region
<1>1. r \in Region
  BY WatchedRequests DEF CacheInv, Kept
<1>2. RegionReadyForEntity(World, r, e.request.entity)' <=> RegionReadyForEntity(World, r, e.request.entity)
  <2>1. (World[r].db = Db[stored[r]] /\ World[r].status = status[r])'
    BY <1>1 DEF World
  <2>2. World'[r].db = World[r].db /\ World'[r].status = World[r].status
    BY <1>1, <2>1, WorldOfRegion
  <2> QED
    BY <2>2 DEF RegionReadyForEntity, HasSuccessfulSync, HasEntityRecords, HasRegionData, ListAll
<1>3. Answered(e) /\ now \in Nat
  BY DEF CacheInv, Typed
<1>4. 1 .. now \subseteq 1 .. now'
  BY <1>3
<1> QED
  BY <1>2, <1>3, <1>4 DEF Answered

\* Time passes: the entries that expire are dropped (Get drops them).
LEMMA TickInv == CacheInv /\ Tick => CacheInv'
<1> SUFFICES ASSUME CacheInv, Tick PROVE CacheInv'
  OBVIOUS
<1>1. entries' \subseteq entries /\ \A e \in entries' : now' < e.expires
  BY DEF Tick
<1>2. Typed'
  BY PublicReadAssumption DEF CacheInv, Typed, Tick
<1>3. Few'
  <2>1. IsFiniteSet(entries') /\ Cardinality(entries') <= Cardinality(entries)
    BY <1>1, FS_Subset DEF CacheInv, Few
  <2> QED
    BY <2>1, <1>1, FS_CardinalityType, PublicReadAssumption DEF CacheInv, Few
<1>4. ASSUME NEW e \in entries'
      PROVE  Kept(e)' /\ Answered(e)'
  <2>1. e \in entries /\ now \in Nat /\ now' = now + 1
    BY <1>1 DEF CacheInv, Typed, Tick
  <2>2. Kept(e)'
    BY <1>1, <2>1, PublicReadAssumption DEF CacheInv, Kept, Tick, IsCached
  <2> QED
    BY <2>1, <2>2, StaysAnswered DEF Tick
<1> QED
  BY <1>2, <1>3, <1>4 DEF CacheInv

\* A sync ends the service of what was cached: while it runs the region has no
\* revision, and when it succeeds it has another.
LEMMA SyncInv ==
  ASSUME CacheInv, NEW r \in Region, BeginSync(r) \/ EndSync(r) \/ \E c \in Content : Store(r, c)
  PROVE  CacheInv'
<1>1. /\ entries' = entries /\ now' = now
      /\ \A x \in Region \ {r} : status'[x] = status[x] /\ stored'[x] = stored[x] /\ rev'[x] = rev[x]
  BY DEF BeginSync, EndSync, Store, CacheInv, Typed
<1>2. Typed'
  BY PublicReadAssumption DEF CacheInv, Typed, BeginSync, EndSync, Store
<1>3. \/ rev'[r] = rev[r] /\ status'[r] # "success"
      \/ rev'[r] = rev[r] + 1
  BY DEF BeginSync, EndSync, Store, CacheInv, Typed
<1>4. rev[r] \in Nat
  BY PublicReadAssumption DEF CacheInv, Typed
<1>5. ASSUME NEW e \in entries
      PROVE  Kept(e)' /\ Answered(e)'
  <2>1. Kept(e) /\ e.request.region \in Region
    BY WatchedRequests DEF CacheInv, Kept
  <2>2. Kept(e)'
    BY <1>1, <1>3, <1>4, <2>1 DEF Kept, IsCached
  <2>3. CASE e.request.region # r
    <3>1. now' \in Nat /\ now <= now'
      BY <1>1 DEF CacheInv, Typed
    <3> QED
      BY <1>1, <2>1, <2>2, <2>3, <3>1, StaysAnswered
  <2>4. CASE e.request.region = r
    <3>1. ~(e.rev = rev'[r] /\ status'[r] = "success")
      BY <1>3, <1>4, <2>1, <2>4 DEF Kept
    <3> QED
      BY <2>2, <2>4, <3>1 DEF Answered
  <2> QED
    BY <2>2, <2>3, <2>4
<1> QED
  BY <1>1, <1>2, <1>5 DEF CacheInv, Few

\* A miss keeps the answer for no longer than its handler reported, and an
\* entry makes room when the cache is full.
LEMMA FillInv == ASSUME CacheInv, NEW q \in Watched, Fill(q) PROVE CacheInv'
<1>1. PICK others \in SUBSET entries :
        LET a == Answer(q)
            kept == [request |-> q, rev |-> rev[q.region], body |-> a.body,
                     expires |-> now + Lifetime(a)]
        IN  /\ a.status = 200 /\ kept.expires > now
            /\ Cardinality(others) < MaxEntries
            /\ entries' = others \cup {kept}
  BY DEF Fill
<1> DEFINE a == Answer(q)
           kept == [request |-> q, rev |-> rev[q.region], body |-> a.body,
                    expires |-> now + Lifetime(a)]
<1>2. IsCached(q) /\ HasRevision(q.region) /\ UNCHANGED <<now, status, stored, rev>>
  BY DEF Fill
<1>3. q.region \in Region /\ q.family \in DOMAIN Routes /\ q.route \in Routes[q.family]
  BY WatchedRequests
<1>4. a = FamilyAnswer(World, q, now) /\ RegionReadyForEntity(World, q.region, q.entity)
  <2>1. a.status = 200
    BY <1>1
  <2> QED
    BY <2>1 DEF Answer, RegionNotReady, Fail
<1>5. now \in Nat /\ 1 <= now /\ rev[q.region] \in Nat
  BY <1>3, PublicReadAssumption DEF CacheInv, Typed
<1>6. Reports(a.until, now)
  BY <1>2, <1>3, <1>4, <1>5, AnswersKeep DEF KeepsOwn
<1>7. /\ Lifetime(a) \in Int /\ Lifetime(a) <= TTL
      /\ a.until = 0 \/ now + Lifetime(a) <= a.until
  <2> HIDE DEF a
  <2> QED
    BY <1>5, <1>6, PublicReadAssumption DEF Reports, Lifetime
<1>8. PICK k : k = kept
  OBVIOUS
<1>9. Kept(k)' /\ Answered(k)'
  <2>1. /\ k.request = q /\ k.rev = rev[q.region] /\ k.body = a.body
        /\ k.expires = now + Lifetime(a) /\ k.expires > now
    BY <1>1, <1>8
  <2> HIDE DEF a, kept
  <2>2. now' = now /\ rev' = rev /\ status' = status /\ stored' = stored /\ World' = World
    BY <1>2 DEF World
  <2>3. Kept(k)'
    BY <1>2, <1>5, <1>7, <2>1, <2>2, PublicReadAssumption DEF Kept, IsCached
  <2>4. World[q.region].db = Db[stored[q.region]]
    BY <1>3, WorldOfRegion
  <2>5. now \in 1 .. now /\ a.status = 200
    BY <1>1, <1>5 DEF a
  <2>6. AnsweredAt(k, Db[stored[q.region]], World, now)
    BY <1>4, <1>7, <2>1, <2>4, <2>5 DEF AnsweredAt
  <2>7. Answered(k)
    BY <1>4, <2>1, <2>5, <2>6 DEF Answered
  <2>8. Answered(k)'
    BY <2>2, <2>7 DEF Answered
  <2> QED
    BY <2>3, <2>8
<1>10. ASSUME NEW e \in others
       PROVE  Kept(e)' /\ Answered(e)'
  <2>1. Kept(e)'
    BY <1>2 DEF CacheInv, Kept, IsCached
  <2> QED
    BY <1>2, <1>5, <2>1, StaysAnswered
<1>11. Few'
  <2>1. IsFiniteSet(others) /\ Cardinality(others) < MaxEntries
    BY <1>1, FS_Subset DEF CacheInv, Few
  <2>2. entries' = others \cup {k}
    BY <1>1, <1>8
  <2>3. IsFiniteSet(others \cup {k})
        /\ Cardinality(others \cup {k}) <= Cardinality(others) + 1
    BY <2>1, FS_AddElement, FS_CardinalityType
  <2> QED
    BY <2>1, <2>2, <2>3, FS_CardinalityType, PublicReadAssumption DEF Few
<1>12. Typed'
  BY <1>2 DEF CacheInv, Typed
<1> QED
  <2>1. entries' = others \cup {k}
    BY <1>1, <1>8
  <2> QED
    BY <1>9, <1>10, <1>11, <1>12, <2>1 DEF CacheInv

\* Every step keeps the invariant.
LEMMA StepInv == CacheInv /\ [Next]_vars => CacheInv'
<1> SUFFICES ASSUME CacheInv, [Next]_vars PROVE CacheInv'
  OBVIOUS
<1>1. CASE Tick
  BY <1>1, TickInv
<1>2. ASSUME NEW r \in Region, BeginSync(r) \/ EndSync(r) \/ \E c \in Content : Store(r, c)
      PROVE  CacheInv'
  BY <1>2, SyncInv
<1>3. ASSUME NEW q \in Watched, Fill(q)
      PROVE  CacheInv'
  BY <1>3, FillInv
<1>4. CASE UNCHANGED vars
  BY <1>4 DEF CacheInv, Typed, Few, Kept, IsCached, Answered, World, vars, RegionReadyForEntity, HasSuccessfulSync
<1> QED
  BY <1>1, <1>2, <1>3, <1>4 DEF Next

\* Every entry that would be served holds an answer from the stored data.
THEOREM CacheInvariant == Spec => []CacheInv
BY InitInv, StepInv, PTL DEF Spec

\* A hit serves what the handler would answer at this moment, but for the part
\* the detail of an event borrows from other regions.
THEOREM CachedAnswersStayCurrent == Spec => []CachedAnswersAreCurrent
<1>1. CacheInv => CachedAnswersAreCurrent
  <2> SUFFICES ASSUME CacheInv, NEW e \in entries, e \in Hits(e.request)
               PROVE  OwnPart(e.request, e.body) = OwnPart(e.request, Answer(e.request).body)
    BY DEF CachedAnswersAreCurrent
  <2> DEFINE q == e.request
  <2>1. Kept(e) /\ Answered(e) /\ now \in Nat
    BY DEF CacheInv, Typed
  <2>2. e.rev = rev[q.region] /\ status[q.region] = "success"
    BY DEF Hits, HasRevision
  <2>3. /\ RegionReadyForEntity(World, q.region, q.entity)
        /\ \E w : \E t \in 1 .. now : AnsweredAt(e, Db[stored[q.region]], w, t)
    BY <2>1, <2>2 DEF Answered
  <2>4. PICK w : \E t \in 1 .. now : AnsweredAt(e, Db[stored[q.region]], w, t)
    BY <2>3
  <2>5. PICK t \in 1 .. now : AnsweredAt(e, Db[stored[q.region]], w, t)
    BY <2>4
  <2>6. q.region \in Region /\ q.family \in DOMAIN Routes /\ q.route \in Routes[q.family] /\ IsCached(q)
    BY <2>1, WatchedRequests DEF Kept
  <2>7. World[q.region].db = w[q.region].db
    BY <2>5, <2>6, WorldOfRegion DEF AnsweredAt
  <2>8. t \in Nat /\ t <= now
    BY <2>1
  <2>9. KeepsOwn(q, FamilyAnswer(w, q, t), FamilyAnswer(World, q, now), t, now)
    <3> HIDE DEF q
    <3> QED
      BY <2>1, <2>6, <2>7, <2>8, AnswersKeep
  <2>10. Answer(q) = FamilyAnswer(World, q, now)
    BY <2>3 DEF Answer, RegionNotReady
  <2>11. /\ e.body = FamilyAnswer(w, q, t).body
         /\ FamilyAnswer(w, q, t).until = 0 \/ e.expires <= FamilyAnswer(w, q, t).until
    BY <2>5 DEF AnsweredAt
  <2>12. e.expires \in Int /\ now < e.expires
    BY <2>1 DEF Kept
  <2> HIDE DEF q
  <2>13. Foreseen(FamilyAnswer(w, q, t).until, now)
    BY <2>1, <2>8, <2>9, <2>11, <2>12 DEF Foreseen, KeepsOwn, Reports
  <2> QED
    BY <2>8, <2>10, <2>11, <2>13, <2>9 DEF KeepsOwn, q
<1> QED
  BY <1>1, CacheInvariant, PTL

\* The read API's state is always well formed, and the cache is never over its
\* limit.
THEOREM ReadTypes == Spec => []TypeOK
<1>1. CacheInv => TypeOK
  BY DEF CacheInv, Typed, Few, Kept, TypeOK, Moment
<1> QED
  BY <1>1, CacheInvariant, PTL

-----------------------------------------------------------------------------
(* Readiness and availability                                               *)

\* When /ready answers 200, no request of a region it does not list as pending
\* is refused for readiness, and the region's version is published.
THEOREM ReadyRegionsAreServed == Spec => []ReadyMeansServed
<1>1. CacheInv => ReadyMeansServed
  <2> SUFFICES ASSUME CacheInv, Ready(World).status = 200,
                      NEW r \in Region \ Ready(World).body.pendingSync
               PROVE  /\ \A q \in Request : ~RegionNotReady([q EXCEPT !.region = r])
                      /\ r \in DOMAIN Versions(World).body
                      /\ VersionByRegion(World, r).status = 200
    BY DEF ReadyMeansServed
  <2>1. DOMAIN World = Region /\ stored[r] \in Content
    BY DEF World, CacheInv, Typed
  <2>2. \A x \in Region : RegionReady(World, x)
    BY <2>1 DEF Ready, Fail
  <2>3. Ready(World).body.pendingSync = {x \in Region : PendingSync(World, x)}
    BY <2>1, <2>2 DEF Ready, Ok
  <2>4. RegionReady(World, r) /\ ~PendingSync(World, r)
    BY <2>2, <2>3
  <2>5. /\ ListAll(World[r].db, "cards") # <<>> /\ World[r].status = "success"
        /\ RegionVersionReady(World, r)
    BY <2>4 DEF RegionReady, PendingSync, HasEntityRecords, HasSuccessfulSync
  <2>6. HasRegionData(World[r].db)
    BY <2>5 DEF ListAll, HasRegionData
  <2>7. ASSUME NEW q \in Request
        PROVE  ~RegionNotReady([q EXCEPT !.region = r])
    <3>1. "region" \in DOMAIN q
      BY RequestAssumption
    <3>2. [q EXCEPT !.region = r].region = r
      BY <3>1
    <3> QED
      BY <2>5, <2>6, <3>2 DEF RegionNotReady, RegionReadyForEntity, HasSuccessfulSync
  <2>8. r \in DOMAIN Versions(World).body
    BY <2>1, <2>5 DEF Versions, Ok
  <2>9. VersionByRegion(World, r).status = 200
    BY <2>5 DEF VersionByRegion, RegionVersionReady, Ok
  <2> QED
    BY <2>7, <2>8, <2>9
<1> QED
  BY <1>1, CacheInvariant, PTL

\* A record is found only in an entity that has records.
LEMMA FoundIsThere ==
  ASSUME NEW db, NEW entity, NEW id, GetByID(db, entity, id) # None
  PROVE  HasEntityRecords(db, entity)
<1>1. PICK rows : rows = ListAll(db, entity)
  OBVIOUS
<1>2. {i \in DOMAIN rows : id # None /\ Get(rows[i], "id") = id} # {}
  BY <1>1, Zenon DEF GetByID
<1>3. DOMAIN rows # {}
  BY <1>2
<1>4. rows # <<>>
  BY <1>3
<1> QED
  BY <1>1, <1>4 DEF HasEntityRecords

\* A request for one record is answered exactly when the record is there.
LEMMA OneAnswered ==
  ASSUME NEW q, q.family \in DOMAIN Routes, q.route \in Routes[q.family],
         q.route \in {"cards/id", "honors/id", "lookups/id"},
         q.route = "cards/id" => q.entity = "cards",
         q.route = "honors/id" => q.entity = "honors",
         NEW w, NEW t
  PROVE  FamilyAnswer(w, q, t).status = 200 <=> GetByID(w[q.region].db, q.entity, q.id) # None
<1>1. CASE q.route = "cards/id"
  <2>1. q.family = "cards"
    BY <1>1 DEF Routes
  <2> QED
    BY <1>1, <2>1 DEF FamilyAnswer, CardAnswer, Ok, Fail
<1>2. CASE q.route = "honors/id"
  <2>1. q.family = "honors"
    BY <1>2 DEF Routes
  <2> QED
    BY <1>2, <2>1 DEF FamilyAnswer, HonorAnswer, Ok, Fail
<1>3. CASE q.route = "lookups/id"
  <2>1. q.family = "lookups"
    BY <1>3 DEF Routes
  <2> QED
    BY <1>3, <2>1 DEF FamilyAnswer, LookupAnswer, LookupByID, Ok, Fail
<1> QED
  BY <1>1, <1>2, <1>3

\* The regions named as having a record (availableRegions) are those whose own
\* request for it is answered, at any moment of a sync.
THEOREM AvailabilityIsExact == Spec => []AvailabilityMatchesReads
<1>1. AvailabilityMatchesReads
  <2> SUFFICES ASSUME NEW q \in OfRoute("cards/id") \cup OfRoute("honors/id") \cup OfRoute("lookups/id"),
                      NEW r \in Region
               PROVE  r \in Availability(q.entity, q.id) <=> Answer([q EXCEPT !.region = r]).status = 200
    BY DEF AvailabilityMatchesReads
  <2>1. q \in Request /\ q.route \in {"cards/id", "honors/id", "lookups/id"}
    BY DEF OfRoute
  <2>2. PICK p : p = [q EXCEPT !.region = r]
    OBVIOUS
  <2>3. /\ p.region = r /\ p.family = q.family /\ p.route = q.route /\ p.entity = q.entity /\ p.id = q.id
    BY <2>1, <2>2, RequestAssumption
  <2>4. FamilyAnswer(World, p, now).status = 200 <=> GetByID(World[r].db, q.entity, q.id) # None
    BY <2>1, <2>3, OneAnswered, RequestAssumption
  <2>5. GetByID(World[r].db, q.entity, q.id) # None => HasEntityRecords(World[r].db, q.entity)
    BY FoundIsThere
  <2>6. r \in Availability(q.entity, q.id)
          <=> World[r].status = "success" /\ GetByID(World[r].db, q.entity, q.id) # None
    BY DEF Availability, AvailableRegionsByID, SuccessfulSyncRegions, HasSuccessfulSync, World
  <2>7. RegionNotReady(p) <=> ~(/\ HasEntityRecords(World[r].db, q.entity) \/ HasRegionData(World[r].db)
                                /\ World[r].status = "success")
    BY <2>3 DEF RegionNotReady, RegionReadyForEntity, HasSuccessfulSync
  <2>8. Answer(p) = IF RegionNotReady(p) THEN Fail(503) ELSE FamilyAnswer(World, p, now)
    BY DEF Answer
  <2> QED
    BY <2>2, <2>4, <2>5, <2>6, <2>7, <2>8 DEF Fail
<1> QED
  BY <1>1, PTL

-----------------------------------------------------------------------------
(* Pages                                                                    *)

\* A quotient, and what it leaves.
LEMMA Division ==
  ASSUME NEW n \in Nat, NEW size \in Nat \ {0}
  PROVE  /\ n \div size \in Nat
         /\ (n \div size) * size <= n
         /\ n < (n \div size) * size + size
OBVIOUS

\* Multiples of the page size are ordered as their factors.
LEMMA Multiples ==
  ASSUME NEW a \in Int, NEW b \in Int, NEW size \in Nat \ {0}
  PROVE  /\ a * size \in Int
         /\ (a + 1) * size = a * size + size
         /\ a <= b => a * size <= b * size
         /\ a < b => a * size + size <= b * size
OBVIOUS

\* A page starts inside the items exactly when it is counted (totalPages).
LEMMA PagesCounted ==
  ASSUME NEW len \in Nat, NEW size \in Nat \ {0}, NEW page \in Nat \ {0}
  PROVE  /\ PagesFor(len, size) \in Nat
         /\ (page - 1) * size \in Nat
         /\ (page - 1) * size < len <=> page <= PagesFor(len, size)
<1> DEFINE n == PagesFor(len, size)
<1>1. n \in Nat /\ n * size <= len + size - 1 /\ len + size - 1 < n * size + size
  <2>1. len + size - 1 \in Nat
    OBVIOUS
  <2> QED
    BY <2>1, Division DEF PagesFor
<1> HIDE DEF n
<1>2. (page - 1) * size \in Nat /\ page * size = (page - 1) * size + size /\ n * size \in Int
  <2>1. page - 1 \in Nat /\ 0 * size = 0 /\ (page - 1) + 1 = page
    OBVIOUS
  <2>2. (page - 1) * size \in Int /\ ((page - 1) + 1) * size = (page - 1) * size + size /\ 0 * size <= (page - 1) * size
    BY <2>1, Multiples
  <2> QED
    BY <1>1, <2>1, <2>2, Multiples
<1>3. CASE page <= n
  <2>1. page * size <= n * size
    BY <1>1, <1>3, Multiples
  <2> QED
    BY <1>1, <1>2, <1>3, <2>1 DEF n
<1>4. CASE n < page
  <2>1. n * size + size <= page * size
    BY <1>1, <1>4, Multiples
  <2> QED
    BY <1>1, <1>2, <1>4, <2>1 DEF n
<1> QED
  BY <1>1, <1>3, <1>4

\* A page holds the items from its first place on, as many as fit.
LEMMA PageHolds ==
  ASSUME NEW S, NEW items \in Seq(S), NEW size \in Nat \ {0}, NEW page \in Nat \ {0}
  PROVE  LET from == (page - 1) * size
             held == Slice(items, page, size)
         IN  /\ held \in Seq(S) /\ Len(held) <= size
             /\ \A k \in 1 .. size : k <= Len(held) <=> from + k <= Len(items)
             /\ \A k \in 1 .. Len(held) : held[k] = items[from + k]
<1>1. PICK from \in Nat : from = (page - 1) * size
  BY PagesCounted
<1>2. PICK len \in Nat : len = Len(items)
  OBVIOUS
<1>3. PICK to \in Nat : to = IF from + size > len THEN len ELSE from + size
  OBVIOUS
<1>4. Slice(items, page, size) = IF from >= len THEN <<>> ELSE SubSeq(items, from + 1, to)
  BY <1>1, <1>2, <1>3 DEF Slice
<1>5. PICK held : held = Slice(items, page, size)
  OBVIOUS
<1>6. CASE from >= len
  <2>1. held = <<>>
    BY <1>4, <1>5, <1>6
  <2>2. held \in Seq(S) /\ Len(held) = 0
    BY <2>1
  <2> QED
    BY <1>1, <1>2, <1>5, <1>6, <2>2
<1>7. CASE from < len
  <2>1. held = SubSeq(items, from + 1, to) /\ from + 1 \in 1 .. Len(items) /\ to \in from + 1 .. Len(items)
    BY <1>2, <1>3, <1>4, <1>5, <1>7
  <2>2. held \in Seq(S) /\ Len(held) = to - from /\ \A k \in 1 .. to - from : held[k] = items[from + k]
    BY <2>1
  <2> QED
    BY <1>1, <1>2, <1>3, <1>5, <1>7, <2>2
<1> QED
  BY <1>6, <1>7

\* Following the pages of a list (paginateSlice, buildPagination) meets each
\* item once, at its own place: no item falls between two pages or is on both,
\* exactly the counted pages hold items, and hasNext says whether the next
\* page holds any.
THEOREM PagesHoldEachItemOnce ==
  ASSUME NEW S, NEW items \in Seq(S), NEW size \in Nat \ {0}
  PROVE  LET At(page, k) == (page - 1) * size + k
             Held(page)  == Slice(items, page, size)
         IN  /\ \A i \in 1 .. Len(items) :
                  \E page \in 1 .. PagesFor(Len(items), size) :
                    \E k \in 1 .. Len(Held(page)) : At(page, k) = i /\ Held(page)[k] = items[i]
             /\ \A p, r \in Nat \ {0} : \A k \in 1 .. Len(Held(p)), l \in 1 .. Len(Held(r)) :
                  At(p, k) = At(r, l) => p = r /\ k = l
             /\ \A page \in Nat \ {0} :
                  /\ Held(page) # <<>> <=> page <= PagesFor(Len(items), size)
                  /\ PaginationOf(page, size, Len(items)).hasNext <=> Held(page + 1) # <<>>
<1>1. PICK len \in Nat : len = Len(items)
  OBVIOUS
<1>2. ASSUME NEW i \in 1 .. len
      PROVE  \E page \in 1 .. PagesFor(len, size) : \E k \in 1 .. Len(Slice(items, page, size)) :
               (page - 1) * size + k = i /\ Slice(items, page, size)[k] = items[i]
  <2>1. PICK d \in Nat : d = (i - 1) \div size
    BY Division
  <2>2. d * size \in Int /\ d * size <= i - 1 /\ i - 1 < d * size + size
    BY <2>1, Division, Multiples
  <2>3. PICK page \in Nat \ {0} : page = d + 1
    OBVIOUS
  <2>4. PICK k \in 1 .. size : k = i - d * size
    BY <2>2
  <2>5. (page - 1) * size = d * size
    BY <2>3
  <2>6. page <= PagesFor(len, size) /\ PagesFor(len, size) \in Nat
    <3>1. PICK from \in Int : from = (page - 1) * size
      BY <2>2, <2>5
    <3>2. from < len
      BY <2>2, <2>5, <3>1
    <3> QED
      BY <3>1, <3>2, PagesCounted
  <2>7. (page - 1) * size + k = i
    BY <2>2, <2>4, <2>5
  <2>8. k <= Len(Slice(items, page, size)) /\ Len(Slice(items, page, size)) \in Nat
    BY <1>1, <2>7, PageHolds
  <2>9. k \in 1 .. Len(Slice(items, page, size)) /\ page \in 1 .. PagesFor(len, size)
    BY <2>6, <2>8
  <2>10. Slice(items, page, size)[k] = items[i]
    BY <2>7, <2>9, PageHolds
  <2> QED
    BY <2>7, <2>9, <2>10
<1>3. ASSUME NEW p \in Nat \ {0}, NEW r \in Nat \ {0}, NEW k \in 1 .. Len(Slice(items, p, size)),
             NEW l \in 1 .. Len(Slice(items, r, size)), (p - 1) * size + k = (r - 1) * size + l
      PROVE  p = r /\ k = l
  <2>1. k \in 1 .. size /\ l \in 1 .. size
    BY PageHolds
  <2>2. (p - 1) * size \in Int /\ (r - 1) * size \in Int
    BY Multiples
  <2>3. ~(p - 1 < r - 1)
    <3>1. p - 1 < r - 1 => (p - 1) * size + size <= (r - 1) * size
      BY Multiples
    <3> QED
      BY <1>3, <2>1, <2>2, <3>1
  <2>4. ~(r - 1 < p - 1)
    <3>1. r - 1 < p - 1 => (r - 1) * size + size <= (p - 1) * size
      BY Multiples
    <3> QED
      BY <1>3, <2>1, <2>2, <3>1
  <2> QED
    BY <1>3, <2>1, <2>2, <2>3, <2>4
<1>4. ASSUME NEW page \in Nat \ {0}
      PROVE  Slice(items, page, size) # <<>> <=> page <= PagesFor(len, size)
  <2>1. (page - 1) * size \in Nat /\ ((page - 1) * size < len <=> page <= PagesFor(len, size))
    BY PagesCounted
  <2>2. 1 <= Len(Slice(items, page, size)) <=> (page - 1) * size + 1 <= len
    BY <1>1, PageHolds
  <2>3. Slice(items, page, size) \in Seq(S)
    BY PageHolds
  <2>4. PICK held \in Seq(S) : held = Slice(items, page, size)
    BY <2>3
  <2>5. held # <<>> <=> 1 <= Len(held)
    OBVIOUS
  <2> QED
    BY <2>1, <2>2, <2>4, <2>5
<1>5. ASSUME NEW page \in Nat \ {0}
      PROVE  PaginationOf(page, size, len).hasNext <=> Slice(items, page + 1, size) # <<>>
  <2>1. Slice(items, page + 1, size) # <<>> <=> page + 1 <= PagesFor(len, size)
    BY <1>4
  <2>2. PaginationOf(page, size, len).hasNext <=> page < PagesFor(len, size)
    BY DEF PaginationOf
  <2>3. PagesFor(len, size) \in Nat
    BY PagesCounted
  <2> QED
    BY <2>1, <2>2, <2>3
<1> QED
  BY <1>1, <1>2, <1>3, <1>4, <1>5

-----------------------------------------------------------------------------
(* Batches                                                                  *)

\* A finite set of positions has a last one.
LEMMA LastPosition ==
  ASSUME NEW P \in SUBSET Nat, IsFiniteSet(P), P # {}
  PROVE  Max(P) \in P /\ \A i \in P : i <= Max(P)
<1> DEFINE N == Cardinality(P)
<1>1. /\ N \in Nat
      /\ \A n \in 1..N : Nth(P, n) \in P
      /\ \A i \in P : \E n \in 1..N : i = Nth(P, n)
      /\ \A n, m \in 1..N : n < m => Nth(P, n) < Nth(P, m)
  BY PositionsNumbered
<1> HIDE DEF N
<1>2. N \in 1..N
  <2>1. PICK n \in 1..N : TRUE
    BY <1>1
  <2> QED
    BY <1>1, <2>1
<1>3. \A i \in P : i <= Nth(P, N)
  <2> SUFFICES ASSUME NEW n \in 1..N PROVE Nth(P, n) <= Nth(P, N)
    BY <1>1
  <2>1. n = N \/ n < N
    BY <1>1
  <2>2. Nth(P, n) \in Nat /\ Nth(P, N) \in Nat
    BY <1>1, <1>2
  <2> QED
    BY <1>1, <1>2, <2>1, <2>2
<1>4. \E m \in P : \A i \in P : m >= i
  BY <1>1, <1>2, <1>3
<1>5. Max(P) \in P /\ \A i \in P : Max(P) >= i
  BY <1>4 DEF Max
<1> QED
  BY <1>5

\* What a region stores of an entity is a list of records, none of them null.
LEMMA RecordsAreListed ==
  ASSUME NEW db, HoldsLists(db), NEW entity
  PROVE  /\ ListAll(db, entity) \in Seq(Range(ListAll(db, entity)))
         /\ None \notin Range(ListAll(db, entity))
<1>1. CASE entity \in DOMAIN db
  BY <1>1 DEF HoldsLists, ListAll
<1>2. CASE entity \notin DOMAIN db
  <2>1. ListAll(db, entity) = <<>>
    BY <1>2 DEF ListAll
  <2> QED
    BY <2>1 DEF Range
<1> QED
  BY <1>1, <1>2

\* GetByID answers with a stored record that has the id, when there is one.
LEMMA FoundHasTheID ==
  ASSUME NEW db, HoldsLists(db), NEW entity, NEW id
  PROVE  /\ GetByID(db, entity, id) # None
              => /\ id # None /\ entity \notin CompositeKeyEntities
                 /\ GetByID(db, entity, id) \in Range(ListAll(db, entity))
                 /\ Get(GetByID(db, entity, id), "id") = id
         /\ entity \notin CompositeKeyEntities
              /\ (\E r \in Range(ListAll(db, entity)) : id # None /\ Get(r, "id") = id)
              => GetByID(db, entity, id) # None
<1>1. PICK rows : rows = ListAll(db, entity)
  OBVIOUS
<1>2. rows \in Seq(Range(rows)) /\ None \notin Range(rows)
  BY <1>1, RecordsAreListed
<1>3. PICK n \in Nat : n = Len(rows)
  BY <1>2
<1> DEFINE under == {i \in DOMAIN rows : /\ id # None /\ entity \notin CompositeKeyEntities
                                         /\ Get(rows[i], "id") = id}
<1>4. DOMAIN rows = 1..n
  BY <1>2, <1>3
<1>5. GetByID(db, entity, id) = IF under = {} THEN None ELSE rows[Max(under)]
  BY <1>1 DEF GetByID
<1>6. under # {} => Max(under) \in under
  <2>1. under \in SUBSET (1..n) /\ under \in SUBSET Nat
    BY <1>4
  <2>2. IsFiniteSet(1..n)
    BY Places
  <2>3. IsFiniteSet(under)
    <3> HIDE DEF under
    <3> QED
      BY <2>1, <2>2, FS_Subset
  <2> HIDE DEF under
  <2> QED
    BY <2>1, <2>3, LastPosition
<1>7. CASE under = {}
  <2>1. GetByID(db, entity, id) = None
    BY <1>5, <1>7
  <2>2. entity \notin CompositeKeyEntities => ~\E r \in Range(rows) : id # None /\ Get(r, "id") = id
    BY <1>7 DEF Range
  <2> QED
    BY <1>1, <2>1, <2>2
<1>8. CASE under # {}
  <2>1. PICK i \in under : i = Max(under)
    BY <1>6, <1>8
  <2>2. GetByID(db, entity, id) = rows[i]
    BY <1>5, <1>8, <2>1
  <2>3. /\ rows[i] \in Range(rows) /\ id # None /\ entity \notin CompositeKeyEntities
        /\ Get(rows[i], "id") = id
    BY <2>1 DEF Range
  <2> QED
    BY <1>1, <1>2, <2>2, <2>3
<1> QED
  BY <1>7, <1>8

\* A batch that answers for the positions P of the ids it was asked.
BatchOf(asked, found, P) ==
  /\ found = Those(asked, Range(found))
  /\ Cardinality(Range(found)) = Len(found)
  /\ Picked(asked, (DOMAIN asked) \ P) = Those(asked, Range(asked) \ Range(found))

\* Picking from distinct ids is asking for those that were picked.
LEMMA PickedAnswers ==
  ASSUME NEW T, NEW asked \in Seq(T), IsInjective(asked), NEW P \in SUBSET DOMAIN asked
  PROVE  BatchOf(asked, Picked(asked, P), P)
<1> DEFINE found == Picked(asked, P)
<1>1. PicksOf(asked, T, P)
  BY PickedHolds
<1>2. Range(found) = {asked[i] : i \in P}
  BY <1>1 DEF PicksOf
<1>3. P = {i \in DOMAIN asked : asked[i] \in Range(found)}
  <2> HIDE DEF found
  <2> QED
    BY <1>2 DEF IsInjective
<1>4. (DOMAIN asked) \ P = {i \in DOMAIN asked : asked[i] \in Range(asked) \ Range(found)}
  <2> HIDE DEF found
  <2>1. \A i \in DOMAIN asked : asked[i] \in Range(asked)
    BY DEF Range
  <2> QED
    BY <1>3, <2>1
<1>5. \A S : Those(asked, S) = Picked(asked, {i \in DOMAIN asked : asked[i] \in S})
  BY DEF Those, Selected
<1>6. Cardinality(Range(found)) = Len(found)
  BY <1>1, PickedOnce DEF PicksOf
<1> QED
  <2>1. found = Those(asked, Range(found))
    BY <1>3, <1>5
  <2>2. Picked(asked, (DOMAIN asked) \ P) = Those(asked, Range(asked) \ Range(found))
    BY <1>4, <1>5
  <2> QED
    BY <1>6, <2>1, <2>2 DEF BatchOf

\* The batch of cards answers with the cards that are stored, each brief under
\* its own id.
LEMMA CardsFound ==
  ASSUME NEW db, HoldsLists(db), NEW ids, ids \in Seq(Range(ids)), CardBatch(db, ids).status = 200
  PROVE  \E P \in SUBSET DOMAIN Distinct(ids) :
           IDsOf(CardBatch(db, ids).body) = Picked(Distinct(ids), P)
<1> DEFINE asked == Distinct(ids)
           records == GetByIDs(db, "cards", asked)
           P == {i \in DOMAIN records : records[i] # None}
           found == Picked(records, P)
           body == MapSeq(found, CardBrief)
<1>1. CardBatch(db, ids).body = body
  <2>1. ~(Cardinality(Range(ids)) > MaxPageSize)
    BY DEF CardBatch, Fail
  <2>2. Selected(records, LAMBDA r : r # None) = found
    BY DEF Selected
  <2> QED
    BY <2>1, <2>2 DEF CardBatch, Ok
<1>2. asked \in Seq(Range(ids)) /\ P \in SUBSET DOMAIN asked /\ DOMAIN records = DOMAIN asked
  BY DistinctHolds DEF GetByIDs
<1>3. \A i \in DOMAIN asked : records[i] = GetByID(db, "cards", asked[i])
  BY DEF GetByIDs
<1>4. PicksOf(asked, Range(ids), P)
  BY <1>2, PickedHolds
<1>5. \A n \in 1..Cardinality(P) : Nth(P, n) \in P
  BY <1>4 DEF PicksOf
<1>6. IDsOf(body) = [n \in 1..Cardinality(P) |-> Field(CardBrief(found[n]), "id")]
  BY DEF IDsOf, MapSeq, Picked
<1>7. ASSUME NEW n \in 1..Cardinality(P)
      PROVE  Field(CardBrief(found[n]), "id") = asked[Nth(P, n)]
  <2>1. PICK i \in P : i = Nth(P, n)
    <3> HIDE DEF P, asked, records, found, body
    <3> QED
      BY <1>5
  <2>2. found[n] = GetByID(db, "cards", asked[i]) /\ found[n] # None
    BY <1>2, <1>3, <2>1 DEF Picked
  <2>3. Get(found[n], "id") = asked[i] /\ asked[i] # None
    BY <2>2, FoundHasTheID
  <2>4. Field(CardBrief(found[n]), "id") = Get(found[n], "id")
    BY <2>2, <2>3 DEF CardBrief, Pick, Field, Get
  <2> QED
    BY <2>1, <2>3, <2>4
<1>8. IDsOf(body) = [n \in 1..Cardinality(P) |-> asked[Nth(P, n)]]
  <2> HIDE DEF P, found, body, asked
  <2> QED
    BY <1>6, <1>7
<1>9. IDsOf(body) = Picked(asked, P)
  BY <1>8, Zenon DEF Picked
<1> QED
  BY <1>1, <1>2, <1>9

\* The builds of a character keep its id.
LEMMA CharactersKeepTheID ==
  ASSUME NEW db, NEW r, NEW id, Get(r, "id") = id, id # None
  PROVE  Field(Character2D(db, r), "id") = id /\ Field(Character3D(r), "id") = id
<1>1. "id" \in DOMAIN r /\ r.id = id /\ r # None
  BY DEF Get, Field
<1>2. Field(Character3D(r), "id") = id
  BY <1>1 DEF Character3D, Pick, Field
<1>3. Field(Pick(r, {"id", "characterId", "characterType", "unit", "assetName"}), "id") = id
  BY <1>1 DEF Pick, Field
<1>4. "id" \notin DOMAIN DisplayName(db, Get(r, "characterType"), r.characterId)
  BY DEF DisplayName, Present
<1>5. Field(Character2D(db, r), "id") = id
  BY <1>3, <1>4 DEF Character2D, Merge, Field
<1> QED
  BY <1>2, <1>5

\* An answer whose items are those asked at some positions, and whose missing
\* ids are the others.
CharactersFound(answer, asked) ==
  \E P \in SUBSET DOMAIN asked :
    /\ IDsOf(answer.items) = Picked(asked, P)
    /\ answer.missingIds = Picked(asked, (DOMAIN asked) \ P)

\* The positions of the ids that are stored and are about a character.
OfCharacters(db, entity, asked) ==
  {i \in DOMAIN asked : /\ GetByID(db, entity, asked[i]) # None
                        /\ Get(GetByID(db, entity, asked[i]), "characterId") # None}

\* Items built from the records stored under the ids at some positions, each
\* keeping its id, have the ids that were asked there.
LEMMA BuiltUnderTheirIDs ==
  ASSUME NEW db, HoldsLists(db), NEW entity, NEW T, NEW asked \in Seq(T), NEW items,
         DOMAIN items = DOMAIN Picked(asked, OfCharacters(db, entity, asked)),
         \A n \in DOMAIN items : \A id :
           Get(GetByID(db, entity, Picked(asked, OfCharacters(db, entity, asked))[n]), "id") = id /\ id # None
             => Field(items[n], "id") = id
  PROVE  IDsOf(items) = Picked(asked, OfCharacters(db, entity, asked))
<1>1. PICK P : P = OfCharacters(db, entity, asked)
  OBVIOUS
<1>2. P \in SUBSET DOMAIN asked
  BY <1>1 DEF OfCharacters
<1>3. PicksOf(asked, T, P)
  BY <1>2, PickedHolds
<1>4. ASSUME NEW n \in DOMAIN items PROVE Field(items[n], "id") = Picked(asked, P)[n]
  <2>1. PICK i \in P : Picked(asked, P)[n] = asked[i]
    BY <1>1, <1>3 DEF PicksOf
  <2>2. GetByID(db, entity, asked[i]) # None
    BY <1>1, <2>1 DEF OfCharacters
  <2>3. Get(GetByID(db, entity, asked[i]), "id") = asked[i] /\ asked[i] # None
    BY <2>2, FoundHasTheID
  <2> QED
    BY <1>1, <2>1, <2>3
<1>5. IDsOf(items) = [n \in DOMAIN Picked(asked, P) |-> Picked(asked, P)[n]]
  BY <1>1, <1>4 DEF IDsOf
<1>6. Picked(asked, P) = [n \in DOMAIN Picked(asked, P) |-> Picked(asked, P)[n]]
  BY <1>3 DEF PicksOf
<1> QED
  BY <1>1, <1>5, <1>6

\* The batches of characters answer so, with the records that are stored and
\* are about a character.
LEMMA CharactersAreFound ==
  ASSUME NEW db, HoldsLists(db), NEW ids, ids \in Seq(Range(ids)), NEW a,
         \/ a = Character2Ds(db, ids)
         \/ a = Character3Ds(db, ids),
         a.status = 200
  PROVE  CharactersFound(a.body, Distinct(ids))
<1>1. PICK asked \in Seq(Range(ids)) : asked = Distinct(ids)
  BY DistinctHolds
<1>2. CASE a = Character2Ds(db, ids)
  <2> DEFINE P == OfCharacters(db, "character2ds", asked)
             items == [n \in DOMAIN Picked(asked, P) |->
                         Character2D(db, GetByID(db, "character2ds", Picked(asked, P)[n]))]
  <2>1. /\ a.body.items = items
        /\ a.body.missingIds = Picked(asked, {i \in DOMAIN asked :
             ~(GetByID(db, "character2ds", asked[i]) # None /\ Get(GetByID(db, "character2ds", asked[i]), "characterId") # None)})
    BY <1>1, <1>2 DEF Character2Ds, CharacterBatch, Selected, MapSeq, Ok, Fail, OfCharacters
  <2>2. {i \in DOMAIN asked :
             ~(GetByID(db, "character2ds", asked[i]) # None /\ Get(GetByID(db, "character2ds", asked[i]), "characterId") # None)}
          = (DOMAIN asked) \ P
    BY DEF OfCharacters
  <2>3. \A n \in DOMAIN items : \A id :
          Get(GetByID(db, "character2ds", Picked(asked, P)[n]), "id") = id /\ id # None
            => Field(items[n], "id") = id
    BY CharactersKeepTheID
  <2>4. IDsOf(items) = Picked(asked, P)
    <3>1. DOMAIN items = DOMAIN Picked(asked, P)
      OBVIOUS
    <3> HIDE DEF items
    <3> QED
      BY <2>3, <3>1, BuiltUnderTheirIDs
  <2>5. P \in SUBSET DOMAIN asked
    BY DEF OfCharacters
  <2> HIDE DEF P, items
  <2>6. a.body.missingIds = Picked(asked, DOMAIN asked \ P)
    BY <2>1, <2>2
  <2>7. IDsOf(a.body.items) = Picked(asked, P)
    BY <2>1, <2>4
  <2>8. CharactersFound(a.body, asked)
    BY <2>5, <2>6, <2>7 DEF CharactersFound
  <2> QED
    BY <1>1, <2>8
<1>3. CASE a = Character3Ds(db, ids)
  <2> DEFINE P == OfCharacters(db, "character3ds", asked)
             items == [n \in DOMAIN Picked(asked, P) |->
                         Character3D(GetByID(db, "character3ds", Picked(asked, P)[n]))]
  <2>1. /\ a.body.items = items
        /\ a.body.missingIds = Picked(asked, {i \in DOMAIN asked :
             ~(GetByID(db, "character3ds", asked[i]) # None /\ Get(GetByID(db, "character3ds", asked[i]), "characterId") # None)})
    BY <1>1, <1>3 DEF Character3Ds, CharacterBatch, Selected, MapSeq, Ok, Fail, OfCharacters
  <2>2. {i \in DOMAIN asked :
             ~(GetByID(db, "character3ds", asked[i]) # None /\ Get(GetByID(db, "character3ds", asked[i]), "characterId") # None)}
          = (DOMAIN asked) \ P
    BY DEF OfCharacters
  <2>3. \A n \in DOMAIN items : \A id :
          Get(GetByID(db, "character3ds", Picked(asked, P)[n]), "id") = id /\ id # None
            => Field(items[n], "id") = id
    BY CharactersKeepTheID
  <2>4. IDsOf(items) = Picked(asked, P)
    <3>1. DOMAIN items = DOMAIN Picked(asked, P)
      OBVIOUS
    <3> HIDE DEF items
    <3> QED
      BY <2>3, <3>1, BuiltUnderTheirIDs
  <2>5. P \in SUBSET DOMAIN asked
    BY DEF OfCharacters
  <2> HIDE DEF P, items
  <2>6. a.body.missingIds = Picked(asked, DOMAIN asked \ P)
    BY <2>1, <2>2
  <2>7. IDsOf(a.body.items) = Picked(asked, P)
    BY <2>1, <2>4
  <2>8. CharactersFound(a.body, asked)
    BY <2>5, <2>6, <2>7 DEF CharactersFound
  <2> QED
    BY <1>1, <2>8
<1> QED
  BY <1>2, <1>3

\* What a world of one content stores.
LEMMA StoredEverywhere ==
  ASSUME NEW c \in Content, NEW q \in Request
  PROVE  /\ WorldOf(c)[q.region].db = Db[c] /\ WorldOf(c)[q.region].status = "success"
         /\ HoldsLists(Db[c])
         /\ q.family \in DOMAIN Routes /\ q.route \in Routes[q.family]
BY PublicReadAssumption, RequestAssumption, ContentAssumption DEF WorldOf

\* A batch that succeeds answers for each of its ids.
LEMMA BatchAnswered ==
  ASSUME NEW c \in Content, NEW t \in Moment, NEW q \in Request, q.route \in BatchRoutes,
         Replied(c, t, q).status = 200
  PROVE  AnswersEach(q, Replied(c, t, q).body)
<1> DEFINE asked == Distinct(q.ids)
<1>1. /\ WorldOf(c)[q.region].db = Db[c] /\ HoldsLists(Db[c])
      /\ q.family \in DOMAIN Routes /\ q.route \in Routes[q.family]
  BY StoredEverywhere
<1>2. q.ids \in Seq(Range(q.ids))
  BY RequestAssumption
<1>3. asked \in Seq(Range(q.ids)) /\ IsInjective(asked)
  BY <1>2, DistinctHolds
<1>4. CASE q.route = "cards/batch"
  <2>1. q.family = "cards"
    BY <1>1, <1>4 DEF Routes
  <2>2. Replied(c, t, q) = CardBatch(Db[c], q.ids)
    BY <1>1, <1>4, <2>1 DEF Replied, FamilyAnswer, CardAnswer
  <2>3. PICK P \in SUBSET DOMAIN Distinct(q.ids) :
          IDsOf(CardBatch(Db[c], q.ids).body) = Picked(Distinct(q.ids), P)
    BY <1>1, <1>2, <2>2, CardsFound
  <2>4. BatchOf(Distinct(q.ids), Picked(Distinct(q.ids), P), P)
    BY <1>3, PickedAnswers
  <2> QED
    BY <1>4, <2>2, <2>3, <2>4 DEF AnswersEach, BatchOf
<1>5. CASE q.route \in {"lookups/character2ds", "lookups/character3ds"}
  <2>1. q.family = "lookups"
    BY <1>1, <1>5 DEF Routes
  <2>2. \/ Replied(c, t, q) = Character2Ds(Db[c], q.ids)
        \/ Replied(c, t, q) = Character3Ds(Db[c], q.ids)
    BY <1>1, <1>5, <2>1 DEF Replied, FamilyAnswer, LookupAnswer
  <2>3. CharactersFound(Replied(c, t, q).body, Distinct(q.ids))
    BY <1>1, <1>2, <2>2, CharactersAreFound
  <2>4. PICK P \in SUBSET DOMAIN Distinct(q.ids) :
          /\ IDsOf(Replied(c, t, q).body.items) = Picked(Distinct(q.ids), P)
          /\ Replied(c, t, q).body.missingIds = Picked(Distinct(q.ids), (DOMAIN Distinct(q.ids)) \ P)
    BY <2>3 DEF CharactersFound
  <2>5. BatchOf(Distinct(q.ids), Picked(Distinct(q.ids), P), P)
    BY <1>3, PickedAnswers
  <2> QED
    BY <1>5, <2>4, <2>5 DEF AnswersEach, BatchOf
<1> QED
  BY <1>4, <1>5 DEF BatchRoutes

\* What is served is a content that is stored, at a time of the clock.
LEMMA ServedIsStored == CacheInv => Served \subseteq Content /\ now \in Moment
<1> SUFFICES ASSUME Typed PROVE Served \subseteq Content /\ now \in Moment
  BY DEF CacheInv
<1>1. now \in Moment
  BY PublicReadAssumption DEF Typed, Moment
<1>2. \A r \in Region : stored[r] \in Content
  BY DEF Typed
<1>3. SuccessfulSyncRegions(World) \subseteq Region
  BY DEF SuccessfulSyncRegions, World
<1> QED
  BY <1>1, <1>2, <1>3 DEF Served

\* A batch answers for each of its ids, whatever is stored and asked.
THEOREM BatchesAreAnswered == Spec => []BatchesAnswerEveryId
<1>1. \A c \in Content : BatchesAnswerEveryIdIn[c]
  BY BatchAnswered DEF BatchesAnswerEveryIdIn, IsAnsweredEach
<1>2. CacheInv => BatchesAnswerEveryId
  BY <1>1, ServedIsStored DEF BatchesAnswerEveryId
<1> QED
  BY <1>2, CacheInvariant, PTL

-----------------------------------------------------------------------------
(* The views of an event                                                    *)

\* An index lists the stored records that have the value.
LEMMA IndexLists ==
  ASSUME NEW db, HoldsLists(db), NEW entity, NEW field, NEW value
  PROVE  /\ ListByIndex(db, entity, field, value) \in Seq(Range(ListAll(db, entity)))
         /\ Range(ListByIndex(db, entity, field, value))
              = {r \in Range(ListAll(db, entity)) : value # None /\ Get(r, field) = value}
         /\ None \notin Range(ListByIndex(db, entity, field, value))
<1>1. PICK s : s = ListAll(db, entity)
  OBVIOUS
<1>2. s \in Seq(Range(s)) /\ None \notin Range(s)
  BY <1>1, RecordsAreListed
<1> DEFINE P == {i \in DOMAIN s : value # None /\ Get(s[i], field) = value}
<1>3. ListByIndex(db, entity, field, value) = Picked(s, P)
  BY <1>1 DEF ListByIndex, Selected
<1>4. PicksOf(s, Range(s), P)
  BY <1>2, PickedHolds
<1>5. Range(Picked(s, P)) = {s[i] : i \in P} /\ Picked(s, P) \in Seq(Range(s))
  BY <1>4 DEF PicksOf
<1>6. {s[i] : i \in P} = {r \in Range(s) : value # None /\ Get(r, field) = value}
  BY DEF Range
<1> HIDE DEF P
<1> QED
  BY <1>1, <1>2, <1>3, <1>5, <1>6

\* The last of a list of records is one of them.
LEMMA LastIsThere ==
  ASSUME NEW T, NEW s \in Seq(T), LastOf(s) # None
  PROVE  LastOf(s) \in Range(s)
<1>1. s # <<>>
  BY DEF LastOf
<1>2. Len(s) \in DOMAIN s
  BY <1>1
<1> QED
  BY <1>1, <1>2 DEF LastOf, Range

\* The list shows the unit of the story and the character of the banner.
LEMMA ListItemShows ==
  ASSUME NEW db, NEW e
  PROVE  /\ Field(EventListItem(db, e), "unit") = EventUnitCode(db, e)
         /\ Field(EventListItem(db, e), "bannerGameCharacterId") = Get(BannerUnit(db, e), "gameCharacterId")
<1> DEFINE unit == EventUnitCode(db, e)
           banner == Get(BannerUnit(db, e), "gameCharacterId")
           own == Pick(e, {"id", "name", "eventType", "startAt", "closedAt"})
           added == Present([unit |-> unit, bannerGameCharacterId |-> banner])
<1>1. EventListItem(db, e) = Merge(own, added)
  BY DEF EventListItem
<1>2. "unit" \notin DOMAIN own /\ "bannerGameCharacterId" \notin DOMAIN own
  BY DEF Pick
<1>3. /\ "unit" \in DOMAIN added <=> unit # None
      /\ "bannerGameCharacterId" \in DOMAIN added <=> banner # None
      /\ unit # None => added["unit"] = unit
      /\ banner # None => added["bannerGameCharacterId"] = banner
  <2> HIDE DEF unit, banner
  <2> QED
    BY DEF Present
<1> HIDE DEF unit, banner, own, added
<1>4. /\ Field(EventListItem(db, e), "unit") = unit
      /\ Field(EventListItem(db, e), "bannerGameCharacterId") = banner
  BY <1>1, <1>2, <1>3 DEF Merge, Field
<1> QED
  BY <1>4 DEF unit, banner

\* The detail names the unit the list shows.
LEMMA DetailNamesTheUnit ==
  ASSUME NEW db, HoldsLists(db), NEW e, EventUnit(db, e) # None
  PROVE  EventUnit(db, e).unit = EventUnitCode(db, e)
<1>1. PICK s : s = ListByIndex(db, "unitprofiles", "unit", EventUnitCode(db, e))
  OBVIOUS
<1>2. EventUnit(db, e) = PickOrNull(LastOf(s), {"unit", "unitName"})
  BY <1>1 DEF EventUnit
<1>3. LastOf(s) # None
  BY <1>2 DEF PickOrNull
<1>4. EventUnitCode(db, e) # None /\ Get(LastOf(s), "unit") = EventUnitCode(db, e)
  <2>1. LastOf(s) \in Range(s)
    BY <1>1, <1>3, IndexLists, LastIsThere
  <2> QED
    BY <1>1, <2>1, IndexLists
<1>5. "unit" \in DOMAIN LastOf(s) /\ LastOf(s)["unit"] = EventUnitCode(db, e)
  BY <1>3, <1>4 DEF Get, Field
<1> QED
  BY <1>2, <1>3, <1>5 DEF PickOrNull, Pick

\* The detail shows the banner character the list names.
LEMMA DetailShowsTheBanner ==
  ASSUME NEW db, NEW e, BannerCharacter(db, e) # None
  PROVE  Field(BannerCharacter(db, e), "gameCharacterId") = Get(BannerUnit(db, e), "gameCharacterId")
<1>1. PICK unit : unit = BannerUnit(db, e)
  OBVIOUS
<1>2. PICK name : name = Pick(GetByID(db, "gamecharacters", Get(unit, "gameCharacterId")), {"givenName"})
  OBVIOUS
<1>3. /\ unit # None
      /\ BannerCharacter(db, e)
           = Merge(Merge(Pick(unit, {"gameCharacterId", "unit"}), name), [gameCharacterUnitId |-> unit.id])
  BY <1>1, <1>2 DEF BannerCharacter, ShownBanner, CharacterOfUnit
<1>4. "gameCharacterId" \notin DOMAIN name
  BY <1>2 DEF Pick
<1>5. Field(Merge(Pick(unit, {"gameCharacterId", "unit"}), name), "gameCharacterId") = Get(unit, "gameCharacterId")
  BY <1>3, <1>4 DEF Merge, Pick, Get, Field
<1>6. Field(BannerCharacter(db, e), "gameCharacterId")
        = Field(Merge(Pick(unit, {"gameCharacterId", "unit"}), name), "gameCharacterId")
  BY <1>3 DEF Merge, Field
<1> QED
  BY <1>1, <1>5, <1>6

\* The list and the detail of an event agree.
LEMMA UnitsAgree == ASSUME NEW c \in Content PROVE EventUnitsAgreeIn[c]
<1>1. HoldsLists(Db[c])
  BY ContentAssumption
<1>2. ASSUME NEW e
      PROVE  /\ EventUnit(Db[c], e) # None
                  => EventUnit(Db[c], e).unit = Field(EventListItem(Db[c], e), "unit")
             /\ BannerCharacter(Db[c], e) # None
                  => Field(EventListItem(Db[c], e), "bannerGameCharacterId")
                       = Field(BannerCharacter(Db[c], e), "gameCharacterId")
  BY <1>1, ListItemShows, DetailNamesTheUnit, DetailShowsTheBanner
<1> QED
  BY <1>2 DEF EventUnitsAgreeIn

\* A row of a relation keeps its fields when its release condition is joined.
LEMMA ConditionKeeps ==
  ASSUME NEW db, NEW row, NEW f, f \notin {"releaseConditionId", "releaseCondition"}
  PROVE  Field(WithReleaseCondition(db, row), f) = Field(row, f)
BY DEF WithReleaseCondition, Merge, Without, Field

\* The events a card shows are those its rows name.
LEMMA CardEventsShow ==
  ASSUME NEW db, HoldsLists(db), NEW card, NEW id, card.id = id
  PROVE  Shown(CardEvents(db, card), "eventId")
           = {Field(row, "eventId") : row \in {r \in Range(ListAll(db, "eventcards")) :
                                                 id # None /\ Get(r, "cardId") = id}}
<1> DEFINE rows == ListByIndex(db, "eventcards", "cardId", id)
           Item(row) ==
             Merge(WithReleaseCondition(db, row),
               Merge(Only("event", PickOrNull(GetByID(db, "events", row.eventId), {"id", "name", "startAt"})),
                     BonusRange(db, card, row)))
<1>1. CardEvents(db, card) = [i \in DOMAIN rows |-> Item(rows[i])]
  BY DEF CardEvents, MapSeq
<1>2. ASSUME NEW row PROVE Field(Item(row), "eventId") = Field(row, "eventId")
  <2>1. PICK bonus : bonus = BonusRange(db, card, row)
    OBVIOUS
  <2>2. "eventId" \notin DOMAIN bonus
    BY <2>1 DEF BonusRange, RangeOver
  <2>3. PICK event : event = Only("event", PickOrNull(GetByID(db, "events", row.eventId), {"id", "name", "startAt"}))
    OBVIOUS
  <2>4. "eventId" \notin DOMAIN event
    BY <2>3 DEF Only
  <2>5. Item(row) = Merge(WithReleaseCondition(db, row), Merge(event, bonus))
    BY <2>1, <2>3
  <2>6. Field(Item(row), "eventId") = Field(WithReleaseCondition(db, row), "eventId")
    BY <2>2, <2>4, <2>5 DEF Merge, Field
  <2> QED
    BY <2>6, ConditionKeeps
<1> HIDE DEF Item, rows
<1>3. Shown(CardEvents(db, card), "eventId") = {Field(rows[i], "eventId") : i \in DOMAIN rows}
  BY <1>1, <1>2 DEF Shown
<1>4. Shown(CardEvents(db, card), "eventId") = {Field(row, "eventId") : row \in Range(rows)}
  BY <1>3 DEF Range
<1>5. Range(rows) = {r \in Range(ListAll(db, "eventcards")) : id # None /\ Get(r, "cardId") = id}
  BY IndexLists DEF rows
<1> QED
  BY <1>4, <1>5

\* The cards an event shows are those its rows name.
LEMMA EventCardsShow ==
  ASSUME NEW db, HoldsLists(db), NEW e, NEW id, e.id = id
  PROVE  Shown(EventCards(db, e), "cardId")
           = {Field(row, "cardId") : row \in {r \in Range(ListAll(db, "eventcards")) :
                                                id # None /\ Get(r, "eventId") = id}}
<1> DEFINE rows == ListByIndex(db, "eventcards", "eventId", id)
           Item(row) ==
             Merge(WithReleaseCondition(db, row),
                   Pick(GetByID(db, "cards", Get(WithReleaseCondition(db, row), "cardId")),
                        {"prefix", "attr", "cardRarityType"}))
<1>1. EventCards(db, e) = [i \in DOMAIN rows |-> Item(rows[i])]
  BY DEF EventCards, Related, EventItems, MapSeq
<1>2. ASSUME NEW row PROVE Field(Item(row), "cardId") = Field(row, "cardId")
  <2>1. PICK card : card = Pick(GetByID(db, "cards", Get(WithReleaseCondition(db, row), "cardId")),
                                {"prefix", "attr", "cardRarityType"})
    OBVIOUS
  <2>2. "cardId" \notin DOMAIN card
    BY <2>1 DEF Pick
  <2>3. Field(Item(row), "cardId") = Field(WithReleaseCondition(db, row), "cardId")
    BY <2>1, <2>2 DEF Merge, Field
  <2> QED
    BY <2>3, ConditionKeeps
<1> HIDE DEF Item, rows
<1>3. Shown(EventCards(db, e), "cardId") = {Field(rows[i], "cardId") : i \in DOMAIN rows}
  BY <1>1, <1>2 DEF Shown
<1>4. Shown(EventCards(db, e), "cardId") = {Field(row, "cardId") : row \in Range(rows)}
  BY <1>3 DEF Range
<1>5. Range(rows) = {r \in Range(ListAll(db, "eventcards")) : id # None /\ Get(r, "eventId") = id}
  BY IndexLists DEF rows
<1> QED
  BY <1>4, <1>5

\* A gacha shows the cards it picks up.
LEMMA PickupsShow ==
  ASSUME NEW db, NEW g, NEW id, id # None
  PROVE  PicksUp(g, id) <=> LET detail == BuildGachaDetail(db, g)
                            IN  "gachaPickups" \in DOMAIN detail /\ id \in Shown(detail.gachaPickups, "cardId")
<1> DEFINE pickups == EachOf(g, "gachaPickups", LAMBDA p : Pick(p, {"cardId", "weight"}))
           rates == EachOf(g, "gachaCardRarityRates", LAMBDA p : Pick(p, {"cardRarityType", "rate"}))
           details == EachOf(g, "gachaDetails", LAMBDA p : Pick(p, {"cardId", "weight", "isWish"}))
           behaviors == EachOf(g, "gachaBehaviors",
                               LAMBDA b : Merge(Pick(b, {"costResourceType", "costResourceId"}), TicketBundle(db, b)))
           own == Pick(g, {"id", "gachaType", "name", "startAt", "endAt", "gachaInformation"})
           detail == BuildGachaDetail(db, g)
<1>1. detail = Merge(own, Merge(pickups, Merge(rates, Merge(details, behaviors))))
  BY DEF BuildGachaDetail
<1>2. "gachaPickups" \notin DOMAIN own
  BY DEF Pick
<1>3. "gachaPickups" \notin DOMAIN rates
  BY DEF EachOf
<1>4. "gachaPickups" \notin DOMAIN details
  BY DEF EachOf
<1>5. "gachaPickups" \notin DOMAIN behaviors
  BY DEF EachOf
<1>6. /\ "gachaPickups" \in DOMAIN pickups <=> Get(g, "gachaPickups") # None
      /\ Get(g, "gachaPickups") # None
           => pickups["gachaPickups"] = [i \in DOMAIN g["gachaPickups"] |-> Pick(g["gachaPickups"][i], {"cardId", "weight"})]
  BY DEF EachOf, MapSeq
<1>7. /\ "gachaPickups" \in DOMAIN detail <=> Get(g, "gachaPickups") # None
      /\ Get(g, "gachaPickups") # None
           => detail["gachaPickups"] = [i \in DOMAIN g["gachaPickups"] |-> Pick(g["gachaPickups"][i], {"cardId", "weight"})]
  <2> HIDE DEF own, pickups, rates, details, behaviors, detail
  <2> QED
    BY <1>1, <1>2, <1>3, <1>4, <1>5, <1>6 DEF Merge
<1> HIDE DEF detail
<1>8. ASSUME NEW p PROVE Field(Pick(p, {"cardId", "weight"}), "cardId") = id <=> Get(p, "cardId") = id
  BY DEF Pick, Field, Get
<1>9. CASE Get(g, "gachaPickups") = None
  BY <1>7, <1>9 DEF PicksUp, Items, detail
<1>10. CASE Get(g, "gachaPickups") # None
  <2>1. PicksUp(g, id) <=> \E i \in DOMAIN g["gachaPickups"] : Get(g["gachaPickups"][i], "cardId") = id
    BY <1>10 DEF PicksUp, Items
  <2>2. Shown(detail["gachaPickups"], "cardId")
          = {Field(Pick(g["gachaPickups"][i], {"cardId", "weight"}), "cardId") : i \in DOMAIN g["gachaPickups"]}
    BY <1>7, <1>10 DEF Shown
  <2>3. id \in Shown(detail["gachaPickups"], "cardId")
          <=> \E i \in DOMAIN g["gachaPickups"] : Get(g["gachaPickups"][i], "cardId") = id
    BY <1>8, <2>2
  <2> QED
    BY <1>7, <1>10, <2>1, <2>3 DEF detail
<1> QED
  BY <1>9, <1>10

\* The gachas a card shows are those that pick it up.
LEMMA CardGachasShow ==
  ASSUME NEW db, HoldsLists(db), NEW id
  PROVE  Shown(CardGachas(db, id), "id")
           = {Field(g, "id") : g \in {h \in Range(ListAll(db, "gachas")) : PicksUp(h, id)}}
<1> DEFINE s == ListAll(db, "gachas")
           P == {i \in DOMAIN s : PicksUp(s[i], id)}
           rows == Picked(s, P)
<1>1. CardGachas(db, id) = [i \in DOMAIN rows |-> Pick(rows[i], {"id", "name", "startAt"})]
  BY DEF CardGachas, MapSeq, Selected
<1>2. s \in Seq(Range(s)) /\ None \notin Range(s)
  BY RecordsAreListed
<1>3. PicksOf(s, Range(s), P)
  BY <1>2, PickedHolds
<1>4. Range(rows) = {s[i] : i \in P}
  BY <1>3 DEF PicksOf
<1>5. {s[i] : i \in P} = {h \in Range(s) : PicksUp(h, id)}
  BY DEF Range
<1>6. \A i \in DOMAIN rows : rows[i] \in Range(s) /\ rows[i] # None
  BY <1>2, <1>4, <1>5 DEF Range
<1>7. \A g : g # None => Field(Pick(g, {"id", "name", "startAt"}), "id") = Field(g, "id")
  BY DEF Pick, Field
<1> HIDE DEF s, P, rows
<1>8. Shown(CardGachas(db, id), "id") = {Field(rows[i], "id") : i \in DOMAIN rows}
  <2>1. Shown(CardGachas(db, id), "id")
          = {Field(Pick(rows[i], {"id", "name", "startAt"}), "id") : i \in DOMAIN rows}
    BY <1>1 DEF Shown
  <2> QED
    BY <1>6, <1>7, <2>1
<1>9. {Field(rows[i], "id") : i \in DOMAIN rows} = {Field(g, "id") : g \in Range(rows)}
  BY DEF Range
<1> QED
  BY <1>4, <1>5, <1>8, <1>9 DEF s

\* An event and a card name each other, a card and a gacha too.
LEMMA RelationsAgree == ASSUME NEW c \in Content PROVE CardsAndEventsAgreeIn[c]
<1>1. PICK db : db = Db[c]
  OBVIOUS
<1>2. HoldsLists(db)
  BY <1>1, ContentAssumption
<1>3. ASSUME NEW entity, NEW r \in Identified(db, entity)
      PROVE  r # None /\ r.id # None /\ Get(r, "id") = r.id /\ Field(r, "id") = r.id
  BY DEF Identified, Get, Field
<1>4. ASSUME NEW e \in Identified(db, "events"), NEW r \in Identified(db, "cards")
      PROVE  e.id \in Shown(CardEvents(db, r), "eventId") <=> r.id \in Shown(EventCards(db, e), "cardId")
  <2>1. PICK n : n = e.id
    OBVIOUS
  <2>2. PICK m : m = r.id
    OBVIOUS
  <2>3. n # None /\ m # None
    BY <1>3, <2>1, <2>2
  <2>4. Shown(CardEvents(db, r), "eventId")
          = {Field(row, "eventId") : row \in {x \in Range(ListAll(db, "eventcards")) : m # None /\ Get(x, "cardId") = m}}
    BY <1>2, <2>2, CardEventsShow
  <2>5. Shown(EventCards(db, e), "cardId")
          = {Field(row, "cardId") : row \in {x \in Range(ListAll(db, "eventcards")) : n # None /\ Get(x, "eventId") = n}}
    BY <1>2, <2>1, EventCardsShow
  <2>6. \A x \in Range(ListAll(db, "eventcards")) : \A f : Get(x, f) = Field(x, f)
    BY <1>2, RecordsAreListed DEF Get
  <2>7. n \in Shown(CardEvents(db, r), "eventId")
          <=> \E x \in Range(ListAll(db, "eventcards")) : Field(x, "cardId") = m /\ Field(x, "eventId") = n
    BY <2>3, <2>4, <2>6
  <2>8. m \in Shown(EventCards(db, e), "cardId")
          <=> \E x \in Range(ListAll(db, "eventcards")) : Field(x, "cardId") = m /\ Field(x, "eventId") = n
    BY <2>3, <2>5, <2>6
  <2> QED
    BY <2>1, <2>2, <2>7, <2>8
<1>5. ASSUME NEW g \in Identified(db, "gachas"), NEW r \in Identified(db, "cards")
      PROVE  g.id \in Shown(CardGachas(db, r.id), "id")
               <=> \E h \in Identified(db, "gachas") :
                     LET detail == BuildGachaDetail(db, h)
                     IN  /\ h.id = g.id /\ "gachaPickups" \in DOMAIN detail
                         /\ r.id \in Shown(detail.gachaPickups, "cardId")
  <2>1. PICK n : n = g.id
    OBVIOUS
  <2>2. PICK m : m = r.id
    OBVIOUS
  <2>3. n # None /\ m # None
    BY <1>3, <2>1, <2>2
  <2>4. Shown(CardGachas(db, m), "id")
          = {Field(h, "id") : h \in {x \in Range(ListAll(db, "gachas")) : PicksUp(x, m)}}
    BY <1>2, CardGachasShow
  <2>5. \A x \in Range(ListAll(db, "gachas")) : Field(x, "id") = n => x \in Identified(db, "gachas") /\ x.id = n
    <3>1. None \notin Range(ListAll(db, "gachas"))
      BY <1>2, RecordsAreListed
    <3> QED
      BY <2>3, <3>1 DEF Identified, Get, Field
  <2>6. \A x \in Identified(db, "gachas") : x \in Range(ListAll(db, "gachas")) /\ Field(x, "id") = x.id
    BY <1>3 DEF Identified
  <2>7. n \in Shown(CardGachas(db, m), "id")
          <=> \E h \in Identified(db, "gachas") : h.id = n /\ PicksUp(h, m)
    BY <2>4, <2>5, <2>6
  <2>8. \A h : PicksUp(h, m) <=> LET detail == BuildGachaDetail(db, h)
                                 IN  "gachaPickups" \in DOMAIN detail /\ m \in Shown(detail.gachaPickups, "cardId")
    BY <2>3, PickupsShow
  <2> QED
    BY <2>1, <2>2, <2>7, <2>8
<1> QED
  BY <1>1, <1>4, <1>5, Zenon DEF CardsAndEventsAgreeIn

\* Ranges are ordered by their ranks, equal ones by their place.
LEMMA RangesAreOrdered ==
  ASSUME NEW ranges, ranges \in Seq(Range(ranges))
  PROVE  /\ IsFiniteSet(RankedRanges(ranges)) /\ RankedRanges(ranges) \subseteq DOMAIN ranges
         /\ StrictOrder(RankOrder(ranges), RankedRanges(ranges))
<1> DEFINE S == RankedRanges(ranges)
<1>1. PICK n \in Nat : n = Len(ranges)
  OBVIOUS
<1>2. S \in SUBSET (1..n) /\ S \subseteq DOMAIN ranges
  BY <1>1 DEF RankedRanges
<1>3. IsFiniteSet(S)
  BY <1>2, Places, FS_Subset
<1>4. \A i \in S : i \in Int
  BY <1>2
<1>5. \A k : RankOr0(Get(ranges[k], "fromRank")) \in Int /\ RankOr0(Get(ranges[k], "toRank")) \in Int
  BY DEF RankOr0, IsRank
<1>6. \A i, j \in S : <<i, j>> \in RankOrder(ranges) <=> ComesFirst(ranges, i, j)
  BY DEF RankOrder
<1> HIDE DEF S
<1>7. \A i \in S : ~ComesFirst(ranges, i, i)
  BY <1>4, <1>5 DEF ComesFirst
<1>8. \A i, j, k \in S : ComesFirst(ranges, i, j) /\ ComesFirst(ranges, j, k) => ComesFirst(ranges, i, k)
  BY <1>4, <1>5 DEF ComesFirst
<1>9. \A i, j \in S : i # j => ComesFirst(ranges, i, j) \/ ComesFirst(ranges, j, i)
  BY <1>4, <1>5 DEF ComesFirst
<1>10. StrictOrder(RankOrder(ranges), S)
  BY <1>6, <1>7, <1>8, <1>9 DEF StrictOrder
<1> QED
  BY <1>2, <1>3, <1>10 DEF S

\* Every range with a rank is in the order of the ranks, once.
LEMMA RangesAreListed ==
  ASSUME NEW ranges, ranges \in Seq(Range(ranges))
  PROVE  /\ Cardinality(RankedRanges(ranges)) \in Nat
         /\ DOMAIN RangesByRank(ranges) = 1..Cardinality(RankedRanges(ranges))
         /\ \A n \in DOMAIN RangesByRank(ranges) : RangesByRank(ranges)[n] \in RankedRanges(ranges)
<1>1. Numbered(RankedRanges(ranges), RankOrder(ranges))
  BY RangesAreOrdered, OrderNumbers
<1>2. RangesByRank(ranges)
        = [n \in 1..Cardinality(RankedRanges(ranges)) |-> Ranked(RankedRanges(ranges), RankOrder(ranges), n)]
  BY DEF RangesByRank, Ordered
<1> QED
  BY <1>1, <1>2 DEF Numbered

\* A choice of ranges with a rank, none of them twice.
Choice(chosen, ranges) == chosen \in Seq(RankedRanges(ranges)) /\ IsInjective(chosen)

\* A choice takes one more range that it does not hold.
LEMMA ChoiceGrows ==
  ASSUME NEW ranges, NEW chosen, Choice(chosen, ranges),
         NEW i \in RankedRanges(ranges), i \notin Range(chosen)
  PROVE  Choice(Append(chosen, i), ranges)
<1>1. chosen \in Seq(RankedRanges(ranges))
  BY DEF Choice
<1>2. Append(chosen, i) \in Seq(RankedRanges(ranges))
  BY <1>1
<1>3. ASSUME NEW a \in DOMAIN Append(chosen, i), NEW b \in DOMAIN Append(chosen, i),
             Append(chosen, i)[a] = Append(chosen, i)[b]
      PROVE  a = b
  <2>1. a \in 1..(Len(chosen) + 1) /\ b \in 1..(Len(chosen) + 1) /\ Len(chosen) \in Nat
    BY <1>1
  <2>2. \A x \in 1..Len(chosen) : chosen[x] # i /\ Append(chosen, i)[x] = chosen[x]
    BY <1>1 DEF Range
  <2>3. Append(chosen, i)[Len(chosen) + 1] = i
    BY <1>1
  <2>4. a \in 1..Len(chosen) \/ a = Len(chosen) + 1
    BY <2>1
  <2>5. b \in 1..Len(chosen) \/ b = Len(chosen) + 1
    BY <2>1
  <2>6. \A x, y \in 1..Len(chosen) : chosen[x] = chosen[y] => x = y
    BY <1>1 DEF Choice, IsInjective
  <2> QED
    BY <1>3, <2>2, <2>3, <2>4, <2>5, <2>6
<1> QED
  BY <1>2, <1>3 DEF Choice, IsInjective

\* So it does around a preview rank.
LEMMA TakenAround ==
  ASSUME NEW ranges, ranges \in Seq(Range(ranges)), NEW chosen, Choice(chosen, ranges), NEW rank
  PROVE  Choice(TakeAround(ranges, RangesByRank(ranges), chosen, rank), ranges)
<1> DEFINE order == RangesByRank(ranges)
           hits == {n \in DOMAIN order : order[n] \notin Range(chosen) /\ IsAround(ranges[order[n]], rank)}
<1>1. TakeAround(ranges, order, chosen, rank) = IF hits = {} THEN chosen ELSE Append(chosen, order[Min(hits)])
  BY DEF TakeAround
<1>2. CASE hits = {}
  BY <1>1, <1>2
<1>3. CASE hits # {}
  <2>1. hits \subseteq Nat
    BY RangesAreListed
  <2>2. \E m \in hits : \A x \in hits : m <= x
    <3> HIDE DEF hits
    <3> QED
      BY <1>3, <2>1, LeastNumber
  <2>3. Min(hits) \in hits
    <3> HIDE DEF hits
    <3> QED
      BY <2>2 DEF Min
  <2>4. PICK n \in hits : n = Min(hits)
    BY <2>3
  <2>5. order[n] \in RankedRanges(ranges) /\ order[n] \notin Range(chosen)
    BY <2>4, RangesAreListed
  <2>6. TakeAround(ranges, order, chosen, rank) = Append(chosen, order[n])
    BY <1>1, <1>3, <2>4
  <2> QED
    BY <2>5, <2>6, ChoiceGrows
<1> QED
  BY <1>2, <1>3

\* And of the last range that grants a title.
LEMMA TakenTitled ==
  ASSUME NEW world, NEW region, NEW ranges, ranges \in Seq(Range(ranges)), NEW chosen, Choice(chosen, ranges)
  PROVE  Choice(TakeTitled(world, region, ranges, RangesByRank(ranges), chosen), ranges)
<1> DEFINE order == RangesByRank(ranges)
           hits == {n \in DOMAIN order : order[n] \notin Range(chosen) /\ HasDegree(world, region, ranges[order[n]])}
<1>1. TakeTitled(world, region, ranges, order, chosen) = IF hits = {} THEN chosen ELSE Append(chosen, order[Max(hits)])
  BY DEF TakeTitled
<1>2. CASE hits = {}
  BY <1>1, <1>2
<1>3. CASE hits # {}
  <2>1. hits \in SUBSET DOMAIN order /\ hits \in SUBSET Nat
    BY RangesAreListed
  <2>2. IsFiniteSet(DOMAIN order)
    BY RangesAreListed, Places
  <2>3. IsFiniteSet(hits)
    <3> HIDE DEF hits
    <3> QED
      BY <2>1, <2>2, FS_Subset
  <2>4. Max(hits) \in hits
    <3> HIDE DEF hits
    <3> QED
      BY <1>3, <2>1, <2>3, LastPosition
  <2>5. PICK n \in hits : n = Max(hits)
    BY <2>4
  <2>6. order[n] \in RankedRanges(ranges) /\ order[n] \notin Range(chosen)
    BY <2>5, RangesAreListed
  <2>7. TakeTitled(world, region, ranges, order, chosen) = Append(chosen, order[n])
    BY <1>1, <1>3, <2>5
  <2> QED
    BY <2>6, <2>7, ChoiceGrows
<1> QED
  BY <1>2, <1>3

\* The preview chooses ranges with a rank, each once.
LEMMA PreviewChooses ==
  ASSUME NEW world, NEW region, NEW ranges, ranges \in Seq(Range(ranges))
  PROVE  Choice(PreviewIndices(world, region, ranges), ranges)
<1>1. Choice(<<>>, ranges)
  BY DEF Choice, IsInjective
<1> DEFINE order == RangesByRank(ranges)
<1>2. Choice(TakeAround(ranges, order, <<>>, 1), ranges)
  BY <1>1, TakenAround
<1>3. Choice(TakeAround(ranges, order, TakeAround(ranges, order, <<>>, 1), 100), ranges)
  BY <1>2, TakenAround
<1>4. Choice(TakeAround(ranges, order, TakeAround(ranges, order, TakeAround(ranges, order, <<>>, 1), 100), 1000), ranges)
  BY <1>3, TakenAround
<1> QED
  BY <1>4, TakenTitled DEF PreviewIndices, TakeEach

\* The ranges s of the positions D, by the first of their ranks.
ByFirstRank(s, D) ==
  LET Precedes(i, j) == s[i].fromRank < s[j].fromRank
                          \/ (~(s[j].fromRank < s[i].fromRank) /\ i < j)
      before == {p \in D \X D : Precedes(p[1], p[2])}
  IN  [n \in D |-> s[Ranked(D, before, n)]]

\* The chosen ranges, sorted by the first of their ranks.
LEMMA PreviewIsSorted ==
  ASSUME NEW world, NEW region, NEW e, RewardRanges(e) \in Seq(Range(RewardRanges(e)))
  PROVE  IsPreviewOf(RewardPreview(world, region, e), EventRewards(world, region, e).body,
                     PreviewIndices(world, region, RewardRanges(e)))
<1>1. PICK ranges : ranges = RewardRanges(e)
  OBVIOUS
<1>2. PICK chosen : chosen = PreviewIndices(world, region, ranges)
  OBVIOUS
<1>3. chosen \in Seq(RankedRanges(ranges)) /\ IsInjective(chosen)
  BY <1>1, <1>2, PreviewChooses DEF Choice
<1>4. PICK k \in Nat : k = Len(chosen)
  BY <1>3
<1>5. DOMAIN chosen = 1..k
  BY <1>3, <1>4
<1> DEFINE picked == [i \in 1..k |-> ranges[chosen[i]]]
           Precedes(i, j) == picked[i].fromRank < picked[j].fromRank
                               \/ (~(picked[j].fromRank < picked[i].fromRank) /\ i < j)
           before == {p \in (1..k) \X (1..k) : Precedes(p[1], p[2])}
           at(n) == Ranked(1..k, before, n)
           preview == [n \in 1..k |-> EnrichedRange(world, region, picked[at(n)])]
<1>6. RewardPreview(world, region, e) = preview
  <2>1. RewardPreview(world, region, e)
          = MapSeq(StableSort(MapSeq(chosen, LAMBDA i : ranges[i]), LAMBDA a, b : a.fromRank < b.fromRank),
                   LAMBDA r : EnrichedRange(world, region, r))
    BY <1>1, <1>2 DEF RewardPreview
  <2>2. MapSeq(chosen, LAMBDA i : ranges[i]) = picked
    BY <1>5 DEF MapSeq
  <2> HIDE DEF picked, before
  <2>3. StableSort(picked, LAMBDA a, b : a.fromRank < b.fromRank) = ByFirstRank(picked, DOMAIN picked)
    BY DEF StableSort, ByFirstRank
  <2>4. DOMAIN picked = 1..k
    BY DEF picked
  <2>5. ByFirstRank(picked, 1..k) = [n \in 1..k |-> picked[at(n)]]
    BY DEF ByFirstRank, before
  <2>6. RewardPreview(world, region, e)
          = MapSeq(ByFirstRank(picked, 1..k), LAMBDA r : EnrichedRange(world, region, r))
    BY <2>1, <2>2, <2>3, <2>4
  <2> QED
    BY <2>5, <2>6 DEF MapSeq
<1>7. \A i \in 1..k : /\ chosen[i] \in DOMAIN ranges
                      /\ "fromRank" \in DOMAIN picked[i] /\ picked[i].fromRank \in Int
  <2>1. \A i \in 1..k : chosen[i] \in RankedRanges(ranges)
    BY <1>3, <1>5
  <2>2. \A r : Get(r, "fromRank") \in Int => "fromRank" \in DOMAIN r /\ r.fromRank \in Int
    BY QueryAssumption DEF Get, Field
  <2> QED
    BY <2>1, <2>2 DEF RankedRanges, IsRank
<1>8. StrictOrder(before, 1..k)
  <2>1. \A i, j \in 1..k : <<i, j>> \in before <=> Precedes(i, j)
    OBVIOUS
  <2> HIDE DEF picked, before
  <2>2. \A i \in 1..k : i \in Int
    OBVIOUS
  <2>3. \A i \in 1..k : ~Precedes(i, i)
    BY <1>7, <2>2
  <2>4. \A i, j, l \in 1..k : Precedes(i, j) /\ Precedes(j, l) => Precedes(i, l)
    BY <1>7, <2>2
  <2>5. \A i, j \in 1..k : i # j => Precedes(i, j) \/ Precedes(j, i)
    BY <1>7, <2>2
  <2> HIDE DEF Precedes
  <2> QED
    BY <2>1, <2>3, <2>4, <2>5 DEF StrictOrder
<1>9. /\ \A n \in 1..k : at(n) \in 1..k
      /\ \A n, m \in 1..k : n < m => <<at(n), at(m)>> \in before
  <2> HIDE DEF before
  <2>1. IsFiniteSet(1..k) /\ Cardinality(1..k) = k
    BY Places
  <2>2. Numbered(1..k, before)
    BY <1>8, <2>1, OrderNumbers
  <2> QED
    BY <2>1, <2>2 DEF Numbered
<1>10. \A n, m \in 1..k : n < m => picked[at(n)].fromRank <= picked[at(m)].fromRank
  <2>1. \A i, j \in 1..k : <<i, j>> \in before => picked[i].fromRank <= picked[j].fromRank
    <3>1. \A i, j \in 1..k : <<i, j>> \in before <=> Precedes(i, j)
      OBVIOUS
    <3> HIDE DEF picked, before
    <3> QED
      BY <1>7, <3>1
  <2> HIDE DEF picked, before
  <2> QED
    BY <1>9, <2>1
<1>11. \A r : "fromRank" \in DOMAIN r => EnrichedRange(world, region, r).fromRank = r.fromRank
  BY DEF EnrichedRange
<1>12. \A n \in 1..k : preview[n].fromRank = picked[at(n)].fromRank
  <2> HIDE DEF picked, before
  <2> QED
    BY <1>7, <1>9, <1>11
<1>13. \A i, j \in DOMAIN preview : i < j => preview[i].fromRank <= preview[j].fromRank
  <2>1. DOMAIN preview = 1..k
    OBVIOUS
  <2> HIDE DEF picked, before, preview
  <2> QED
    BY <1>10, <1>12, <2>1
<1>14. EventRewards(world, region, e).body = [i \in DOMAIN ranges |-> EnrichedRange(world, region, ranges[i])]
  BY <1>1 DEF EventRewards, Ok, MapSeq
<1>15. Range(preview) \subseteq Range(EventRewards(world, region, e).body)
  <2>1. \A n \in 1..k : \E i \in DOMAIN ranges : picked[at(n)] = ranges[i]
    <3> HIDE DEF before
    <3> QED
      BY <1>7, <1>9
  <2>2. DOMAIN preview = 1..k /\ \A n \in 1..k : preview[n] = EnrichedRange(world, region, picked[at(n)])
    <3> HIDE DEF picked, before
    <3> QED
      OBVIOUS
  <2> HIDE DEF picked, before, preview
  <2>3. ASSUME NEW n \in 1..k PROVE preview[n] \in Range(EventRewards(world, region, e).body)
    <3>1. PICK i \in DOMAIN ranges : picked[at(n)] = ranges[i]
      BY <2>1
    <3>2. preview[n] = EventRewards(world, region, e).body[i] /\ i \in DOMAIN EventRewards(world, region, e).body
      BY <1>14, <2>2, <3>1
    <3> QED
      BY <3>2 DEF Range
  <2>4. Range(preview) = {preview[n] : n \in 1..k}
    BY <2>2 DEF Range
  <2> QED
    BY <2>3, <2>4
<1>16. Len(preview) = k /\ Cardinality(Range(chosen)) = k
  <2>1. DOMAIN preview = 1..k
    OBVIOUS
  <2> HIDE DEF picked, before, preview
  <2>2. Len(preview) = k
    BY <2>1
  <2>3. Cardinality(Range(chosen)) = Len(chosen)
    BY <1>3, NoneRepeated
  <2> QED
    BY <1>4, <2>2, <2>3
<1> HIDE DEF preview
<1> QED
  BY <1>1, <1>2, <1>4, <1>6, <1>13, <1>15, <1>16 DEF IsPreviewOf

\* So does the preview of every event, whatever jp lends.
LEMMA PreviewsAgree == ASSUME NEW c \in Content PROVE RewardPreviewIsOfTheRewardsIn[c]
<1>1. ASSUME NEW d \in Content, NEW r \in Region, NEW world, world = [WorldOf(c) EXCEPT !["jp"].db = Db[d]],
             NEW e \in Range(ListAll(world[r].db, "events"))
      PROVE  IsPreviewOf(RewardPreview(world, r, e), EventRewards(world, r, e).body,
                         PreviewIndices(world, r, RewardRanges(e)))
  <2>1. world[r].db \in {Db[c], Db[d]}
    BY <1>1 DEF WorldOf
  <2>2. HoldsLists(world[r].db)
    BY <2>1, ContentAssumption
  <2>3. RewardRanges(e) \in Seq(Range(RewardRanges(e)))
    BY <2>2 DEF HoldsLists
  <2> QED
    BY <2>3, PreviewIsSorted
<1> QED
  BY <1>1, Zenon DEF RewardPreviewIsOfTheRewardsIn

\* The list item of an event, its detail, its preview and what cards and gachas
\* say of it agree, whatever is stored.
THEOREM EventsAreOfOneMind == Spec => []EventViewsAgree
<1>1. CacheInv => EventViewsAgree
  BY ServedIsStored, UnitsAgree, RelationsAgree, PreviewsAgree
  DEF EventViewsAgree, EventUnitsAgree, CardsAndEventsAgree, RewardPreviewIsOfTheRewards
<1> QED
  BY <1>1, CacheInvariant, PTL

-----------------------------------------------------------------------------
(* The pages of each list                                                   *)

\* The page of a list that is asked for, and nothing at all where the page
\* size is refused.
PageSize == 1 .. MaxPageSize
Asked(q, k, s) == [q EXCEPT !.page = k, !.size = s]
IsList(s) == s \in Seq(Range(s))
PageRecord(list, k, s) == [items |-> Slice(list, k, s), pagination |-> PaginationOf(k, s, Len(list))]
MadePage(answer, list, shown, sizes, k, s) ==
  /\ answer.status = 200 <=> s \in sizes
  /\ s \in sizes =>
       /\ answer.body.items = [i \in DOMAIN Slice(list, k, s) |-> shown[Slice(list, k, s)[i]]]
       /\ answer.body.pagination = PaginationOf(k, s, Len(list))
AsksFor(q, route) == {"page", "size", "entity"} \cup Parameters(route) \subseteq DOMAIN q

\* A function of the first n numbers is a list.
LEMMA NumberedIsList ==
  ASSUME NEW n \in Nat, NEW s, s = [i \in 1..n |-> s[i]]
  PROVE  IsList(s) /\ Len(s) = n /\ DOMAIN s = 1..n
<1>1. DOMAIN s = 1..n
  OBVIOUS
<1>2. \A i \in 1..n : s[i] \in Range(s)
  BY <1>1 DEF Range
<1>3. s \in [1..n -> Range(s)]
  BY <1>2
<1> QED
  BY <1>1, <1>3 DEF IsList

\* A sequence of any kind is a list.
LEMMA SequenceIsList == ASSUME NEW T, NEW s \in Seq(T) PROVE IsList(s)
<1>1. s = [i \in 1..Len(s) |-> s[i]] /\ Len(s) \in Nat
  OBVIOUS
<1> QED
  BY <1>1, NumberedIsList

\* A list as a function.
LEMMA ListIsNumbered ==
  ASSUME NEW s, IsList(s)
  PROVE  Len(s) \in Nat /\ DOMAIN s = 1..Len(s) /\ s = [i \in 1..Len(s) |-> s[i]]
BY DEF IsList

\* What is picked of a list is a list.
LEMMA PickedIsList ==
  ASSUME NEW s, IsList(s), NEW P \in SUBSET DOMAIN s
  PROVE  IsList(Picked(s, P))
<1>1. PicksOf(s, Range(s), P)
  BY PickedHolds DEF IsList
<1>2. Picked(s, P) = [n \in 1..Cardinality(P) |-> Picked(s, P)[n]]
  BY DEF Picked
<1> QED
  BY <1>1, <1>2, NumberedIsList DEF PicksOf

\* What is stored of an entity is a list.
LEMMA StoredIsList ==
  ASSUME NEW db, HoldsLists(db), NEW entity
  PROVE  IsList(ListAll(db, entity))
<1>1. CASE entity \in DOMAIN db
  BY <1>1 DEF HoldsLists, ListAll, IsList
<1>2. CASE entity \notin DOMAIN db
  BY <1>2, NumberedIsList DEF ListAll, IsList
<1> QED
  BY <1>1, <1>2

\* So is what spoilers leave, and what is sorted.
LEMMA ShownIsList ==
  ASSUME NEW s, IsList(s), NEW t
  PROVE  IsList(FilterSpoilerItems(s, t))
<1>1. {i \in DOMAIN s : s[i] \in Range(s) \ Spoilers(s, t)} \in SUBSET DOMAIN s
  OBVIOUS
<1> QED
  BY <1>1, PickedIsList DEF FilterSpoilerItems, Those, Selected

LEMMA SortedIsList ==
  ASSUME NEW s, IsList(s), NEW field, NEW descending
  PROVE  IsList(SortResponseItems(s, field, descending)) /\ IsList(TypedSort(s, field, descending))
<1>1. PICK n \in Nat : DOMAIN s = 1..n
  BY ListIsNumbered
<1>2. \A x : x = SortResponseItems(s, field, descending) => x = [i \in 1..n |-> x[i]]
  BY <1>1 DEF SortResponseItems, StableSort
<1>3. \A x : x = TypedSort(s, field, descending) => x = [i \in 1..n |-> x[i]]
  BY <1>1 DEF TypedSort, StableSort
<1> QED
  BY <1>2, <1>3, NumberedIsList

\* The place in the list of the i-th item of a page.
PlaceAt(k, s, i) == (k - 1) * s + i

\* A page of a list is a list, and a page of what is made of each member is
\* made of the page's members.
LEMMA PageIsMapped ==
  ASSUME NEW m, IsList(m), NEW x, IsList(x), Len(x) = Len(m), NEW k \in Nat \ {0}, NEW s \in Nat \ {0}
  PROVE  /\ IsList(Slice(x, k, s))
         /\ Slice(x, k, s) = [i \in DOMAIN Slice(m, k, s) |-> x[PlaceAt(k, s, i)]]
         /\ \A i \in DOMAIN Slice(m, k, s) :
              PlaceAt(k, s, i) \in DOMAIN m /\ Slice(m, k, s)[i] = m[PlaceAt(k, s, i)]
<1>1. PICK from \in Nat : from = (k - 1) * s
  BY PagesCounted
<1>2. PICK n \in Nat : n = Len(m)
  BY ListIsNumbered
<1> DEFINE a == Slice(m, k, s)
           b == Slice(x, k, s)
<1>3. /\ a \in Seq(Range(m)) /\ Len(a) <= s
      /\ \A i \in 1..s : i <= Len(a) <=> from + i <= n
      /\ \A i \in 1..Len(a) : a[i] = m[from + i]
  BY <1>1, <1>2, PageHolds DEF IsList
<1>4. /\ b \in Seq(Range(x)) /\ Len(b) <= s
      /\ \A i \in 1..s : i <= Len(b) <=> from + i <= n
      /\ \A i \in 1..Len(b) : b[i] = x[from + i]
  BY <1>1, <1>2, PageHolds DEF IsList
<1> HIDE DEF a, b
<1>5. Len(a) = Len(b)
  <2>1. PICK la \in Nat : la = Len(a)
    BY <1>3
  <2>2. PICK lb \in Nat : lb = Len(b)
    BY <1>4
  <2>3. \A i \in 1..s : i <= la <=> i <= lb
    BY <1>3, <1>4, <2>1, <2>2
  <2>4. la <= s /\ lb <= s
    BY <1>3, <1>4, <2>1, <2>2
  <2> QED
    BY <2>1, <2>2, <2>3, <2>4
<1>6. DOMAIN a = 1..Len(a) /\ DOMAIN b = 1..Len(a) /\ DOMAIN m = 1..n
  BY <1>2, <1>3, <1>4, <1>5, ListIsNumbered
<1>7. \A i \in 1..Len(a) : from + i \in 1..n /\ PlaceAt(k, s, i) = from + i
  BY <1>1, <1>3 DEF PlaceAt
<1>8. IsList(b) /\ b = [i \in 1..Len(a) |-> b[i]]
  BY <1>4, <1>5, SequenceIsList, ListIsNumbered
<1> QED
  BY <1>3, <1>4, <1>5, <1>6, <1>7, <1>8 DEF a, b

\* PaginateItems and the store cut the same pages, of any size up to the cap.
LEMMA PagesAreCut ==
  ASSUME NEW k \in Nat \ {0}, NEW s \in PageSize
  PROVE  /\ \A m : PaginateItems(m, k, s) = PageRecord(m, k, s)
         /\ \A db, entity : StoredPage(db, entity, k, s) = PageRecord(ListAll(db, entity), k, s)
<1>1. AtMost(s, MaxPageSize) = s
  BY QueryAssumption DEF AtMost, PageSize
<1> QED
  BY <1>1 DEF PaginateItems, StoredPage, ListByPage, PageRecord

\* Asking for another page asks for nothing else.
LEMMA AskedIsTheSame ==
  ASSUME NEW q, {"page", "size"} \subseteq DOMAIN q, NEW k, NEW s
  PROVE  /\ DOMAIN Asked(q, k, s) = DOMAIN q
         /\ Asked(q, k, s).page = k /\ Asked(q, k, s).size = s
         /\ \A f \in DOMAIN q \ {"page", "size"} : Asked(q, k, s)[f] = q[f]
BY DEF Asked

\* The members of a page are members of the list.
LEMMA PageIsOfTheList ==
  ASSUME NEW list, IsList(list), NEW k \in Nat \ {0}, NEW s \in PageSize
  PROVE  /\ s \in Nat \ {0} /\ ~(s > MaxPageSize)
         /\ \A i \in DOMAIN Slice(list, k, s) : Slice(list, k, s)[i] \in Range(list)
<1>1. s \in Nat \ {0} /\ ~(s > MaxPageSize)
  BY QueryAssumption DEF PageSize
<1>2. \A i \in DOMAIN Slice(list, k, s) :
        PlaceAt(k, s, i) \in DOMAIN list /\ Slice(list, k, s)[i] = list[PlaceAt(k, s, i)]
  BY <1>1, PageIsMapped
<1> QED
  BY <1>1, <1>2 DEF Range

\* What a filter keeps of a list is a list.
LEMMA ThoseIsList ==
  ASSUME NEW s, IsList(s), NEW S
  PROVE  IsList(Those(s, S))
<1>1. {i \in DOMAIN s : s[i] \in S} \in SUBSET DOMAIN s
  OBVIOUS
<1> QED
  BY <1>1, PickedIsList DEF Those, Selected

\* What is projected of an entity is a list, and so are the first rows of it.
LEMMA ProjectedIsList ==
  ASSUME NEW db, HoldsLists(db), NEW entity, NEW fields
  PROVE  IsList(ProjectionRows(db, entity, fields)) /\ IsList(FirstRows(db, entity, fields))
<1>1. PICK n \in Nat : DOMAIN ListAll(db, entity) = 1..n
  BY StoredIsList, ListIsNumbered
<1>2. \A x : x = ProjectionRows(db, entity, fields) => x = [i \in 1..n |-> x[i]]
  BY <1>1 DEF ProjectionRows
<1>3. IsList(ProjectionRows(db, entity, fields))
  BY <1>2, NumberedIsList
<1>4. ASSUME NEW rows, IsList(rows) PROVE IsList(FirstOfEachID(rows))
  <2>1. {i \in DOMAIN rows :
          /\ "id" \in DOMAIN rows[i]
          /\ \A j \in 1..(i - 1) : Field(rows[j], "id") # rows[i].id} \in SUBSET DOMAIN rows
    OBVIOUS
  <2> QED
    BY <1>4, <2>1, PickedIsList DEF FirstOfEachID
<1> QED
  BY <1>3, <1>4 DEF FirstRows

\* The requests p and q look at the same items in the same order.
SameView(p, q) == p.spoiler = q.spoiler /\ p.sort = q.sort /\ p.descending = q.descending

\* The list a page is cut of: the items that were chosen, or what is stored
\* when nothing was left out nor sorted.
Listed(db, entity, items, filtered, q) ==
  IF ~q.spoiler \/ filtered \/ q.sort # None THEN items ELSE ListAll(db, entity)

\* What a request may see of a list, sorted as it asks, is a list, and so is
\* what its pages are cut of.
LEMMA ViewIsList ==
  ASSUME NEW db, HoldsLists(db), NEW items, IsList(items), NEW q
  PROVE  /\ \A t : IsList(Visible(items, q, t))
         /\ IsList(Sorted(items, q)) /\ IsList(TypedSorted(items, q))
         /\ \A entity, filtered : IsList(Listed(db, entity, items, filtered, q))
<1>1. \A t : IsList(Visible(items, q, t))
  BY ShownIsList DEF Visible
<1>2. IsList(Sorted(items, q)) /\ IsList(TypedSorted(items, q))
  BY SortedIsList DEF Sorted, TypedSorted
<1>3. \A entity, filtered : IsList(Listed(db, entity, items, filtered, q))
  BY StoredIsList DEF Listed
<1> QED
  BY <1>1, <1>2, <1>3

\* Requests with the same view see the same of a list.
LEMMA ViewIsTheSame ==
  ASSUME NEW p, NEW q, SameView(p, q), NEW items
  PROVE  /\ \A t : Visible(items, p, t) = Visible(items, q, t)
         /\ Sorted(items, p) = Sorted(items, q) /\ TypedSorted(items, p) = TypedSorted(items, q)
         /\ \A db, entity, filtered : Listed(db, entity, items, filtered, p) = Listed(db, entity, items, filtered, q)
BY DEF SameView, Visible, Sorted, TypedSorted, Listed

\* ListPage cuts the page that is asked for, whichever way it reads the list.
LEMMA ListPageIsCut ==
  ASSUME NEW db, NEW entity, NEW items, NEW filtered, NEW p, p.page \in Nat \ {0}, p.size \in PageSize
  PROVE  ListPage(db, entity, items, filtered, p)
           = PageRecord(Listed(db, entity, items, filtered, p), p.page, p.size)
<1>1. CASE ~p.spoiler \/ filtered \/ p.sort # None
  BY <1>1, PagesAreCut DEF ListPage, Listed
<1>2. CASE ~(~p.spoiler \/ filtered \/ p.sort # None)
  BY <1>2, PagesAreCut DEF ListPage, Listed
<1> QED
  BY <1>1, <1>2

\* The list of events.
LEMMA EventPages ==
  ASSUME NEW db, HoldsLists(db), NEW t, NEW q, AsksFor(q, "events/list")
  PROVE  \E list, shown, sizes :
           /\ IsList(list)
           /\ \A k \in Nat \ {0}, s \in PageSize :
                MadePage(EventList(db, Asked(q, k, s), t), list, shown, sizes, k, s)
<1> DEFINE matched(r) == Selected(ListAll(db, "events"), LAMBDA e : EventMatches(db, e, r))
           seen(r)    == Sorted(Visible(matched(r), r, t), r)
           list       == Listed(db, "events", seen(q), EventsFiltered(q), q)
           shown      == [e \in Range(list) |-> EventListItem(db, e)]
<1>1. IsList(matched(q))
  <2>1. {i \in DOMAIN ListAll(db, "events") : EventMatches(db, ListAll(db, "events")[i], q)}
          \in SUBSET DOMAIN ListAll(db, "events")
    OBVIOUS
  <2> QED
    BY <2>1, StoredIsList, PickedIsList DEF Selected
<1>2. IsList(list)
  <2> HIDE DEF matched
  <2> QED
    BY <1>1, ViewIsList
<1>3. ASSUME NEW k \in Nat \ {0}, NEW s \in PageSize
      PROVE  MadePage(EventList(db, Asked(q, k, s), t), list, shown, PageSize, k, s)
  <2>1. PICK p : p = Asked(q, k, s)
    OBVIOUS
  <2>2. /\ p.page = k /\ p.size = s /\ SameView(p, q)
        /\ p.fields = q.fields /\ p.units = q.units
    BY <2>1, AskedIsTheSame DEF AsksFor, Parameters, Sorting, SameView
  <2>3. \A e : EventMatches(db, e, p) <=> EventMatches(db, e, q)
    BY <2>2 DEF EventMatches
  <2>4. matched(p) = matched(q)
    BY <2>3 DEF Selected
  <2>5. EventsFiltered(p) = EventsFiltered(q)
    BY <2>2 DEF EventsFiltered
  <2>6. EventList(db, p, t).status = 200 /\ EventList(db, p, t).body
          = [ListPage(db, "events", seen(p), EventsFiltered(p), p)
               EXCEPT !.items = MapSeq(@, LAMBDA e : EventListItem(db, e))]
    BY Zenon DEF EventList, OkUntil
  <2>7. ListPage(db, "events", seen(p), EventsFiltered(p), p) = PageRecord(list, k, s)
    <3> HIDE DEF matched
    <3> QED
      BY <2>2, <2>4, <2>5, ViewIsTheSame, ListPageIsCut
  <2> HIDE DEF list, seen
  <2>8. MapSeq(Slice(list, k, s), LAMBDA e : EventListItem(db, e))
          = [i \in DOMAIN Slice(list, k, s) |-> shown[Slice(list, k, s)[i]]]
    BY <1>2, PageIsOfTheList DEF MapSeq
  <2> HIDE DEF shown
  <2> QED
    BY <2>1, <2>6, <2>7, <2>8 DEF MadePage, PageRecord
<1> QED
  <2> HIDE DEF list, shown
  <2> QED
    BY <1>2, <1>3

\* The list of musics.
LEMMA MusicPages ==
  ASSUME NEW db, HoldsLists(db), NEW t, NEW q, AsksFor(q, "musics/list")
  PROVE  \E list, shown, sizes :
           /\ IsList(list)
           /\ \A k \in Nat \ {0}, s \in PageSize :
                MadePage(MusicList(db, Asked(q, k, s), t), list, shown, sizes, k, s)
<1> DEFINE all        == ListAll(db, "musics")
           matched(r) == Selected(Visible(all, r, t), LAMBDA e : MusicMatches(db, e, r))
           seen(r)    == Sorted(matched(r), r)
           list       == Listed(db, "musics", seen(q), MusicFiltered(q), q)
           shown      == [e \in Range(list) |-> MusicListItem(db, e)]
<1>1. IsList(Visible(all, q, t))
  <2>1. IsList(all)
    BY StoredIsList
  <2> HIDE DEF all
  <2> QED
    BY <2>1, ViewIsList
<1>2. IsList(matched(q))
  <2> DEFINE visible == Visible(all, q, t)
  <2>1. {i \in DOMAIN visible : MusicMatches(db, visible[i], q)} \in SUBSET DOMAIN visible
    OBVIOUS
  <2> QED
    BY <1>1, <2>1, PickedIsList DEF Selected
<1>3. IsList(list)
  <2> HIDE DEF matched
  <2> QED
    BY <1>2, ViewIsList
<1>4. ASSUME NEW k \in Nat \ {0}, NEW s \in PageSize
      PROVE  MadePage(MusicList(db, Asked(q, k, s), t), list, shown, PageSize, k, s)
  <2>1. PICK p : p = Asked(q, k, s)
    OBVIOUS
  <2>2. /\ p.page = k /\ p.size = s /\ SameView(p, q)
        /\ p.name = q.name /\ p.categories = q.categories /\ p.composers = q.composers
        /\ p.tags = q.tags /\ p.level = q.level /\ p.append = q.append
    BY <2>1, AskedIsTheSame DEF AsksFor, Parameters, Sorting, SameView
  <2>3. \A e : MusicMatches(db, e, p) <=> MusicMatches(db, e, q)
    BY <2>2 DEF MusicMatches, LevelFiltered, LevelMatches
  <2>4. Visible(all, p, t) = Visible(all, q, t)
    BY <2>2, ViewIsTheSame
  <2>5. matched(p) = matched(q)
    BY <2>3, <2>4 DEF Selected
  <2>6. MusicFiltered(p) = MusicFiltered(q)
    BY <2>2 DEF MusicFiltered, LevelFiltered
  <2>7. MusicList(db, p, t).status = 200 /\ MusicList(db, p, t).body
          = [ListPage(db, "musics", seen(p), MusicFiltered(p), p)
               EXCEPT !.items = MapSeq(@, LAMBDA e : MusicListItem(db, e))]
    BY Zenon DEF MusicList, OkUntil
  <2>8. ListPage(db, "musics", seen(p), MusicFiltered(p), p) = PageRecord(list, k, s)
    <3> HIDE DEF matched
    <3> QED
      BY <2>2, <2>5, <2>6, ViewIsTheSame, ListPageIsCut
  <2> HIDE DEF list, seen
  <2>9. MapSeq(Slice(list, k, s), LAMBDA e : MusicListItem(db, e))
          = [i \in DOMAIN Slice(list, k, s) |-> shown[Slice(list, k, s)[i]]]
    BY <1>3, PageIsOfTheList DEF MapSeq
  <2> HIDE DEF shown
  <2> QED
    BY <2>1, <2>7, <2>8, <2>9 DEF MadePage, PageRecord
<1> QED
  <2> HIDE DEF list, shown
  <2> QED
    BY <1>3, <1>4

\* The list of cards.
LEMMA CardPages ==
  ASSUME NEW db, HoldsLists(db), NEW t, NEW q, AsksFor(q, "cards/list")
  PROVE  \E list, shown, sizes :
           /\ IsList(list)
           /\ \A k \in Nat \ {0}, s \in PageSize :
                MadePage(CardList(db, Asked(q, k, s), t), list, shown, sizes, k, s)
<1> DEFINE all        == ProjectionRows(db, "cards", CardProjection)
           matched(r) == Selected(Visible(all, r, t), LAMBDA e : CardMatches(db, e, r))
           seen(r)    == Sorted(matched(r), r)
           list       == Listed(db, "cards", seen(q), CardFiltered(q), q)
           shown      == [e \in Range(list) |-> BuildCardBase(db, e)]
<1>1. IsList(Visible(all, q, t))
  <2>1. IsList(all)
    BY ProjectedIsList
  <2> HIDE DEF all
  <2> QED
    BY <2>1, ViewIsList
<1>2. IsList(matched(q))
  <2> DEFINE visible == Visible(all, q, t)
  <2>1. {i \in DOMAIN visible : CardMatches(db, visible[i], q)} \in SUBSET DOMAIN visible
    OBVIOUS
  <2> QED
    BY <1>1, <2>1, PickedIsList DEF Selected
<1>3. IsList(list)
  <2> HIDE DEF matched
  <2> QED
    BY <1>2, ViewIsList
<1>4. ASSUME NEW k \in Nat \ {0}, NEW s \in PageSize
      PROVE  MadePage(CardList(db, Asked(q, k, s), t), list, shown, PageSize, k, s)
  <2>1. PICK p : p = Asked(q, k, s)
    OBVIOUS
  <2>2. /\ p.page = k /\ p.size = s /\ SameView(p, q)
        /\ p.cutIn = q.cutIn /\ \A f \in CardFilters : p[f] = q[f]
    BY <2>1, AskedIsTheSame DEF AsksFor, Parameters, Sorting, SameView, CardFilters
  <2>3. \A e : CardMatches(db, e, p) <=> CardMatches(db, e, q)
    BY <2>2 DEF CardMatches, CardFilters
  <2>4. Visible(all, p, t) = Visible(all, q, t)
    BY <2>2, ViewIsTheSame
  <2>5. matched(p) = matched(q)
    BY <2>3, <2>4 DEF Selected
  <2>6. CardFiltered(p) = CardFiltered(q)
    BY <2>2 DEF CardFiltered
  <2>7. CardList(db, p, t).status = 200 /\ CardList(db, p, t).body
          = [ListPage(db, "cards", seen(p), CardFiltered(p), p)
               EXCEPT !.items = MapSeq(@, LAMBDA e : BuildCardBase(db, e))]
    BY Zenon DEF CardList, OkUntil
  <2>8. ListPage(db, "cards", seen(p), CardFiltered(p), p) = PageRecord(list, k, s)
    <3> HIDE DEF matched
    <3> QED
      BY <2>2, <2>5, <2>6, ViewIsTheSame, ListPageIsCut
  <2> HIDE DEF list, seen
  <2>9. MapSeq(Slice(list, k, s), LAMBDA e : BuildCardBase(db, e))
          = [i \in DOMAIN Slice(list, k, s) |-> shown[Slice(list, k, s)[i]]]
    BY <1>3, PageIsOfTheList DEF MapSeq
  <2> HIDE DEF shown
  <2> QED
    BY <2>1, <2>7, <2>8, <2>9 DEF MadePage, PageRecord
<1> QED
  <2> HIDE DEF list, shown
  <2> QED
    BY <1>3, <1>4

\* The list of virtual lives.
LEMMA VirtualLivePages ==
  ASSUME NEW db, HoldsLists(db), NEW t, NEW q, AsksFor(q, "virtuallives/list")
  PROVE  \E list, shown, sizes :
           /\ IsList(list)
           /\ \A k \in Nat \ {0}, s \in PageSize :
                MadePage(VirtualLiveList(db, Asked(q, k, s), t), list, shown, sizes, k, s)
<1> DEFINE all        == ListAll(db, "virtuallives")
           matched(r) == Selected(Visible(all, r, t), LAMBDA e : VirtualLiveMatches(e, r))
           seen(r)    == Sorted(matched(r), r)
           list       == Listed(db, "virtuallives", seen(q), VirtualLiveFiltered(q), q)
           shown      == [e \in Range(list) |-> VirtualLiveItem(db, e)]
<1>1. IsList(Visible(all, q, t))
  <2>1. IsList(all)
    BY StoredIsList
  <2> HIDE DEF all
  <2> QED
    BY <2>1, ViewIsList
<1>2. IsList(matched(q))
  <2> DEFINE visible == Visible(all, q, t)
  <2>1. {i \in DOMAIN visible : VirtualLiveMatches(visible[i], q)} \in SUBSET DOMAIN visible
    OBVIOUS
  <2> QED
    BY <1>1, <2>1, PickedIsList DEF Selected
<1>3. IsList(list)
  <2> HIDE DEF matched
  <2> QED
    BY <1>2, ViewIsList
<1>4. ASSUME NEW k \in Nat \ {0}, NEW s \in PageSize
      PROVE  MadePage(VirtualLiveList(db, Asked(q, k, s), t), list, shown, PageSize, k, s)
  <2>1. PICK p : p = Asked(q, k, s)
    OBVIOUS
  <2>2. /\ p.page = k /\ p.size = s /\ SameView(p, q)
        /\ p.name = q.name /\ p.id = q.id /\ p.types = q.types
    BY <2>1, AskedIsTheSame DEF AsksFor, Parameters, Sorting, SameView
  <2>3. \A e : VirtualLiveMatches(e, p) <=> VirtualLiveMatches(e, q)
    BY <2>2 DEF VirtualLiveMatches
  <2>4. Visible(all, p, t) = Visible(all, q, t)
    BY <2>2, ViewIsTheSame
  <2>5. matched(p) = matched(q)
    BY <2>3, <2>4 DEF Selected
  <2>6. VirtualLiveFiltered(p) = VirtualLiveFiltered(q)
    BY <2>2 DEF VirtualLiveFiltered
  <2>7. VirtualLiveList(db, p, t).status = 200 /\ VirtualLiveList(db, p, t).body
          = [ListPage(db, "virtuallives", seen(p), VirtualLiveFiltered(p), p)
               EXCEPT !.items = MapSeq(@, LAMBDA e : VirtualLiveItem(db, e))]
    BY Zenon DEF VirtualLiveList, OkUntil
  <2>8. ListPage(db, "virtuallives", seen(p), VirtualLiveFiltered(p), p) = PageRecord(list, k, s)
    <3> HIDE DEF matched
    <3> QED
      BY <2>2, <2>5, <2>6, ViewIsTheSame, ListPageIsCut
  <2> HIDE DEF list, seen
  <2>9. MapSeq(Slice(list, k, s), LAMBDA e : VirtualLiveItem(db, e))
          = [i \in DOMAIN Slice(list, k, s) |-> shown[Slice(list, k, s)[i]]]
    BY <1>3, PageIsOfTheList DEF MapSeq
  <2> HIDE DEF shown
  <2> QED
    BY <2>1, <2>7, <2>8, <2>9 DEF MadePage, PageRecord
<1> QED
  <2> HIDE DEF list, shown
  <2> QED
    BY <1>3, <1>4

\* The list of gachas, or of those that are open.
LEMMA GachaPages ==
  ASSUME NEW db, HoldsLists(db), NEW t, NEW q, AsksFor(q, "gachas/list")
  PROVE  \E list, shown, sizes :
           /\ IsList(list)
           /\ \A k \in Nat \ {0}, s \in PageSize :
                MadePage(GachaList(db, Asked(q, k, s), t), list, shown, sizes, k, s)
<1> DEFINE rows    == ProjectionRows(db, "gachas", GachaProjection)
           kept(r) == IF r.ongoing THEN Those(Visible(rows, r, t), Ongoing(Visible(rows, r, t), t))
                      ELSE Visible(rows, r, t)
           seen(r) == Sorted(kept(r), r)
           list    == Listed(db, "gachas", seen(q), q.ongoing, q)
           shown   == [e \in Range(list) |-> GachaListItem(e)]
<1>1. IsList(Visible(rows, q, t))
  <2>1. IsList(rows)
    BY ProjectedIsList
  <2> HIDE DEF rows
  <2> QED
    BY <2>1, ViewIsList
<1>2. IsList(kept(q))
  <2> HIDE DEF rows
  <2> QED
    BY <1>1, ThoseIsList
<1>3. IsList(list)
  <2> HIDE DEF kept
  <2> QED
    BY <1>2, ViewIsList
<1>4. ASSUME NEW k \in Nat \ {0}, NEW s \in PageSize
      PROVE  MadePage(GachaList(db, Asked(q, k, s), t), list, shown, PageSize, k, s)
  <2>1. PICK p : p = Asked(q, k, s)
    OBVIOUS
  <2>2. /\ p.page = k /\ p.size = s /\ SameView(p, q)
        /\ p.ongoing = q.ongoing
    BY <2>1, AskedIsTheSame DEF AsksFor, Parameters, Sorting, SameView
  <2>3. Visible(rows, p, t) = Visible(rows, q, t)
    BY <2>2, ViewIsTheSame
  <2>4. kept(p) = kept(q)
    <3> HIDE DEF rows
    <3> QED
      BY <2>2, <2>3
  <2>5. GachaList(db, p, t).status = 200 /\ GachaList(db, p, t).body
          = [ListPage(db, "gachas", seen(p), p.ongoing, p) EXCEPT !.items = MapSeq(@, GachaListItem)]
    BY Zenon DEF GachaList, OkUntil
  <2>6. ListPage(db, "gachas", seen(p), p.ongoing, p) = PageRecord(list, k, s)
    <3> HIDE DEF kept
    <3> QED
      BY <2>2, <2>4, ViewIsTheSame, ListPageIsCut
  <2> HIDE DEF list, seen
  <2>7. MapSeq(Slice(list, k, s), GachaListItem)
          = [i \in DOMAIN Slice(list, k, s) |-> shown[Slice(list, k, s)[i]]]
    BY <1>3, PageIsOfTheList DEF MapSeq
  <2> HIDE DEF shown
  <2> QED
    BY <2>1, <2>5, <2>6, <2>7 DEF MadePage, PageRecord
<1> QED
  <2> HIDE DEF list, shown
  <2> QED
    BY <1>3, <1>4

\* The list of a lookup entity.
LEMMA LookupPages ==
  ASSUME NEW db, HoldsLists(db), NEW t, NEW q, AsksFor(q, "lookups/list")
  PROVE  \E list, shown, sizes :
           /\ IsList(list)
           /\ \A k \in Nat \ {0}, s \in PageSize :
                MadePage(LookupList(db, Asked(q, k, s), t), list, shown, sizes, k, s)
<1> DEFINE all     == ListAll(db, q.entity)
           seen(r) == FilterRecordsByNumbers(Sorted(Visible(all, r, t), r), r.numbers)
           list    == Listed(db, q.entity, seen(q), DOMAIN q.numbers # {}, q)
           shown   == [e \in Range(list) |-> IF q.entity \in WithConditions THEN WithReleaseCondition(db, e) ELSE e]
<1>1. IsList(seen(q))
  <2> DEFINE sorted == Sorted(Visible(all, q, t), q)
  <2>1. IsList(all)
    BY StoredIsList
  <2> HIDE DEF all
  <2>2. IsList(sorted)
    BY <2>1, ViewIsList
  <2> HIDE DEF sorted
  <2>3. {i \in DOMAIN sorted : \A f \in DOMAIN q.numbers : Get(sorted[i], f) \in q.numbers[f]} \in SUBSET DOMAIN sorted
    OBVIOUS
  <2>4. IsList(FilterRecordsByNumbers(sorted, q.numbers))
    BY <2>2, <2>3, PickedIsList DEF FilterRecordsByNumbers, Selected
  <2> QED
    BY <2>4 DEF sorted
<1>2. IsList(list)
  <2> HIDE DEF seen
  <2> QED
    BY <1>1, ViewIsList
<1>3. ASSUME NEW k \in Nat \ {0}, NEW s \in PageSize
      PROVE  MadePage(LookupList(db, Asked(q, k, s), t), list, shown, PageSize, k, s)
  <2>1. PICK p : p = Asked(q, k, s)
    OBVIOUS
  <2>2. /\ p.page = k /\ p.size = s /\ SameView(p, q)
        /\ p.entity = q.entity /\ p.numbers = q.numbers
    BY <2>1, AskedIsTheSame DEF AsksFor, Parameters, Sorting, SameView
  <2>3. seen(p) = seen(q)
    <3>1. Visible(all, p, t) = Visible(all, q, t)
      BY <2>2, ViewIsTheSame
    <3>2. \A items : Sorted(items, p) = Sorted(items, q)
      BY <2>2, ViewIsTheSame
    <3> HIDE DEF all
    <3> QED
      BY <2>2, <3>1, <3>2
  <2>4. ~(p.size > MaxPageSize)
    BY <1>2, <2>2, PageIsOfTheList
  <2>5. LookupList(db, p, t).status = 200 /\ LookupList(db, p, t).body
          = [ListPage(db, p.entity, FilterRecordsByNumbers(Sorted(Visible(ListAll(db, p.entity), p, t), p), p.numbers),
                      DOMAIN p.numbers # {}, p)
               EXCEPT !.items = Expanded(db, p.entity, @)]
    BY <2>4, Zenon DEF LookupList, OkUntil
  <2>6. ListPage(db, q.entity, seen(p), DOMAIN p.numbers # {}, p) = PageRecord(list, k, s)
    <3> HIDE DEF seen
    <3> QED
      BY <2>2, <2>3, ViewIsTheSame, ListPageIsCut
  <2>7. LookupList(db, p, t).status = 200 /\ LookupList(db, p, t).body
          = [PageRecord(list, k, s) EXCEPT !.items = Expanded(db, q.entity, @)]
    <3> HIDE DEF list
    <3> QED
      BY <2>2, <2>5, <2>6
  <2> HIDE DEF list, seen
  <2>8. IsList(Slice(list, k, s)) /\ \A i \in DOMAIN Slice(list, k, s) : Slice(list, k, s)[i] \in Range(list)
    BY <1>2, PageIsOfTheList, PageIsMapped
  <2>9. Expanded(db, q.entity, Slice(list, k, s))
          = [i \in DOMAIN Slice(list, k, s) |-> shown[Slice(list, k, s)[i]]]
    <3>1. CASE q.entity \in WithConditions
      BY <2>8, <3>1 DEF Expanded, MapSeq
    <3>2. CASE q.entity \notin WithConditions
      <4>1. Slice(list, k, s) = [i \in DOMAIN Slice(list, k, s) |-> Slice(list, k, s)[i]]
        BY <2>8, ListIsNumbered
      <4>2. \A i \in DOMAIN Slice(list, k, s) : shown[Slice(list, k, s)[i]] = Slice(list, k, s)[i]
        BY <2>8, <3>2
      <4> QED
        BY <3>2, <4>1, <4>2 DEF Expanded
    <3> QED
      BY <3>1, <3>2
  <2> HIDE DEF shown
  <2> QED
    BY <2>1, <2>7, <2>9 DEF MadePage, PageRecord
<1> QED
  <2> HIDE DEF list, shown
  <2> QED
    BY <1>2, <1>3

\* The first of the records of an id are a list, and so are the records a
\* query finds.
LEMMA FirstOfEachIsList == ASSUME NEW rows, IsList(rows) PROVE IsList(FirstOfEachID(rows))
<1>1. {i \in DOMAIN rows :
        /\ "id" \in DOMAIN rows[i]
        /\ \A j \in 1..(i - 1) : Field(rows[j], "id") # rows[i].id} \in SUBSET DOMAIN rows
  OBVIOUS
<1> QED
  BY <1>1, PickedIsList DEF FirstOfEachID

LEMMA IndexedIsList ==
  ASSUME NEW db, HoldsLists(db), NEW entity, NEW field, NEW value
  PROVE  IsList(ListByIndex(db, entity, field, value))
<1> DEFINE all == ListAll(db, entity)
<1>1. {i \in DOMAIN all : value # None /\ Get(all[i], field) = value} \in SUBSET DOMAIN all
  OBVIOUS
<1> QED
  BY <1>1, StoredIsList, PickedIsList DEF ListByIndex, Selected

\* The stamps that are shown are a list, and so are those of some sources.
LEMMA StampItemsIsList ==
  ASSUME NEW db, HoldsLists(db), NEW spoiler, NEW t
  PROVE  IsList(StampItems(db, spoiler, t))
<1> DEFINE rows  == FirstRows(db, "stamps", StampFields)
           shown == IF spoiler THEN rows ELSE Those(rows, Range(rows) \ HiddenStamps(rows, t))
<1>1. IsList(shown)
  <2>1. IsList(rows)
    BY ProjectedIsList
  <2> HIDE DEF rows
  <2> QED
    BY <2>1, ThoseIsList
<1>2. PICK n \in Nat : DOMAIN shown = 1..n
  BY <1>1, ListIsNumbered
<1>3. StampItems(db, spoiler, t) = MapSeq(shown, LAMBDA r : StampItem(db, r))
  BY Zenon DEF StampItems
<1> HIDE DEF shown
<1>4. \A x : x = StampItems(db, spoiler, t) => x = [i \in 1..n |-> x[i]]
  BY <1>2, <1>3 DEF MapSeq
<1> QED
  BY <1>4, NumberedIsList

LEMMA FilteredBySourceIsList ==
  ASSUME NEW items, IsList(items), NEW db, NEW sources
  PROVE  IsList(FilterStampItemsBySource(db, items, sources))
<1>1. {i \in DOMAIN items : StampComesFrom(StampPurposes(db, items[i].id), sources)} \in SUBSET DOMAIN items
  OBVIOUS
<1> QED
  BY <1>1, PickedIsList DEF FilterStampItemsBySource, Selected

\* The list of stamps.
LEMMA StampPages ==
  ASSUME NEW db, HoldsLists(db), NEW t, NEW q, AsksFor(q, "stamps/list")
  PROVE  \E list, shown, sizes :
           /\ IsList(list)
           /\ \A k \in Nat \ {0}, s \in PageSize :
                MadePage(StampsList(db, Asked(q, k, s), t), list, shown, sizes, k, s)
<1> DEFINE items(r)   == StampItems(db, r.spoiler, t)
           matched(r) == Selected(items(r), LAMBDA item : StampMatches(item, r))
           sourced(r) == FilterStampItemsBySource(db, matched(r), r.sources)
           list(r)    == TypedSorted(sourced(r), r)
           shown      == [x \in Range(list(q)) |-> x]
<1>1. IsList(list(q))
  <2>1. {i \in DOMAIN items(q) : StampMatches(items(q)[i], q)} \in SUBSET DOMAIN items(q)
    OBVIOUS
  <2>2. IsList(items(q))
    BY StampItemsIsList
  <2>3. IsList(matched(q))
    BY <2>1, <2>2, PickedIsList DEF Selected
  <2> HIDE DEF matched
  <2>4. IsList(sourced(q))
    BY <2>3, FilteredBySourceIsList
  <2> HIDE DEF sourced
  <2> QED
    BY <2>4, ViewIsList
<1>2. ASSUME NEW k \in Nat \ {0}, NEW s \in PageSize
      PROVE  MadePage(StampsList(db, Asked(q, k, s), t), list(q), shown, PageSize, k, s)
  <2>1. PICK p : p = Asked(q, k, s)
    OBVIOUS
  <2>2. /\ p.page = k /\ p.size = s /\ SameView(p, q)
        /\ p.categories = q.categories /\ p.characters = q.characters /\ p.name = q.name
        /\ p.sources = q.sources
    BY <2>1, AskedIsTheSame DEF AsksFor, Parameters, Sorting, SameView
  <2>3. ~(p.size > MaxPageSize)
    BY <1>1, <2>2, PageIsOfTheList
  <2>4. list(p) = list(q)
    <3>1. \A item : StampMatches(item, p) <=> StampMatches(item, q)
      BY <2>2 DEF StampMatches
    <3>2. items(p) = items(q)
      BY <2>2 DEF SameView
    <3> HIDE DEF items
    <3>3. matched(p) = matched(q)
      BY <3>1, <3>2 DEF Selected
    <3> HIDE DEF matched
    <3>4. sourced(p) = sourced(q)
      BY <2>2, <3>3
    <3> HIDE DEF sourced
    <3> QED
      BY <2>2, <3>4, ViewIsTheSame
  <2>5. /\ StampsList(db, p, t).status = 200
        /\ StampsList(db, p, t).body
             = [items |-> MapSeq(Slice(list(p), p.page, p.size), LAMBDA x : x), pagination |-> PaginationOf(p.page, p.size, Len(list(p)))]
    BY <2>3, Zenon DEF StampsList, TypedPage, Ok, Fail
  <2> HIDE DEF list
  <2>6. MapSeq(Slice(list(q), k, s), LAMBDA x : x)
          = [i \in DOMAIN Slice(list(q), k, s) |-> shown[Slice(list(q), k, s)[i]]]
    BY <1>1, PageIsOfTheList DEF MapSeq
  <2> HIDE DEF shown
  <2> QED
    BY <2>1, <2>2, <2>4, <2>5, <2>6 DEF MadePage
<1> QED
  <2> HIDE DEF list, shown
  <2> QED
    BY <1>1, <1>2

\* The music records are a list.
LEMMA MusicRecordsIsList ==
  ASSUME NEW db, HoldsLists(db), NEW songs
  PROVE  IsList(RecordsOfSongs(db, songs))
<1> DEFINE With(r)  ==
             CASE Get(r, "mysekaiMusicTrackType") = "music" ->
                    Only("music", PickOrNull(RowOf(songs, Get(r, "externalId")), {"id", "title"}))
               [] Get(r, "mysekaiMusicTrackType") = "music_sound_track" ->
                    Only("soundTrack", RowOf(FirstRows(db, "musicsoundtracks", TrackFields), Get(r, "externalId")))
               [] OTHER -> <<>>
           rows    == ProjectionRows(db, "mysekaimusicrecords", RecordFields)
           records == MapSeq(rows, LAMBDA r : Merge(r, With(r)))
           named   == Selected(records, LAMBDA r : "id" \in DOMAIN r /\ DOMAIN r \cap {"music", "soundTrack"} # {})
<1>1. RecordsOfSongs(db, songs) = FirstOfEachID(named)
  BY Zenon DEF RecordsOfSongs
<1>2. IsList(records)
  <2>1. PICK n \in Nat : DOMAIN rows = 1..n
    BY ProjectedIsList, ListIsNumbered
  <2> HIDE DEF rows, With
  <2>2. \A x : x = records => x = [i \in 1..n |-> x[i]]
    BY <2>1 DEF MapSeq
  <2> QED
    BY <2>2, NumberedIsList
<1>3. IsList(named)
  <2> HIDE DEF records
  <2>1. {i \in DOMAIN records : "id" \in DOMAIN records[i] /\ DOMAIN records[i] \cap {"music", "soundTrack"} # {}}
          \in SUBSET DOMAIN records
    OBVIOUS
  <2> QED
    BY <1>2, <2>1, PickedIsList DEF Selected
<1> HIDE DEF named
<1> QED
  BY <1>1, <1>3, FirstOfEachIsList

\* The list of music records.
LEMMA MusicRecordPages ==
  ASSUME NEW db, HoldsLists(db), NEW t, NEW q, AsksFor(q, "musicrecords/list")
  PROVE  \E list, shown, sizes :
           /\ IsList(list)
           /\ \A k \in Nat \ {0}, s \in PageSize :
                MadePage(MusicRecordsList(db, Asked(q, k, s), t), list, shown, sizes, k, s)
<1> DEFINE records(r) == MysekaiMusicRecords(db, r.spoiler, t)
           list(r)    == Selected(records(r), LAMBDA x : MusicRecordMatches(x, r))
           shown      == [x \in Range(list(q)) |-> x]
<1>1. IsList(list(q))
  <2>1. {i \in DOMAIN records(q) : MusicRecordMatches(records(q)[i], q)} \in SUBSET DOMAIN records(q)
    OBVIOUS
  <2>2. IsList(records(q))
    BY MusicRecordsIsList DEF MysekaiMusicRecords
  <2> QED
    BY <2>1, <2>2, PickedIsList DEF Selected
<1>2. ASSUME NEW k \in Nat \ {0}, NEW s \in PageSize
      PROVE  MadePage(MusicRecordsList(db, Asked(q, k, s), t), list(q), shown, PageSize, k, s)
  <2>1. PICK p : p = Asked(q, k, s)
    OBVIOUS
  <2>2. /\ p.page = k /\ p.size = s
        /\ p.spoiler = q.spoiler /\ p.types = q.types
        /\ p.trackCategories = q.trackCategories /\ p.name = q.name
    BY <2>1, AskedIsTheSame DEF AsksFor, Parameters, Sorting, SameView
  <2>3. ~(p.size > MaxPageSize)
    BY <1>1, <2>2, PageIsOfTheList
  <2>4. list(p) = list(q)
    <3>1. \A x : MusicRecordMatches(x, p) <=> MusicRecordMatches(x, q)
      BY <2>2 DEF MusicRecordMatches
    <3>2. records(p) = records(q)
      BY <2>2
    <3> HIDE DEF records
    <3> QED
      BY <3>1, <3>2 DEF Selected
  <2>5. /\ MusicRecordsList(db, p, t).status = 200
        /\ MusicRecordsList(db, p, t).body
             = [items |-> MapSeq(Slice(list(p), p.page, p.size), LAMBDA x : x), pagination |-> PaginationOf(p.page, p.size, Len(list(p)))]
    BY <2>3, Zenon DEF MusicRecordsList, TypedPage, Ok, Fail
  <2> HIDE DEF list
  <2>6. MapSeq(Slice(list(q), k, s), LAMBDA x : x)
          = [i \in DOMAIN Slice(list(q), k, s) |-> shown[Slice(list(q), k, s)[i]]]
    BY <1>1, PageIsOfTheList DEF MapSeq
  <2> HIDE DEF shown
  <2> QED
    BY <2>1, <2>2, <2>4, <2>5, <2>6 DEF MadePage
<1> QED
  <2> HIDE DEF list, shown
  <2> QED
    BY <1>1, <1>2

\* The fixtures, the costumes, the projected rows of some types and the groups
\* of honors are lists.
LEMMA FixtureItemsIsList ==
  ASSUME NEW db, HoldsLists(db)
  PROVE  IsList(FixtureItems(db))
<1>1. PICK n \in Nat : DOMAIN FirstRows(db, "mysekaifixtures", FixtureFields) = 1..n
  BY ProjectedIsList, ListIsNumbered
<1>2. \A x : x = FixtureItems(db) => x = [i \in 1..n |-> x[i]]
  BY <1>1 DEF FixtureItems, MapSeq
<1> QED
  BY <1>2, NumberedIsList

LEMMA CostumeRowsIsList ==
  ASSUME NEW db, HoldsLists(db)
  PROVE  IsList(Costume3DRows(db))
<1>1. PICK n \in Nat : DOMAIN FirstRows(db, "costume3ds", CostumeProjection) = 1..n
  BY ProjectedIsList, ListIsNumbered
<1>2. \A x : x = Costume3DRows(db) => x = [i \in 1..n |-> x[i]]
  BY <1>1 DEF Costume3DRows, MapSeq
<1> QED
  BY <1>2, NumberedIsList

LEMMA RowsByTypeIsList ==
  ASSUME NEW db, HoldsLists(db), NEW entity, NEW fields, NEW type, NEW types
  PROVE  IsList(ProjectionRowsByType(db, entity, fields, type, types))
<1> DEFINE rows == FirstRows(db, entity, fields)
<1>1. {i \in DOMAIN rows : types = {} \/ Get(rows[i], type) \in types} \in SUBSET DOMAIN rows
  OBVIOUS
<1> QED
  BY <1>1, ProjectedIsList, PickedIsList DEF ProjectionRowsByType, Selected

LEMMA HonorGroupsIsList ==
  ASSUME NEW db, HoldsLists(db)
  PROVE  IsList(HonorGroups(db))
<1> DEFINE all  == ListAll(db, "honorgroups")
           full == Selected(all, LAMBDA g : ListByIndex(db, "honors", "groupId", g.id) # <<>>)
<1>1. IsList(full)
  <2>1. {i \in DOMAIN all : ListByIndex(db, "honors", "groupId", all[i].id) # <<>>} \in SUBSET DOMAIN all
    OBVIOUS
  <2> QED
    BY <2>1, StoredIsList, PickedIsList DEF Selected
<1>2. PICK n \in Nat : DOMAIN full = 1..n
  BY <1>1, ListIsNumbered
<1>3. \A x : x = HonorGroups(db) => DOMAIN x = DOMAIN full /\ x = [i \in DOMAIN full |-> x[i]]
  BY Zenon DEF HonorGroups, MapSeq
<1> HIDE DEF full
<1>4. \A x : x = HonorGroups(db) => x = [i \in 1..n |-> x[i]]
  BY <1>2, <1>3
<1> QED
  BY <1>4, NumberedIsList

\* The list of fixtures.
LEMMA FixturePages ==
  ASSUME NEW db, HoldsLists(db), NEW t, NEW q, AsksFor(q, "fixtures/list")
  PROVE  \E list, shown, sizes :
           /\ IsList(list)
           /\ \A k \in Nat \ {0}, s \in PageSize :
                MadePage(FixturesList(db, Asked(q, k, s)), list, shown, sizes, k, s)
<1> DEFINE items      == FixtureItems(db)
           matched(r) == Selected(items, LAMBDA item : FixtureMatches(item, r))
           list(r)    == TypedSorted(matched(r), r)
           shown      == [x \in Range(list(q)) |-> x]
<1>1. IsList(list(q))
  <2>1. {i \in DOMAIN items : FixtureMatches(items[i], q)} \in SUBSET DOMAIN items
    OBVIOUS
  <2>2. IsList(matched(q))
    BY <2>1, FixtureItemsIsList, PickedIsList DEF Selected
  <2> HIDE DEF matched
  <2> QED
    BY <2>2, ViewIsList
<1>2. ASSUME NEW k \in Nat \ {0}, NEW s \in PageSize
      PROVE  MadePage(FixturesList(db, Asked(q, k, s)), list(q), shown, PageSize, k, s)
  <2>1. PICK p : p = Asked(q, k, s)
    OBVIOUS
  <2>2. /\ p.page = k /\ p.size = s
        /\ p.sort = q.sort /\ p.descending = q.descending /\ p.tagIds = q.tagIds
        /\ p.mainGenres = q.mainGenres /\ p.subGenres = q.subGenres /\ p.name = q.name
    BY <2>1, AskedIsTheSame DEF AsksFor, Parameters, Sorting, SameView
  <2>3. ~(p.size > MaxPageSize)
    BY <1>1, <2>2, PageIsOfTheList
  <2>4. list(p) = list(q)
    <3>1. \A item : FixtureMatches(item, p) <=> FixtureMatches(item, q)
      BY <2>2 DEF FixtureMatches
    <3>2. matched(p) = matched(q)
      BY <3>1 DEF Selected
    <3> HIDE DEF matched
    <3> QED
      BY <2>2, <3>2 DEF TypedSorted
  <2>5. /\ FixturesList(db, p).status = 200
        /\ FixturesList(db, p).body
             = [items |-> MapSeq(Slice(list(p), p.page, p.size), LAMBDA x : x), pagination |-> PaginationOf(p.page, p.size, Len(list(p)))]
    BY <2>3, Zenon DEF FixturesList, TypedPage, Ok, Fail
  <2> HIDE DEF list
  <2>6. MapSeq(Slice(list(q), k, s), LAMBDA x : x)
          = [i \in DOMAIN Slice(list(q), k, s) |-> shown[Slice(list(q), k, s)[i]]]
    BY <1>1, PageIsOfTheList DEF MapSeq
  <2> HIDE DEF shown
  <2> QED
    BY <2>1, <2>2, <2>4, <2>5, <2>6 DEF MadePage
<1> QED
  <2> HIDE DEF list, shown
  <2> QED
    BY <1>1, <1>2

\* The list of costumes.
LEMMA CostumePages ==
  ASSUME NEW db, HoldsLists(db), NEW t, NEW q, AsksFor(q, "costumes/list")
  PROVE  \E list, shown, sizes :
           /\ IsList(list)
           /\ \A k \in Nat \ {0}, s \in PageSize :
                MadePage(Costume3DsList(db, Asked(q, k, s)), list, shown, sizes, k, s)
<1> DEFINE rows(r)    == FilterRecordsByNumbers(Costume3DRows(db), r.numbers)
           matched(r) == Selected(rows(r), LAMBDA x : r.name = {} \/ Get(x, "name") \in r.name)
           list(r)    == Sorted(matched(r), r)
           shown      == [x \in Range(list(q)) |-> x]
<1>1. IsList(list(q))
  <2> DEFINE all == Costume3DRows(db)
  <2>1. {i \in DOMAIN all : \A f \in DOMAIN q.numbers : Get(all[i], f) \in q.numbers[f]} \in SUBSET DOMAIN all
    OBVIOUS
  <2>2. IsList(rows(q))
    BY <2>1, CostumeRowsIsList, PickedIsList DEF FilterRecordsByNumbers, Selected
  <2> HIDE DEF rows
  <2>3. {i \in DOMAIN rows(q) : q.name = {} \/ Get(rows(q)[i], "name") \in q.name} \in SUBSET DOMAIN rows(q)
    OBVIOUS
  <2>4. IsList(matched(q))
    BY <2>2, <2>3, PickedIsList DEF Selected
  <2> HIDE DEF matched
  <2> QED
    BY <2>4, ViewIsList
<1>2. ASSUME NEW k \in Nat \ {0}, NEW s \in PageSize
      PROVE  MadePage(Costume3DsList(db, Asked(q, k, s)), list(q), shown, PageSize, k, s)
  <2>1. PICK p : p = Asked(q, k, s)
    OBVIOUS
  <2>2. /\ p.page = k /\ p.size = s
        /\ p.sort = q.sort /\ p.descending = q.descending /\ p.numbers = q.numbers
        /\ p.name = q.name
    BY <2>1, AskedIsTheSame DEF AsksFor, Parameters, Sorting, SameView
  <2>3. ~(p.size > MaxPageSize)
    BY <1>1, <2>2, PageIsOfTheList
  <2>4. list(p) = list(q)
    <3>1. matched(p) = matched(q)
      BY <2>2 DEF Selected
    <3> HIDE DEF matched
    <3> QED
      BY <2>2, <3>1 DEF Sorted
  <2>5. /\ Costume3DsList(db, p).status = 200
        /\ Costume3DsList(db, p).body
             = [items |-> MapSeq(Slice(list(p), p.page, p.size), LAMBDA x : x), pagination |-> PaginationOf(p.page, p.size, Len(list(p)))]
    BY <2>3, Zenon DEF Costume3DsList, TypedPage, Ok, Fail
  <2> HIDE DEF list
  <2>6. MapSeq(Slice(list(q), k, s), LAMBDA x : x)
          = [i \in DOMAIN Slice(list(q), k, s) |-> shown[Slice(list(q), k, s)[i]]]
    BY <1>1, PageIsOfTheList DEF MapSeq
  <2> HIDE DEF shown
  <2> QED
    BY <2>1, <2>2, <2>4, <2>5, <2>6 DEF MadePage
<1> QED
  <2> HIDE DEF list, shown
  <2> QED
    BY <1>1, <1>2

\* The list of materials.
LEMMA MaterialPages ==
  ASSUME NEW db, HoldsLists(db), NEW t, NEW q, AsksFor(q, "materials/list")
  PROVE  \E list, shown, sizes :
           /\ IsList(list)
           /\ \A k \in Nat \ {0}, s \in PageSize :
                MadePage(MaterialsList(db, Asked(q, k, s)), list, shown, sizes, k, s)
<1> DEFINE list(r) == ProjectionRowsByType(db, "mysekaimaterials", MaterialFields, "mysekaiMaterialType", r.types)
           shown   == [x \in Range(list(q)) |-> Material(db, x)]
<1>1. IsList(list(q))
  BY RowsByTypeIsList
<1>2. ASSUME NEW k \in Nat \ {0}, NEW s \in PageSize
      PROVE  MadePage(MaterialsList(db, Asked(q, k, s)), list(q), shown, PageSize, k, s)
  <2>1. PICK p : p = Asked(q, k, s)
    OBVIOUS
  <2>2. /\ p.page = k /\ p.size = s
        /\ p.types = q.types
    BY <2>1, AskedIsTheSame DEF AsksFor, Parameters, Sorting, SameView
  <2>3. ~(p.size > MaxPageSize)
    BY <1>1, <2>2, PageIsOfTheList
  <2>4. list(p) = list(q)
    BY <2>2
  <2>5. /\ MaterialsList(db, p).status = 200
        /\ MaterialsList(db, p).body
             = [items |-> MapSeq(Slice(list(p), p.page, p.size), LAMBDA x : Material(db, x)), pagination |-> PaginationOf(p.page, p.size, Len(list(p)))]
    BY <2>3, Zenon DEF MaterialsList, TypedPage, Ok, Fail
  <2> HIDE DEF list
  <2>6. MapSeq(Slice(list(q), k, s), LAMBDA x : Material(db, x))
          = [i \in DOMAIN Slice(list(q), k, s) |-> shown[Slice(list(q), k, s)[i]]]
    BY <1>1, PageIsOfTheList DEF MapSeq
  <2> HIDE DEF shown
  <2> QED
    BY <2>1, <2>2, <2>4, <2>5, <2>6 DEF MadePage
<1> QED
  <2> HIDE DEF list, shown
  <2> QED
    BY <1>1, <1>2

\* The list of shops.
LEMMA ShopPages ==
  ASSUME NEW db, HoldsLists(db), NEW t, NEW q, AsksFor(q, "shops/list")
  PROVE  \E list, shown, sizes :
           /\ IsList(list)
           /\ \A k \in Nat \ {0}, s \in PageSize :
                MadePage(ShopsList(db, Asked(q, k, s)), list, shown, sizes, k, s)
<1> DEFINE list(r) == ProjectionRowsByType(db, "mysekaishops", ShopFields, "mysekaiShopType", r.types)
           shown   == [x \in Range(list(q)) |-> ShopItem(db, x)]
<1>1. IsList(list(q))
  BY RowsByTypeIsList
<1>2. ASSUME NEW k \in Nat \ {0}, NEW s \in PageSize
      PROVE  MadePage(ShopsList(db, Asked(q, k, s)), list(q), shown, PageSize, k, s)
  <2>1. PICK p : p = Asked(q, k, s)
    OBVIOUS
  <2>2. /\ p.page = k /\ p.size = s
        /\ p.types = q.types
    BY <2>1, AskedIsTheSame DEF AsksFor, Parameters, Sorting, SameView
  <2>3. ~(p.size > MaxPageSize)
    BY <1>1, <2>2, PageIsOfTheList
  <2>4. list(p) = list(q)
    BY <2>2
  <2>5. /\ ShopsList(db, p).status = 200
        /\ ShopsList(db, p).body
             = [items |-> MapSeq(Slice(list(p), p.page, p.size), LAMBDA x : ShopItem(db, x)), pagination |-> PaginationOf(p.page, p.size, Len(list(p)))]
    BY <2>3, Zenon DEF ShopsList, TypedPage, Ok, Fail
  <2> HIDE DEF list
  <2>6. MapSeq(Slice(list(q), k, s), LAMBDA x : ShopItem(db, x))
          = [i \in DOMAIN Slice(list(q), k, s) |-> shown[Slice(list(q), k, s)[i]]]
    BY <1>1, PageIsOfTheList DEF MapSeq
  <2> HIDE DEF shown
  <2> QED
    BY <2>1, <2>2, <2>4, <2>5, <2>6 DEF MadePage
<1> QED
  <2> HIDE DEF list, shown
  <2> QED
    BY <1>1, <1>2

\* The list of comics.
LEMMA ComicPages ==
  ASSUME NEW db, HoldsLists(db), NEW t, NEW q, AsksFor(q, "lookups/comics")
  PROVE  \E list, shown, sizes :
           /\ IsList(list)
           /\ \A k \in Nat \ {0}, s \in PageSize :
                MadePage(ComicsList(db, Asked(q, k, s)), list, shown, sizes, k, s)
<1> DEFINE comics  == Selected(ProjectionRows(db, "tips", ComicProjection), IsComic)
           list(r) == StableSort(comics, LAMBDA a, b : a.id < b.id)
           shown   == [x \in Range(list(q)) |-> ProjectComic(x)]
<1>1. IsList(list(q))
  <2> DEFINE rows == ProjectionRows(db, "tips", ComicProjection)
  <2>1. {i \in DOMAIN rows : IsComic(rows[i])} \in SUBSET DOMAIN rows
    OBVIOUS
  <2>2. IsList(comics)
    BY <2>1, ProjectedIsList, PickedIsList DEF Selected
  <2> HIDE DEF comics
  <2>3. PICK n \in Nat : DOMAIN comics = 1..n
    BY <2>2, ListIsNumbered
  <2>4. \A x : x = list(q) => x = [i \in 1..n |-> x[i]]
    BY <2>3 DEF StableSort
  <2> HIDE DEF list
  <2> QED
    BY <2>4, NumberedIsList
<1>2. ASSUME NEW k \in Nat \ {0}, NEW s \in PageSize
      PROVE  MadePage(ComicsList(db, Asked(q, k, s)), list(q), shown, PageSize, k, s)
  <2>1. PICK p : p = Asked(q, k, s)
    OBVIOUS
  <2>2. p.page = k /\ p.size = s
    BY <2>1, AskedIsTheSame DEF AsksFor, Parameters, Sorting, SameView
  <2>3. ~(p.size > MaxPageSize)
    BY <1>1, <2>2, PageIsOfTheList
  <2>4. list(p) = list(q)
    OBVIOUS
  <2>5. /\ ComicsList(db, p).status = 200
        /\ ComicsList(db, p).body
             = [items |-> MapSeq(Slice(list(p), p.page, p.size), ProjectComic), pagination |-> PaginationOf(p.page, p.size, Len(list(p)))]
    BY <2>3, Zenon DEF ComicsList, TypedPage, Ok, Fail
  <2> HIDE DEF list
  <2>6. MapSeq(Slice(list(q), k, s), ProjectComic)
          = [i \in DOMAIN Slice(list(q), k, s) |-> shown[Slice(list(q), k, s)[i]]]
    BY <1>1, PageIsOfTheList DEF MapSeq
  <2> HIDE DEF shown
  <2> QED
    BY <2>1, <2>2, <2>4, <2>5, <2>6 DEF MadePage
<1> QED
  <2> HIDE DEF list, shown
  <2> QED
    BY <1>1, <1>2

\* The list of photo decorations.
LEMMA PhotoPages ==
  ASSUME NEW db, HoldsLists(db), NEW t, NEW q, AsksFor(q, "lookups/photos")
  PROVE  \E list, shown, sizes :
           /\ IsList(list)
           /\ \A k \in Nat \ {0}, s \in PageSize :
                MadePage(PhotoDecorationsList(db, Asked(q, k, s)), list, shown, sizes, k, s)
<1> DEFINE list(r) == ListAll(db, "mysekaiphotodecorations")
           shown   == [x \in Range(list(q)) |-> PhotoDecoration(x)]
<1>1. IsList(list(q))
  BY StoredIsList
<1>2. ASSUME NEW k \in Nat \ {0}, NEW s \in PageSize
      PROVE  MadePage(PhotoDecorationsList(db, Asked(q, k, s)), list(q), shown, PageSize, k, s)
  <2>1. PICK p : p = Asked(q, k, s)
    OBVIOUS
  <2>2. p.page = k /\ p.size = s
    BY <2>1, AskedIsTheSame DEF AsksFor, Parameters, Sorting, SameView
  <2>3. ~(p.size > MaxPageSize)
    BY <1>1, <2>2, PageIsOfTheList
  <2>4. list(p) = list(q)
    OBVIOUS
  <2>5. /\ PhotoDecorationsList(db, p).status = 200
        /\ PhotoDecorationsList(db, p).body
             = [items |-> MapSeq(Slice(list(p), p.page, p.size), PhotoDecoration), pagination |-> PaginationOf(p.page, p.size, Len(list(p)))]
    BY <2>3, Zenon DEF PhotoDecorationsList, TypedPage, Ok, Fail
  <2> HIDE DEF list
  <2>6. MapSeq(Slice(list(q), k, s), PhotoDecoration)
          = [i \in DOMAIN Slice(list(q), k, s) |-> shown[Slice(list(q), k, s)[i]]]
    BY <1>1, PageIsOfTheList DEF MapSeq
  <2> HIDE DEF shown
  <2> QED
    BY <2>1, <2>2, <2>4, <2>5, <2>6 DEF MadePage
<1> QED
  <2> HIDE DEF list, shown
  <2> QED
    BY <1>1, <1>2

\* A page of items that are shown as they are.
LEMMA PlainPage ==
  ASSUME NEW list, IsList(list), NEW k \in Nat \ {0}, NEW s \in PageSize
  PROVE  Slice(list, k, s)
           = [i \in DOMAIN Slice(list, k, s) |-> [x \in Range(list) |-> x][Slice(list, k, s)[i]]]
<1>1. /\ IsList(Slice(list, k, s))
      /\ \A i \in DOMAIN Slice(list, k, s) : Slice(list, k, s)[i] \in Range(list)
  BY PageIsOfTheList, PageIsMapped
<1>2. Slice(list, k, s) = [i \in DOMAIN Slice(list, k, s) |-> Slice(list, k, s)[i]]
  BY <1>1, ListIsNumbered
<1>3. \A i \in DOMAIN Slice(list, k, s) : [x \in Range(list) |-> x][Slice(list, k, s)[i]] = Slice(list, k, s)[i]
  BY <1>1
<1> QED
  BY <1>2, <1>3

\* The list of honors is read a page at a time.
LEMMA HonorPages ==
  ASSUME NEW db, HoldsLists(db), NEW t, NEW q, AsksFor(q, "honors/list")
  PROVE  \E list, shown, sizes :
           /\ IsList(list)
           /\ \A k \in Nat \ {0}, s \in PageSize :
                MadePage(HonorsList(db, Asked(q, k, s)), list, shown, sizes, k, s)
<1> DEFINE list  == ListAll(db, "honors")
           shown == [x \in Range(list) |-> HonorItem(db, x)]
<1>1. IsList(list)
  BY StoredIsList
<1>2. ASSUME NEW k \in Nat \ {0}, NEW s \in PageSize
      PROVE  MadePage(HonorsList(db, Asked(q, k, s)), list, shown, PageSize, k, s)
  <2>1. PICK p : p = Asked(q, k, s)
    OBVIOUS
  <2>2. p.page = k /\ p.size = s
    BY <2>1, AskedIsTheSame DEF AsksFor
  <2>3. ~(p.size > MaxPageSize)
    BY <1>1, <2>2, PageIsOfTheList
  <2>4. HonorsList(db, p).status = 200 /\ HonorsList(db, p).body
          = [StoredPage(db, "honors", p.page, p.size) EXCEPT !.items = MapSeq(@, LAMBDA x : HonorItem(db, x))]
    BY <2>3, Zenon DEF HonorsList, Ok
  <2>5. StoredPage(db, "honors", p.page, p.size) = PageRecord(list, k, s)
    BY <2>2, PagesAreCut
  <2> HIDE DEF list
  <2>6. MapSeq(Slice(list, k, s), LAMBDA x : HonorItem(db, x))
          = [i \in DOMAIN Slice(list, k, s) |-> shown[Slice(list, k, s)[i]]]
    BY <1>1, PageIsOfTheList DEF MapSeq
  <2> HIDE DEF shown
  <2> QED
    BY <2>1, <2>4, <2>5, <2>6 DEF MadePage, PageRecord
<1> QED
  <2> HIDE DEF list, shown
  <2> QED
    BY <1>1, <1>2

\* The groups of honors have a page cap of their own.
LEMMA HonorGroupPages ==
  ASSUME NEW db, HoldsLists(db), NEW t, NEW q, AsksFor(q, "honors/groups")
  PROVE  \E list, shown, sizes :
           /\ IsList(list)
           /\ \A k \in Nat \ {0}, s \in PageSize :
                MadePage(HonorGroupsList(db, Asked(q, k, s)), list, shown, sizes, k, s)
<1> DEFINE matched(r) == Selected(HonorGroups(db), LAMBDA g : HonorGroupMatches(g, r))
           list(r)    == StableSort(matched(r), LAMBDA a, b : IF r.descending THEN a.id > b.id ELSE a.id < b.id)
           shown      == [x \in Range(list(q)) |-> x]
           sizes      == {s \in PageSize : ~(s > MaxGroupPage)}
<1>1. IsList(list(q))
  <2> DEFINE all == HonorGroups(db)
  <2>1. {i \in DOMAIN all : HonorGroupMatches(all[i], q)} \in SUBSET DOMAIN all
    OBVIOUS
  <2>2. IsList(matched(q))
    BY <2>1, HonorGroupsIsList, PickedIsList DEF Selected
  <2>3. PICK n \in Nat : DOMAIN matched(q) = 1..n
    BY <2>2, ListIsNumbered
  <2> HIDE DEF matched
  <2>4. \A x : x = list(q) => x = [i \in 1..n |-> x[i]]
    BY <2>3 DEF StableSort
  <2> HIDE DEF list
  <2> QED
    BY <2>4, NumberedIsList
<1>2. ASSUME NEW k \in Nat \ {0}, NEW s \in PageSize
      PROVE  MadePage(HonorGroupsList(db, Asked(q, k, s)), list(q), shown, sizes, k, s)
  <2>1. PICK p : p = Asked(q, k, s)
    OBVIOUS
  <2>2. /\ p.page = k /\ p.size = s
        /\ p.honorType = q.honorType /\ p.name = q.name /\ p.descending = q.descending
    BY <2>1, AskedIsTheSame DEF AsksFor, Parameters, Sorting
  <2>3. list(p) = list(q)
    <3>1. \A g : HonorGroupMatches(g, p) <=> HonorGroupMatches(g, q)
      BY <2>2 DEF HonorGroupMatches
    <3>2. matched(p) = matched(q)
      BY <3>1 DEF Selected
    <3> HIDE DEF matched
    <3> QED
      BY <2>2, <3>2 DEF StableSort
  <2>4. CASE p.size > MaxGroupPage
    <3>1. HonorGroupsList(db, p).status = 400 /\ s \notin sizes
      BY <2>2, <2>4 DEF HonorGroupsList, Fail
    <3> HIDE DEF list, shown, sizes
    <3> QED
      BY <2>1, <3>1 DEF MadePage
  <2>5. CASE ~(p.size > MaxGroupPage)
    <3>1. HonorGroupsList(db, p)
            = Ok([items |-> Slice(list(p), p.page, p.size), types |-> HonorTypes(HonorGroups(db)),
                  pagination |-> PaginationOf(p.page, p.size, Len(list(p)))])
      BY <2>5, Zenon DEF HonorGroupsList
    <3>2. s \in sizes
      BY <2>2, <2>5
    <3> HIDE DEF list, sizes
    <3>3. Slice(list(q), k, s) = [i \in DOMAIN Slice(list(q), k, s) |-> shown[Slice(list(q), k, s)[i]]]
      BY <1>1, PlainPage
    <3> HIDE DEF shown
    <3> QED
      BY <2>1, <2>2, <2>3, <3>1, <3>2, <3>3 DEF MadePage, Ok
  <2> QED
    BY <2>4, <2>5
<1> QED
  <2> HIDE DEF list, shown, sizes
  <2> QED
    BY <1>1, <1>2

\* The list of bonds honors; half a pair of characters is refused.
LEMMA BondsPages ==
  ASSUME NEW db, HoldsLists(db), NEW t, NEW q, AsksFor(q, "bonds/list")
  PROVE  \E list, shown, sizes :
           /\ IsList(list)
           /\ \A k \in Nat \ {0}, s \in PageSize :
                MadePage(BondsHonorsList(db, Asked(q, k, s)), list, shown, sizes, k, s)
<1> DEFINE matched(r) == Selected(ListAll(db, "bondshonors"), LAMBDA x : BondsHonorMatches(db, x, r))
           list(r)    == TypedSort(matched(r), IF r.sort = None THEN "seq" ELSE r.sort, r.descending)
           shown      == [x \in Range(list(q)) |-> BondsHonor(db, x)]
           paired     == Cardinality(q.pair) \in {0, 2}
           sizes      == IF paired THEN PageSize ELSE {}
<1>1. IsList(list(q))
  <2> DEFINE all == ListAll(db, "bondshonors")
  <2>1. {i \in DOMAIN all : BondsHonorMatches(db, all[i], q)} \in SUBSET DOMAIN all
    OBVIOUS
  <2>2. IsList(matched(q))
    BY <2>1, StoredIsList, PickedIsList DEF Selected
  <2> HIDE DEF matched
  <2> QED
    BY <2>2, SortedIsList
<1>2. ASSUME NEW k \in Nat \ {0}, NEW s \in PageSize
      PROVE  MadePage(BondsHonorsList(db, Asked(q, k, s)), list(q), shown, sizes, k, s)
  <2>1. PICK p : p = Asked(q, k, s)
    OBVIOUS
  <2>2. /\ p.page = k /\ p.size = s /\ p.sort = q.sort /\ p.descending = q.descending
        /\ p.bondsGroup = q.bondsGroup /\ p.unit1 = q.unit1 /\ p.unit2 = q.unit2
        /\ p.pair = q.pair /\ p.name = q.name
    BY <2>1, AskedIsTheSame DEF AsksFor, Parameters, Sorting
  <2>3. list(p) = list(q)
    <3>1. \A x : BondsHonorMatches(db, x, p) <=> BondsHonorMatches(db, x, q)
      BY <2>2 DEF BondsHonorMatches
    <3>2. matched(p) = matched(q)
      BY <3>1 DEF Selected
    <3> HIDE DEF matched
    <3> QED
      BY <2>2, <3>2
  <2>4. CASE ~paired
    <3>1. BondsHonorsList(db, p).status = 400 /\ s \notin sizes
      BY <2>2, <2>4 DEF BondsHonorsList, Fail
    <3> HIDE DEF list, shown, sizes
    <3> QED
      BY <2>1, <3>1 DEF MadePage
  <2>5. CASE paired
    <3>1. ~(p.size > MaxPageSize \/ Cardinality(p.pair) \notin {0, 2})
      BY <1>1, <2>2, <2>5, PageIsOfTheList
    <3>2. BondsHonorsList(db, p)
            = Ok([items |-> MapSeq(Slice(list(p), p.page, p.size), LAMBDA x : BondsHonor(db, x)),
                  pagination |-> PaginationOf(p.page, p.size, Len(list(p)))])
      BY <3>1, Zenon DEF BondsHonorsList
    <3>3. s \in sizes
      BY <2>5
    <3> HIDE DEF list, sizes
    <3>4. MapSeq(Slice(list(q), k, s), LAMBDA x : BondsHonor(db, x))
            = [i \in DOMAIN Slice(list(q), k, s) |-> shown[Slice(list(q), k, s)[i]]]
      BY <1>1, PageIsOfTheList DEF MapSeq
    <3> HIDE DEF shown
    <3> QED
      BY <2>1, <2>2, <2>3, <3>2, <3>3, <3>4 DEF MadePage, Ok
  <2> QED
    BY <2>4, <2>5
<1> QED
  <2> HIDE DEF list, shown, sizes
  <2> QED
    BY <1>1, <1>2

\* The first n lists of ss, joined one after the other (ConcatAll).
IsUpTo(g, ss, n) == g = [m \in 0 .. n |-> IF m = 0 THEN <<>> ELSE g[m - 1] \o ss[m]]

\* They can be joined, however many they are.
LEMMA JoinsExist ==
  ASSUME NEW ss, NEW n \in Nat
  PROVE  \E g : IsUpTo(g, ss, n)
<1> DEFINE bad == {m \in Nat : ~ \E g : IsUpTo(g, ss, m)}
<1>1. bad = {}
  <2> SUFFICES ASSUME bad # {} PROVE FALSE
    OBVIOUS
  <2>1. PICK m \in bad : \A x \in bad : m <= x
    <3>1. bad \subseteq Nat
      OBVIOUS
    <3> HIDE DEF bad
    <3> QED
      BY <3>1, LeastNumber
  <2>2. CASE m = 0
    <3>1. IsUpTo([x \in 0 .. 0 |-> <<>>], ss, 0)
      BY DEF IsUpTo
    <3> QED
      BY <2>2, <3>1
  <2>3. CASE m # 0
    <3>1. m \in Nat /\ m - 1 \in Nat /\ m - 1 \notin bad
      BY <2>1, <2>3
    <3>2. PICK g : IsUpTo(g, ss, m - 1)
      BY <3>1
    <3> DEFINE h == [x \in 0 .. m |-> IF x = m THEN g[m - 1] \o ss[m] ELSE g[x]]
    <3>3. \A x \in 0 .. m - 1 : g[x] = IF x = 0 THEN <<>> ELSE g[x - 1] \o ss[x]
      BY <3>2 DEF IsUpTo
    <3>4. \A x \in 0 .. m : h[x] = IF x = 0 THEN <<>> ELSE h[x - 1] \o ss[x]
      <4>1. ASSUME NEW x \in 0 .. m, x = m PROVE h[x] = IF x = 0 THEN <<>> ELSE h[x - 1] \o ss[x]
        BY <2>3, <3>1, <4>1
      <4>2. ASSUME NEW x \in 0 .. m, x # m PROVE h[x] = IF x = 0 THEN <<>> ELSE h[x - 1] \o ss[x]
        <5>1. x \in 0 .. m - 1 /\ h[x] = g[x]
          BY <3>1, <4>2
        <5>2. x # 0 => x - 1 \in 0 .. m /\ x - 1 # m /\ h[x - 1] = g[x - 1]
          BY <3>1, <4>2
        <5> QED
          BY <3>3, <5>1, <5>2
      <4> QED
        BY <4>1, <4>2
    <3>5. h = [x \in 0 .. m |-> h[x]]
      OBVIOUS
    <3>6. IsUpTo(h, ss, m)
      <4> HIDE DEF h
      <4> QED
        BY <3>4, <3>5 DEF IsUpTo
    <3> HIDE DEF h
    <3> QED
      BY <2>1, <3>6
  <2> QED
    BY <2>2, <2>3
<1> QED
  BY <1>1

\* Each list is joined to those before it.
LEMMA JoinsStep ==
  ASSUME NEW ss, NEW n \in Nat, NEW g, IsUpTo(g, ss, n), NEW m \in 0 .. n
  PROVE  g[m] = IF m = 0 THEN <<>> ELSE g[m - 1] \o ss[m]
BY DEF IsUpTo

\* And in one way only.
LEMMA JoinsAgree ==
  ASSUME NEW ss, NEW n \in Nat, NEW p \in Nat, n <= p, NEW g, IsUpTo(g, ss, n), NEW h, IsUpTo(h, ss, p)
  PROVE  g[n] = h[n]
<1> DEFINE bad == {m \in 0 .. n : g[m] # h[m]}
<1>1. ASSUME bad # {} PROVE FALSE
  <2>1. PICK m \in bad : \A x \in bad : m <= x
    <3>1. bad \subseteq Nat
      OBVIOUS
    <3> HIDE DEF bad
    <3> QED
      BY <1>1, <3>1, LeastNumber
  <2>2. m \in 0 .. n /\ m \in 0 .. p /\ g[m] # h[m]
    BY <2>1
  <2>3. /\ g[m] = IF m = 0 THEN <<>> ELSE g[m - 1] \o ss[m]
        /\ h[m] = IF m = 0 THEN <<>> ELSE h[m - 1] \o ss[m]
    BY <2>2 DEF IsUpTo
  <2>4. m # 0 => g[m - 1] = h[m - 1]
    BY <2>1, <2>2
  <2> QED
    BY <2>2, <2>3, <2>4
<1> QED
  BY <1>1

\* ConcatAll joins the lists one after the other.
LEMMA ConcatIsStepwise ==
  ASSUME NEW ss
  PROVE  \E upTo : /\ ConcatAll(ss) = upTo[Len(ss)]
                   /\ upTo[0] = <<>>
                   /\ \A n \in Nat \ {0} : upTo[n] = upTo[n - 1] \o ss[n]
<1> DEFINE Join(n) == CHOOSE g : IsUpTo(g, ss, n)
           F       == [n \in Nat |-> Join(n)[n]]
           Is(G)   == G = [n \in Nat |-> IF n = 0 THEN <<>> ELSE G[n - 1] \o ss[n]]
<1>1. \A n \in Nat : IsUpTo(Join(n), ss, n)
  BY JoinsExist
<1>2. \A n \in Nat : F[n] = IF n = 0 THEN <<>> ELSE F[n - 1] \o ss[n]
  <2> SUFFICES ASSUME NEW n \in Nat PROVE F[n] = IF n = 0 THEN <<>> ELSE F[n - 1] \o ss[n]
    OBVIOUS
  <2>1. F[n] = Join(n)[n] /\ (n # 0 => n - 1 \in Nat /\ F[n - 1] = Join(n - 1)[n - 1])
    OBVIOUS
  <2> HIDE DEF Join, F
  <2>2. Join(n)[n] = IF n = 0 THEN <<>> ELSE Join(n)[n - 1] \o ss[n]
    <3>1. IsUpTo(Join(n), ss, n) /\ n \in 0 .. n
      BY <1>1
    <3> QED
      BY <3>1, JoinsStep
  <2>3. n # 0 => Join(n - 1)[n - 1] = Join(n)[n - 1]
    <3> SUFFICES ASSUME n # 0 PROVE Join(n - 1)[n - 1] = Join(n)[n - 1]
      OBVIOUS
    <3>1. PICK m \in Nat : m = n - 1 /\ m <= n
      OBVIOUS
    <3>2. IsUpTo(Join(m), ss, m) /\ IsUpTo(Join(n), ss, n)
      BY <1>1
    <3>3. Join(m)[m] = Join(n)[m]
      BY <3>1, <3>2, JoinsAgree
    <3> QED
      BY <3>1, <3>3
  <2> QED
    BY <2>1, <2>2, <2>3
<1>3. F = [n \in Nat |-> F[n]]
  OBVIOUS
<1>4. Is(F)
  <2> HIDE DEF F
  <2> QED
    BY <1>2, <1>3
<1> DEFINE upTo == CHOOSE G : Is(G)
<1>5. Is(upTo)
  <2> HIDE DEF Is, F
  <2> QED
    BY <1>4, Zenon
<1>6. ConcatAll(ss) = upTo[Len(ss)]
  BY DEF ConcatAll
<1> HIDE DEF upTo
<1>7. upTo[0] = <<>> /\ \A n \in Nat \ {0} : upTo[n] = upTo[n - 1] \o ss[n]
  BY <1>5
<1> QED
  BY <1>6, <1>7

\* One list, joined with nothing, is itself.
LEMMA OneJoined ==
  ASSUME NEW s, IsList(s), NEW ss, Len(ss) = 1, ss[1] = s
  PROVE  ConcatAll(ss) = s
<1>1. PICK upTo : /\ ConcatAll(ss) = upTo[Len(ss)]
                  /\ upTo[0] = <<>>
                  /\ \A n \in Nat \ {0} : upTo[n] = upTo[n - 1] \o ss[n]
  BY ConcatIsStepwise
<1>2. upTo[1] = <<>> \o s
  <2>1. 1 \in Nat \ {0} /\ 1 - 1 = 0
    OBVIOUS
  <2>2. upTo[1] = upTo[1 - 1] \o ss[1]
    BY <1>1, <2>1
  <2>3. upTo[1 - 1] = <<>>
    BY <1>1, <2>1
  <2> QED
    BY <2>2, <2>3
<1>3. <<>> \o s = s
  BY DEF IsList
<1> QED
  BY <1>1, <1>2, <1>3

\* What only one member of a list satisfies is picked once.
LEMMA OnePicked ==
  ASSUME NEW s, IsList(s), NEW i \in DOMAIN s
  PROVE  DOMAIN Picked(s, {i}) = 1 .. 1 /\ Picked(s, {i})[1] = s[i]
<1>1. PicksOf(s, Range(s), {i})
  BY PickedHolds DEF IsList
<1>2. Cardinality({i}) = 1
  BY FS_Singleton
<1>3. DOMAIN Picked(s, {i}) = 1 .. 1
  BY <1>1, <1>2 DEF PicksOf
<1>4. Nth({i}, 1) \in {i} /\ Picked(s, {i})[1] = s[Nth({i}, 1)]
  <2>1. 1 \in 1 .. Cardinality({i})
    BY <1>2
  <2> QED
    BY <1>1, <2>1 DEF PicksOf
<1> QED
  BY <1>3, <1>4

\* The rewards of a mission do not name a group.
NamesNoGroup(db, kind, r) ==
  \E rewards, fields :
    /\ MissionWithRewards(db, kind, r) = Merge(Pick(r, fields), rewards)
    /\ "parameterGroup" \notin fields /\ DOMAIN rewards \subseteq {"rewards"}
    /\ kind = "characterMissionV2s" => "parameterGroupId" \in fields
LEMMA RewardsNameNoGroup ==
  ASSUME NEW db, NEW kind \in DOMAIN KindEntity, NEW r
  PROVE  NamesNoGroup(db, kind, r)
<1>1. PICK fields :
        fields = {"id", "seq", "sentence", "requirement", "eventId", "resourceBoxId"} \cup KindFields[kind]
  OBVIOUS
<1>2. /\ "parameterGroup" \notin fields
      /\ kind = "characterMissionV2s" => "parameterGroupId" \in fields
  BY <1>1 DEF KindFields, KindEntity
<1>3. PICK rewards :
        rewards = IF "rewards" \in DOMAIN r \/ Get(r, "resourceBoxId") # None
                    THEN [rewards |-> MapSeq(RewardRefs(kind, r), LAMBDA ref : ResolvedReward(db, ref))]
                    ELSE <<>>
  OBVIOUS
<1>4. DOMAIN rewards \subseteq {"rewards"}
  <2>1. PICK shown : shown = MapSeq(RewardRefs(kind, r), LAMBDA ref : ResolvedReward(db, ref))
    OBVIOUS
  <2>2. rewards = [rewards |-> shown] \/ rewards = <<>>
    BY <1>3, <2>1, Zenon
  <2> QED
    BY <2>2
<1>5. MissionWithRewards(db, kind, r) = Merge(Pick(r, fields), rewards)
  BY <1>1, <1>3, Zenon DEF MissionWithRewards
<1> QED
  BY <1>2, <1>4, <1>5, Zenon DEF NamesNoGroup

\* The group a mission shows is all that its page adds to it.
LEMMA MissionIsItself ==
  ASSUME NEW db, NEW kind \in DOMAIN KindEntity, NEW page, NEW r
  PROVE  Without(MissionItem(db, kind, page, r), {"parameterGroup"}) = MissionWithRewards(db, kind, r)
<1>1. PICK rewards, fields :
        /\ MissionWithRewards(db, kind, r) = Merge(Pick(r, fields), rewards)
        /\ "parameterGroup" \notin fields /\ DOMAIN rewards \subseteq {"rewards"}
        /\ kind = "characterMissionV2s" => "parameterGroupId" \in fields
  <2>1. NamesNoGroup(db, kind, r)
    BY RewardsNameNoGroup
  <2> QED
    BY <2>1, Zenon DEF NamesNoGroup
<1>2. PICK mission : mission = MissionWithRewards(db, kind, r)
  OBVIOUS
<1>3. "parameterGroup" \notin DOMAIN mission /\ mission = [f \in DOMAIN mission |-> mission[f]]
  <2>1. DOMAIN Pick(r, fields) \subseteq fields
    BY DEF Pick
  <2> QED
    BY <1>1, <1>2, <2>1 DEF Merge
<1>4. PICK group : group = IF kind = "characterMissionV2s" THEN ParameterGroup(db, page, r) ELSE <<>>
  OBVIOUS
<1>5. DOMAIN group \subseteq {"parameterGroup"}
  <2>1. \A id, levels : DOMAIN PreviewOf(id, levels) \subseteq {"parameterGroup"}
    <3> SUFFICES ASSUME NEW id, NEW levels PROVE DOMAIN PreviewOf(id, levels) \subseteq {"parameterGroup"}
      OBVIOUS
    <3>1. PICK shown :
            shown = [id |-> id, totalLevels |-> Len(levels),
                     previewLevels |-> SubSeq(levels, 1, AtMost(Len(levels), 3)), lastLevel |-> Last(levels)]
      OBVIOUS
    <3>2. PreviewOf(id, levels) = <<>> \/ PreviewOf(id, levels) = [parameterGroup |-> shown]
      BY <3>1, Zenon DEF PreviewOf
    <3> QED
      BY <3>2
  <2>2. group = <<>> \/ \E id, levels : group = PreviewOf(id, levels)
    BY <1>4, Zenon DEF ParameterGroup
  <2> QED
    BY <2>1, <2>2
<1>6. MissionItem(db, kind, page, r) = Merge(mission, group)
  BY <1>2, <1>4, Zenon DEF MissionItem
<1>7. Without(Merge(mission, group), {"parameterGroup"}) = [f \in DOMAIN mission |-> mission[f]]
  BY <1>3, <1>5 DEF Without, Merge
<1> QED
  BY <1>2, <1>3, <1>6, <1>7

\* The missions that a request lists.
MissionsAsked(db, q) ==
  LET matched == FilterRecordsByNumbers(ListAll(db, KindEntity[q.kind]), q.numbers)
  IN  IF q.sort = None THEN matched ELSE SortMissions(matched, q.sort, q.descending)

LEMMA MissionsAskedIsList ==
  ASSUME NEW db, HoldsLists(db), NEW q
  PROVE  IsList(MissionsAsked(db, q))
<1> DEFINE all     == ListAll(db, KindEntity[q.kind])
           matched == FilterRecordsByNumbers(all, q.numbers)
<1>1. {i \in DOMAIN all : \A f \in DOMAIN q.numbers : Get(all[i], f) \in q.numbers[f]} \in SUBSET DOMAIN all
  OBVIOUS
<1>2. IsList(matched)
  BY <1>1, StoredIsList, PickedIsList DEF FilterRecordsByNumbers, Selected
<1>3. MissionsAsked(db, q) = IF q.sort = None THEN matched ELSE SortMissions(matched, q.sort, q.descending)
  BY Zenon DEF MissionsAsked
<1> HIDE DEF matched
<1>4. PICK n \in Nat : DOMAIN matched = 1..n
  BY <1>2, ListIsNumbered
<1>5. \A x : x = SortMissions(matched, q.sort, q.descending) => x = [i \in 1..n |-> x[i]]
  BY <1>4 DEF SortMissions, StableSort
<1> QED
  BY <1>2, <1>3, <1>5, NumberedIsList

\* A list of missions of a kind is refused for a filter the kind does not have.
LEMMA MissionsRefused ==
  ASSUME NEW db, NEW p, ~(DOMAIN p.numbers \subseteq KindFilters[p.kind])
  PROVE  MissionsList(db, p).status = 400
<1>1. MissionsList(db, p) = Fail(400)
  BY Zenon DEF MissionsList
<1> QED
  BY <1>1 DEF Fail

\* Otherwise it shows each mission of the page asked for together with the
\* others of it.
LEMMA MissionsArePaged ==
  ASSUME NEW db, HoldsLists(db), NEW p, p.page \in Nat \ {0}, p.size \in PageSize
  PROVE  LET page == Slice(MissionsAsked(db, p), p.page, p.size)
         IN  /\ MissionsList(db, p).status = 200 <=> DOMAIN p.numbers \subseteq KindFilters[p.kind]
             /\ DOMAIN p.numbers \subseteq KindFilters[p.kind] =>
                  /\ MissionsList(db, p).body.items
                       = [i \in DOMAIN page |-> MissionItem(db, p.kind, page, page[i])]
                  /\ MissionsList(db, p).body.pagination
                       = PaginationOf(p.page, p.size, Len(MissionsAsked(db, p)))
<1> DEFINE list == MissionsAsked(db, p)
           page == Slice(list, p.page, p.size)
<1>1. ~(p.size > MaxPageSize)
  BY MissionsAskedIsList, PageIsOfTheList
<1>2. CASE ~(DOMAIN p.numbers \subseteq KindFilters[p.kind])
  BY <1>2, MissionsRefused
<1>3. CASE DOMAIN p.numbers \subseteq KindFilters[p.kind]
  <2>1. MissionsList(db, p)
          = Ok([items |-> MapSeq(page, LAMBDA x : MissionItem(db, p.kind, page, x)),
                pagination |-> PaginationOf(p.page, p.size, Len(list))])
    BY <1>1, <1>3, Zenon DEF MissionsList, MissionsAsked, TypedPage
  <2> HIDE DEF list, page
  <2>2. MissionsList(db, p).status = 200
        /\ MissionsList(db, p).body.items = MapSeq(page, LAMBDA x : MissionItem(db, p.kind, page, x))
        /\ MissionsList(db, p).body.pagination = PaginationOf(p.page, p.size, Len(list))
    BY <2>1 DEF Ok
  <2> QED
    BY <1>3, <2>2 DEF MapSeq, list, page
<1> QED
  BY <1>2, <1>3

\* An answer with each item as it shows by itself.
ItselfAnswer(q, answer) == [status |-> answer.status, body |-> PageItself(q, answer.body)]

\* The list of missions of a kind; a filter the kind does not have is refused.
LEMMA MissionPages ==
  ASSUME NEW db, HoldsLists(db), NEW t, NEW q, q.route = "missions/list",
         AsksFor(q, "missions/list"), q.kind \in DOMAIN KindEntity
  PROVE  \E list, shown, sizes :
           /\ IsList(list)
           /\ \A k \in Nat \ {0}, s \in PageSize :
                MadePage(ItselfAnswer(q, MissionsList(db, Asked(q, k, s))), list, shown, sizes, k, s)
<1> DEFINE list  == MissionsAsked(db, q)
           shown == [x \in Range(list) |-> MissionWithRewards(db, q.kind, x)]
           known == DOMAIN q.numbers \subseteq KindFilters[q.kind]
           sizes == IF known THEN PageSize ELSE {}
<1>1. IsList(list)
  BY MissionsAskedIsList
<1>2. ASSUME NEW k \in Nat \ {0}, NEW s \in PageSize
      PROVE  MadePage(ItselfAnswer(q, MissionsList(db, Asked(q, k, s))), list, shown, sizes, k, s)
  <2>1. PICK p : p = Asked(q, k, s)
    OBVIOUS
  <2>2. /\ p.page = k /\ p.size = s /\ p.sort = q.sort /\ p.descending = q.descending
        /\ p.kind = q.kind /\ p.numbers = q.numbers
    BY <2>1, AskedIsTheSame DEF AsksFor, Parameters, Sorting
  <2>3. MissionsAsked(db, p) = list
    BY <2>2, Zenon DEF MissionsAsked
  <2>4. PICK page : page = Slice(list, k, s)
    OBVIOUS
  <2>5. PICK answer : answer = MissionsList(db, p)
    OBVIOUS
  <2>6. /\ answer.status = 200 <=> known
        /\ known => /\ answer.body.items = [i \in DOMAIN page |-> MissionItem(db, q.kind, page, page[i])]
                    /\ answer.body.pagination = PaginationOf(k, s, Len(list))
    <3> HIDE DEF list
    <3> QED
      BY <2>2, <2>3, <2>4, <2>5, MissionsArePaged
  <2>7. /\ ItselfAnswer(q, answer).status = answer.status
        /\ ItselfAnswer(q, answer).body.items
             = [i \in DOMAIN answer.body.items |-> Without(answer.body.items[i], {"parameterGroup"})]
        /\ ItselfAnswer(q, answer).body.pagination = answer.body.pagination
    BY DEF ItselfAnswer, PageItself, ItemsThemselves, OfItself, MapSeq
  <2>8. \A i \in DOMAIN page : page[i] \in Range(list)
    <3> HIDE DEF list
    <3> QED
      BY <1>1, <2>4, PageIsOfTheList
  <2>9. known => ItselfAnswer(q, answer).body.items = [i \in DOMAIN page |-> shown[page[i]]]
    <3> SUFFICES ASSUME known
                 PROVE  ItselfAnswer(q, answer).body.items = [i \in DOMAIN page |-> shown[page[i]]]
      OBVIOUS
    <3>1. \A x : Without(MissionItem(db, q.kind, page, x), {"parameterGroup"}) = MissionWithRewards(db, q.kind, x)
      BY MissionIsItself
    <3>2. ItselfAnswer(q, answer).body.items
            = [i \in DOMAIN page |-> Without(MissionItem(db, q.kind, page, page[i]), {"parameterGroup"})]
      BY <2>6, <2>7
    <3>3. \A i \in DOMAIN page :
            Without(MissionItem(db, q.kind, page, page[i]), {"parameterGroup"}) = shown[page[i]]
      BY <2>8, <3>1
    <3> HIDE DEF shown
    <3> QED
      BY <3>2, <3>3
  <2>10. s \in sizes <=> known
    OBVIOUS
  <2> HIDE DEF list, shown, sizes
  <2> QED
    BY <2>1, <2>4, <2>5, <2>6, <2>7, <2>9, <2>10 DEF MadePage
<1> QED
  <2> HIDE DEF list, shown, sizes
  <2> QED
    BY <1>1, <1>2

-----------------------------------------------------------------------------
(* The levels of a group                                                    *)

\* The levels of a group, when a lookup asks for it once.
LevelsOf(db, id) ==
  LET levels == Selected(ListByIndex(db, "charactermissionv2parametergroups", "id", id),
                          LAMBDA r : Get(r, "seq") # None /\ Get(r, "requirement") # None)
  IN  MapSeq(BySeq(levels), LAMBDA r : Level(GroupResource(db, id), r))

\* A group that one of a list asks for is answered once.
LEMMA AskedOnce ==
  ASSUME NEW db, HoldsLists(db), NEW id, NEW asked, IsList(asked),
         NEW i \in DOMAIN asked, \A j \in DOMAIN asked : asked[j] = id <=> j = i
  PROVE  GroupLevels(db, asked, id) = LevelsOf(db, id)
<1> DEFINE rows(key) == ListByIndex(db, "charactermissionv2parametergroups", "id", key)
           same      == Selected(asked, LAMBDA other : other = id)
           answers   == MapSeq(same, rows)
<1>1. DOMAIN same = 1 .. 1 /\ same[1] = id
  <2>1. {j \in DOMAIN asked : asked[j] = id} = {i}
    OBVIOUS
  <2>2. same = Picked(asked, {i})
    BY <2>1 DEF Selected
  <2> QED
    BY <2>2, OnePicked
<1> HIDE DEF same
<1>2. answers = [j \in 1 .. 1 |-> rows(same[j])]
  BY <1>1 DEF MapSeq
<1>3. Len(answers) = 1 /\ answers[1] = rows(id)
  <2>1. \A x : x = answers => x = [j \in 1 .. 1 |-> x[j]]
    BY <1>2
  <2>2. Len(answers) = 1
    BY <2>1, NumberedIsList
  <2> QED
    BY <1>1, <1>2, <2>2
<1>4. IsList(rows(id))
  BY IndexedIsList
<1>5. ConcatAll(answers) = rows(id)
  <2> HIDE DEF answers, rows
  <2> QED
    BY <1>3, <1>4, OneJoined
<1>6. GroupLevels(db, asked, id)
        = MapSeq(BySeq(Selected(ConcatAll(answers), LAMBDA r : Get(r, "seq") # None /\ Get(r, "requirement") # None)),
                 LAMBDA r : Level(GroupResource(db, id), r))
  BY Zenon DEF GroupLevels, same
<1> HIDE DEF answers
<1> QED
  BY <1>5, <1>6, Zenon DEF LevelsOf

\* So is one that is asked for alone.
LEMMA AskedAlone ==
  ASSUME NEW db, HoldsLists(db), NEW id
  PROVE  GroupLevels(db, <<id>>, id) = LevelsOf(db, id)
<1>1. PICK asked : asked = <<id>>
  OBVIOUS
<1>2. DOMAIN asked = {1} /\ asked[1] = id /\ asked \in Seq({id})
  BY <1>1
<1>3. IsList(asked)
  BY <1>2, SequenceIsList
<1>4. 1 \in DOMAIN asked /\ \A j \in DOMAIN asked : asked[j] = id <=> j = 1
  BY <1>2
<1> QED
  BY <1>1, <1>3, <1>4, AskedOnce

\* The levels of a parameter group are a list.
LEMMA LevelsIsList ==
  ASSUME NEW db, HoldsLists(db), NEW id
  PROVE  IsList(LevelsOf(db, id))
<1> DEFINE all   == ListByIndex(db, "charactermissionv2parametergroups", "id", id)
           whole == Selected(all, LAMBDA r : Get(r, "seq") # None /\ Get(r, "requirement") # None)
<1>1. {i \in DOMAIN all : Get(all[i], "seq") # None /\ Get(all[i], "requirement") # None} \in SUBSET DOMAIN all
  OBVIOUS
<1>2. IsList(whole)
  BY <1>1, IndexedIsList, PickedIsList DEF Selected
<1>3. LevelsOf(db, id) = MapSeq(BySeq(whole), LAMBDA r : Level(GroupResource(db, id), r))
  BY Zenon DEF LevelsOf
<1> HIDE DEF whole
<1>4. PICK n \in Nat : DOMAIN whole = 1..n
  BY <1>2, ListIsNumbered
<1>5. \A x : x = LevelsOf(db, id) => x = [i \in 1..n |-> x[i]]
  BY <1>3, <1>4 DEF MapSeq, BySeq, StableSort
<1> QED
  BY <1>5, NumberedIsList

\* The levels of a parameter group; one without levels is not found.
LEMMA LevelPages ==
  ASSUME NEW db, HoldsLists(db), NEW t, NEW q, AsksFor(q, "missions/levels")
  PROVE  \E list, shown, sizes :
           /\ IsList(list)
           /\ \A k \in Nat \ {0}, s \in PageSize :
                MadePage(ParameterGroupLevels(db, Asked(q, k, s)), list, shown, sizes, k, s)
<1> DEFINE list  == LevelsOf(db, q.id)
           shown == [x \in Range(list) |-> x]
           sizes == IF list = <<>> THEN {} ELSE PageSize
<1>1. IsList(list)
  BY LevelsIsList
<1>2. ASSUME NEW k \in Nat \ {0}, NEW s \in PageSize
      PROVE  MadePage(ParameterGroupLevels(db, Asked(q, k, s)), list, shown, sizes, k, s)
  <2>1. PICK p : p = Asked(q, k, s)
    OBVIOUS
  <2>2. p.page = k /\ p.size = s /\ p.id = q.id
    BY <2>1, AskedIsTheSame DEF AsksFor, Parameters
  <2>3. ParameterGroupLevels(db, p) = LevelsPage(p, list)
    BY <2>2, AskedAlone DEF ParameterGroupLevels
  <2> HIDE DEF list
  <2>4. Slice(list, k, s) = [i \in DOMAIN Slice(list, k, s) |-> shown[Slice(list, k, s)[i]]]
    BY <1>1, PlainPage
  <2> HIDE DEF shown
  <2> QED
    BY <2>1, <2>2, <2>3, <2>4 DEF MadePage, LevelsPage, PageOfItems, Ok, Fail
<1> QED
  <2> HIDE DEF list, shown, sizes
  <2> QED
    BY <1>1, <1>2

\* The ranks of a character.
LEMMA RankPages ==
  ASSUME NEW db, HoldsLists(db), NEW t, NEW q, AsksFor(q, "missions/ranks")
  PROVE  \E list, shown, sizes :
           /\ IsList(list)
           /\ \A k \in Nat \ {0}, s \in PageSize :
                MadePage(CharacterRanks(db, Asked(q, k, s)), list, shown, sizes, k, s)
<1> DEFINE all   == ListByIndex(db, "characterranks", "characterId", q.id)
           ranks == Selected(all, LAMBDA r : Get(r, "characterRank") # None)
           BoxesOf(id) == MapSeq(Selected(ListByIndex(db, "resourceboxes", "id", id),
                                   LAMBDA b : Get(b, "resourceBoxPurpose") = "character_rank_reward"),
                                 LAMBDA b : ResourceBox(db, b))
           Exp(rank) == Selected(ListByIndex(db, "levels", "levelType", "character"),
                                  LAMBDA l : Get(l, "level") = rank /\ Get(l, "totalExp") # None)
           Item(r) == Merge(Pick(r, {"id", "characterId", "characterRank", "power1BonusRate"}),
                        Merge(Pick(LastOf(Exp(r.characterRank)), {"totalExp"}),
                              [rewardResourceBoxes |-> ConcatAll(MapSeq(Items(r, "rewardResourceBoxIds"), BoxesOf))]))
           list  == MapSeq(StableSort(ranks, LAMBDA a, b : a.characterRank < b.characterRank), Item)
           shown == [x \in Range(list) |-> x]
<1>1. IsList(list)
  <2>1. {i \in DOMAIN all : Get(all[i], "characterRank") # None} \in SUBSET DOMAIN all
    OBVIOUS
  <2>2. IsList(ranks)
    BY <2>1, IndexedIsList, PickedIsList DEF Selected
  <2> HIDE DEF ranks, Item
  <2>3. PICK n \in Nat : DOMAIN ranks = 1..n
    BY <2>2, ListIsNumbered
  <2>4. \A x : x = list => x = [i \in 1..n |-> x[i]]
    BY <2>3 DEF MapSeq, StableSort
  <2> HIDE DEF list
  <2> QED
    BY <2>4, NumberedIsList
<1>2. ASSUME NEW k \in Nat \ {0}, NEW s \in PageSize
      PROVE  MadePage(CharacterRanks(db, Asked(q, k, s)), list, shown, PageSize, k, s)
  <2>1. PICK p : p = Asked(q, k, s)
    OBVIOUS
  <2>2. p.page = k /\ p.size = s /\ p.id = q.id
    BY <2>1, AskedIsTheSame DEF AsksFor, Parameters
  <2>3. CharacterRanks(db, p) = Ok(PageOfItems(p, list))
    BY <2>2, Zenon DEF CharacterRanks
  <2> HIDE DEF list
  <2>4. Slice(list, k, s) = [i \in DOMAIN Slice(list, k, s) |-> shown[Slice(list, k, s)[i]]]
    BY <1>1, PlainPage
  <2> HIDE DEF shown
  <2> QED
    BY <2>1, <2>2, <2>3, <2>4 DEF MadePage, PageOfItems, Ok
<1> QED
  <2> HIDE DEF list, shown
  <2> QED
    BY <1>1, <1>2

\* Whatever page of a request is asked for, it is cut of one list.
IsPaged(w, q, t) ==
  \E list, shown, sizes :
    /\ IsList(list)
    /\ \A k \in Nat \ {0}, s \in PageSize :
         MadePage(FamilyAnswer(w, Asked(q, k, s), t), list, shown, sizes, k, s)

\* The router (Routes) hands a page of a list to the handler of that list.
LEMMA RequestIsPaged ==
  ASSUME NEW w, NEW q \in Request, q.route \in PagedRoutes, q.route # "missions/list",
         HoldsLists(w[q.region].db), NEW t
  PROVE  IsPaged(w, q, t)
<1> DEFINE db == w[q.region].db
<1>1. AsksFor(q, q.route) /\ q.family \in DOMAIN Routes /\ q.route \in Routes[q.family]
  BY RequestAssumption DEF AsksFor
<1>2. \A k, s : /\ Asked(q, k, s).family = q.family /\ Asked(q, k, s).route = q.route
                /\ Asked(q, k, s).region = q.region
  BY RequestAssumption DEF Asked
<1>3. CASE q.route = "events/list"
  <2>1. q.family = "events"
    BY <1>1, <1>3 DEF Routes
  <2>2. \A p : p.family = q.family /\ p.route = q.route /\ p.region = q.region =>
          FamilyAnswer(w, p, t) = EventList(db, p, t)
    BY <1>3, <2>1 DEF FamilyAnswer, EventAnswer
  <2>3. PICK list, shown, sizes :
          /\ IsList(list)
          /\ \A k \in Nat \ {0}, s \in PageSize :
               MadePage(EventList(db, Asked(q, k, s), t), list, shown, sizes, k, s)
    BY <1>1, <1>3, EventPages
  <2> QED
    BY <1>2, <2>2, <2>3 DEF IsPaged
<1>4. CASE q.route = "musics/list"
  <2>1. q.family = "musics"
    BY <1>1, <1>4 DEF Routes
  <2>2. \A p : p.family = q.family /\ p.route = q.route /\ p.region = q.region =>
          FamilyAnswer(w, p, t) = MusicList(db, p, t)
    BY <1>4, <2>1 DEF FamilyAnswer, MusicAnswer
  <2>3. PICK list, shown, sizes :
          /\ IsList(list)
          /\ \A k \in Nat \ {0}, s \in PageSize :
               MadePage(MusicList(db, Asked(q, k, s), t), list, shown, sizes, k, s)
    BY <1>1, <1>4, MusicPages
  <2> QED
    BY <1>2, <2>2, <2>3 DEF IsPaged
<1>5. CASE q.route = "cards/list"
  <2>1. q.family = "cards"
    BY <1>1, <1>5 DEF Routes
  <2>2. \A p : p.family = q.family /\ p.route = q.route /\ p.region = q.region =>
          FamilyAnswer(w, p, t) = CardList(db, p, t)
    BY <1>5, <2>1 DEF FamilyAnswer, CardAnswer
  <2>3. PICK list, shown, sizes :
          /\ IsList(list)
          /\ \A k \in Nat \ {0}, s \in PageSize :
               MadePage(CardList(db, Asked(q, k, s), t), list, shown, sizes, k, s)
    BY <1>1, <1>5, CardPages
  <2> QED
    BY <1>2, <2>2, <2>3 DEF IsPaged
<1>6. CASE q.route = "virtuallives/list"
  <2>1. q.family = "virtuallives"
    BY <1>1, <1>6 DEF Routes
  <2>2. \A p : p.family = q.family /\ p.route = q.route /\ p.region = q.region =>
          FamilyAnswer(w, p, t) = VirtualLiveList(db, p, t)
    BY <1>6, <2>1 DEF FamilyAnswer, VirtualLiveAnswer
  <2>3. PICK list, shown, sizes :
          /\ IsList(list)
          /\ \A k \in Nat \ {0}, s \in PageSize :
               MadePage(VirtualLiveList(db, Asked(q, k, s), t), list, shown, sizes, k, s)
    BY <1>1, <1>6, VirtualLivePages
  <2> QED
    BY <1>2, <2>2, <2>3 DEF IsPaged
<1>7. CASE q.route = "gachas/list"
  <2>1. q.family = "gachas"
    BY <1>1, <1>7 DEF Routes
  <2>2. \A p : p.family = q.family /\ p.route = q.route /\ p.region = q.region =>
          FamilyAnswer(w, p, t) = GachaList(db, p, t)
    BY <1>7, <2>1 DEF FamilyAnswer, GachaAnswer
  <2>3. PICK list, shown, sizes :
          /\ IsList(list)
          /\ \A k \in Nat \ {0}, s \in PageSize :
               MadePage(GachaList(db, Asked(q, k, s), t), list, shown, sizes, k, s)
    BY <1>1, <1>7, GachaPages
  <2> QED
    BY <1>2, <2>2, <2>3 DEF IsPaged
<1>8. CASE q.route = "lookups/list"
  <2>1. q.family = "lookups"
    BY <1>1, <1>8 DEF Routes
  <2>2. \A p : p.family = q.family /\ p.route = q.route /\ p.region = q.region =>
          FamilyAnswer(w, p, t) = LookupList(db, p, t)
    BY <1>8, <2>1 DEF FamilyAnswer, LookupAnswer
  <2>3. PICK list, shown, sizes :
          /\ IsList(list)
          /\ \A k \in Nat \ {0}, s \in PageSize :
               MadePage(LookupList(db, Asked(q, k, s), t), list, shown, sizes, k, s)
    BY <1>1, <1>8, LookupPages
  <2> QED
    BY <1>2, <2>2, <2>3 DEF IsPaged
<1>9. CASE q.route = "stamps/list"
  <2>1. q.family = "stamps"
    BY <1>1, <1>9 DEF Routes
  <2>2. \A p : p.family = q.family /\ p.route = q.route /\ p.region = q.region =>
          FamilyAnswer(w, p, t) = StampsList(db, p, t)
    BY <1>9, <2>1 DEF FamilyAnswer, StampAnswer
  <2>3. PICK list, shown, sizes :
          /\ IsList(list)
          /\ \A k \in Nat \ {0}, s \in PageSize :
               MadePage(StampsList(db, Asked(q, k, s), t), list, shown, sizes, k, s)
    BY <1>1, <1>9, StampPages
  <2> QED
    BY <1>2, <2>2, <2>3 DEF IsPaged
<1>10. CASE q.route = "musicrecords/list"
  <2>1. q.family = "mysekai"
    BY <1>1, <1>10 DEF Routes
  <2>2. \A p : p.family = q.family /\ p.route = q.route /\ p.region = q.region =>
          FamilyAnswer(w, p, t) = MusicRecordsList(db, p, t)
    BY <1>10, <2>1 DEF FamilyAnswer, MysekaiAnswer
  <2>3. PICK list, shown, sizes :
          /\ IsList(list)
          /\ \A k \in Nat \ {0}, s \in PageSize :
               MadePage(MusicRecordsList(db, Asked(q, k, s), t), list, shown, sizes, k, s)
    BY <1>1, <1>10, MusicRecordPages
  <2> QED
    BY <1>2, <2>2, <2>3 DEF IsPaged
<1>11. CASE q.route = "fixtures/list"
  <2>1. q.family = "mysekai"
    BY <1>1, <1>11 DEF Routes
  <2>2. \A p : p.family = q.family /\ p.route = q.route /\ p.region = q.region =>
          FamilyAnswer(w, p, t) = FixturesList(db, p)
    BY <1>11, <2>1 DEF FamilyAnswer, MysekaiAnswer
  <2>3. PICK list, shown, sizes :
          /\ IsList(list)
          /\ \A k \in Nat \ {0}, s \in PageSize :
               MadePage(FixturesList(db, Asked(q, k, s)), list, shown, sizes, k, s)
    BY <1>1, <1>11, FixturePages
  <2> QED
    BY <1>2, <2>2, <2>3 DEF IsPaged
<1>12. CASE q.route = "costumes/list"
  <2>1. q.family = "costumes"
    BY <1>1, <1>12 DEF Routes
  <2>2. \A p : p.family = q.family /\ p.route = q.route /\ p.region = q.region =>
          FamilyAnswer(w, p, t) = Costume3DsList(db, p)
    BY <1>12, <2>1 DEF FamilyAnswer, CostumeAnswer
  <2>3. PICK list, shown, sizes :
          /\ IsList(list)
          /\ \A k \in Nat \ {0}, s \in PageSize :
               MadePage(Costume3DsList(db, Asked(q, k, s)), list, shown, sizes, k, s)
    BY <1>1, <1>12, CostumePages
  <2> QED
    BY <1>2, <2>2, <2>3 DEF IsPaged
<1>13. CASE q.route = "materials/list"
  <2>1. q.family = "mysekai"
    BY <1>1, <1>13 DEF Routes
  <2>2. \A p : p.family = q.family /\ p.route = q.route /\ p.region = q.region =>
          FamilyAnswer(w, p, t) = MaterialsList(db, p)
    BY <1>13, <2>1 DEF FamilyAnswer, MysekaiAnswer
  <2>3. PICK list, shown, sizes :
          /\ IsList(list)
          /\ \A k \in Nat \ {0}, s \in PageSize :
               MadePage(MaterialsList(db, Asked(q, k, s)), list, shown, sizes, k, s)
    BY <1>1, <1>13, MaterialPages
  <2> QED
    BY <1>2, <2>2, <2>3 DEF IsPaged
<1>14. CASE q.route = "shops/list"
  <2>1. q.family = "mysekai"
    BY <1>1, <1>14 DEF Routes
  <2>2. \A p : p.family = q.family /\ p.route = q.route /\ p.region = q.region =>
          FamilyAnswer(w, p, t) = ShopsList(db, p)
    BY <1>14, <2>1 DEF FamilyAnswer, MysekaiAnswer
  <2>3. PICK list, shown, sizes :
          /\ IsList(list)
          /\ \A k \in Nat \ {0}, s \in PageSize :
               MadePage(ShopsList(db, Asked(q, k, s)), list, shown, sizes, k, s)
    BY <1>1, <1>14, ShopPages
  <2> QED
    BY <1>2, <2>2, <2>3 DEF IsPaged
<1>15. CASE q.route = "lookups/comics"
  <2>1. q.family = "lookups"
    BY <1>1, <1>15 DEF Routes
  <2>2. \A p : p.family = q.family /\ p.route = q.route /\ p.region = q.region =>
          FamilyAnswer(w, p, t) = ComicsList(db, p)
    BY <1>15, <2>1 DEF FamilyAnswer, LookupAnswer
  <2>3. PICK list, shown, sizes :
          /\ IsList(list)
          /\ \A k \in Nat \ {0}, s \in PageSize :
               MadePage(ComicsList(db, Asked(q, k, s)), list, shown, sizes, k, s)
    BY <1>1, <1>15, ComicPages
  <2> QED
    BY <1>2, <2>2, <2>3 DEF IsPaged
<1>16. CASE q.route = "lookups/photos"
  <2>1. q.family = "lookups"
    BY <1>1, <1>16 DEF Routes
  <2>2. \A p : p.family = q.family /\ p.route = q.route /\ p.region = q.region =>
          FamilyAnswer(w, p, t) = PhotoDecorationsList(db, p)
    BY <1>16, <2>1 DEF FamilyAnswer, LookupAnswer
  <2>3. PICK list, shown, sizes :
          /\ IsList(list)
          /\ \A k \in Nat \ {0}, s \in PageSize :
               MadePage(PhotoDecorationsList(db, Asked(q, k, s)), list, shown, sizes, k, s)
    BY <1>1, <1>16, PhotoPages
  <2> QED
    BY <1>2, <2>2, <2>3 DEF IsPaged
<1>17. CASE q.route = "honors/list"
  <2>1. q.family = "honors"
    BY <1>1, <1>17 DEF Routes
  <2>2. \A p : p.family = q.family /\ p.route = q.route /\ p.region = q.region =>
          FamilyAnswer(w, p, t) = HonorsList(db, p)
    BY <1>17, <2>1 DEF FamilyAnswer, HonorAnswer
  <2>3. PICK list, shown, sizes :
          /\ IsList(list)
          /\ \A k \in Nat \ {0}, s \in PageSize :
               MadePage(HonorsList(db, Asked(q, k, s)), list, shown, sizes, k, s)
    BY <1>1, <1>17, HonorPages
  <2> QED
    BY <1>2, <2>2, <2>3 DEF IsPaged
<1>18. CASE q.route = "honors/groups"
  <2>1. q.family = "honors"
    BY <1>1, <1>18 DEF Routes
  <2>2. \A p : p.family = q.family /\ p.route = q.route /\ p.region = q.region =>
          FamilyAnswer(w, p, t) = HonorGroupsList(db, p)
    BY <1>18, <2>1 DEF FamilyAnswer, HonorAnswer
  <2>3. PICK list, shown, sizes :
          /\ IsList(list)
          /\ \A k \in Nat \ {0}, s \in PageSize :
               MadePage(HonorGroupsList(db, Asked(q, k, s)), list, shown, sizes, k, s)
    BY <1>1, <1>18, HonorGroupPages
  <2> QED
    BY <1>2, <2>2, <2>3 DEF IsPaged
<1>19. CASE q.route = "bonds/list"
  <2>1. q.family = "honors"
    BY <1>1, <1>19 DEF Routes
  <2>2. \A p : p.family = q.family /\ p.route = q.route /\ p.region = q.region =>
          FamilyAnswer(w, p, t) = BondsHonorsList(db, p)
    BY <1>19, <2>1 DEF FamilyAnswer, HonorAnswer
  <2>3. PICK list, shown, sizes :
          /\ IsList(list)
          /\ \A k \in Nat \ {0}, s \in PageSize :
               MadePage(BondsHonorsList(db, Asked(q, k, s)), list, shown, sizes, k, s)
    BY <1>1, <1>19, BondsPages
  <2> QED
    BY <1>2, <2>2, <2>3 DEF IsPaged
<1>20. CASE q.route = "missions/levels"
  <2>1. q.family = "missions"
    BY <1>1, <1>20 DEF Routes
  <2>2. \A p : p.family = q.family /\ p.route = q.route /\ p.region = q.region =>
          FamilyAnswer(w, p, t) = ParameterGroupLevels(db, p)
    BY <1>20, <2>1 DEF FamilyAnswer, MissionAnswer
  <2>3. PICK list, shown, sizes :
          /\ IsList(list)
          /\ \A k \in Nat \ {0}, s \in PageSize :
               MadePage(ParameterGroupLevels(db, Asked(q, k, s)), list, shown, sizes, k, s)
    BY <1>1, <1>20, LevelPages
  <2> QED
    BY <1>2, <2>2, <2>3 DEF IsPaged
<1>21. CASE q.route = "missions/ranks"
  <2>1. q.family = "missions"
    BY <1>1, <1>21 DEF Routes
  <2>2. \A p : p.family = q.family /\ p.route = q.route /\ p.region = q.region =>
          FamilyAnswer(w, p, t) = CharacterRanks(db, p)
    BY <1>21, <2>1 DEF FamilyAnswer, MissionAnswer
  <2>3. PICK list, shown, sizes :
          /\ IsList(list)
          /\ \A k \in Nat \ {0}, s \in PageSize :
               MadePage(CharacterRanks(db, Asked(q, k, s)), list, shown, sizes, k, s)
    BY <1>1, <1>21, RankPages
  <2> QED
    BY <1>2, <2>2, <2>3 DEF IsPaged
<1> QED
  BY <1>3, <1>4, <1>5, <1>6, <1>7, <1>8, <1>9, <1>10, <1>11, <1>12,
     <1>13, <1>14, <1>15, <1>16, <1>17, <1>18, <1>19, <1>20, <1>21 DEF PagedRoutes

\* Whatever page of a request is asked for, it is cut of one list, as far as
\* its items show by themselves.
LEMMA ItemsArePaged ==
  ASSUME NEW w, NEW q \in Request, q.route \in PagedRoutes, HoldsLists(w[q.region].db), NEW t
  PROVE  \E list, shown, sizes :
           /\ IsList(list)
           /\ \A k \in Nat \ {0}, s \in PageSize :
                MadePage(ItselfAnswer(q, FamilyAnswer(w, Asked(q, k, s), t)), list, shown, sizes, k, s)
<1>1. CASE q.route # "missions/list"
  <2>1. PICK list, shown, sizes :
          /\ IsList(list)
          /\ \A k \in Nat \ {0}, s \in PageSize :
               MadePage(FamilyAnswer(w, Asked(q, k, s), t), list, shown, sizes, k, s)
    BY <1>1, RequestIsPaged DEF IsPaged
  <2>2. ASSUME NEW k \in Nat \ {0}, NEW s \in PageSize
        PROVE  MadePage(ItselfAnswer(q, FamilyAnswer(w, Asked(q, k, s), t)), list, shown, sizes, k, s)
    <3>1. PICK answer : answer = FamilyAnswer(w, Asked(q, k, s), t)
      OBVIOUS
    <3>2. MadePage(answer, list, shown, sizes, k, s)
      BY <2>1, <3>1
    <3>3. /\ ItselfAnswer(q, answer).status = answer.status
          /\ ItselfAnswer(q, answer).body.items = [i \in DOMAIN answer.body.items |-> answer.body.items[i]]
          /\ ItselfAnswer(q, answer).body.pagination = answer.body.pagination
      BY <1>1 DEF ItselfAnswer, PageItself, ItemsThemselves, OfItself, MapSeq
    <3>4. s \in sizes => ItselfAnswer(q, answer).body.items = answer.body.items
      BY <3>2, <3>3 DEF MadePage
    <3> QED
      BY <3>1, <3>2, <3>3, <3>4 DEF MadePage
  <2> QED
    BY <2>1, <2>2
<1>2. CASE q.route = "missions/list"
  <2>1. AsksFor(q, "missions/list") /\ q.kind \in DOMAIN KindEntity /\ q.family = "missions"
    <3>1. AsksFor(q, q.route) /\ q.kind \in DOMAIN KindEntity
      BY <1>2, RequestAssumption DEF AsksFor
    <3>2. q.family \in DOMAIN Routes /\ q.route \in Routes[q.family]
      BY RequestAssumption
    <3>3. q.family = "missions"
      BY <1>2, <3>2 DEF Routes
    <3> QED
      BY <1>2, <3>1, <3>3
  <2>2. \A k, s : FamilyAnswer(w, Asked(q, k, s), t) = MissionsList(w[q.region].db, Asked(q, k, s))
    <3>1. \A k, s : /\ Asked(q, k, s).family = q.family /\ Asked(q, k, s).route = q.route
                    /\ Asked(q, k, s).region = q.region
      BY RequestAssumption DEF Asked
    <3>2. \A p : p.family = q.family /\ p.route = q.route /\ p.region = q.region =>
            FamilyAnswer(w, p, t) = MissionsList(w[q.region].db, p)
      BY <1>2, <2>1 DEF FamilyAnswer, MissionAnswer
    <3> QED
      BY <3>1, <3>2
  <2>3. PICK list, shown, sizes :
          /\ IsList(list)
          /\ \A k \in Nat \ {0}, s \in PageSize :
               MadePage(ItselfAnswer(q, MissionsList(w[q.region].db, Asked(q, k, s))), list, shown, sizes, k, s)
    BY <1>2, <2>1, MissionPages
  <2> QED
    BY <2>2, <2>3
<1> QED
  BY <1>1, <1>2

\* The pages of a list, joined, are the list.
LEMMA JoinedPages ==
  ASSUME NEW L, IsList(L), NEW s \in Nat \ {0},
         NEW ss, Len(ss) = PagesFor(Len(L), s), \A k \in 1 .. PagesFor(Len(L), s) : ss[k] = Slice(L, k, s)
  PROVE  ConcatAll(ss) = L
<1>1. PICK len \in Nat : len = Len(L) /\ DOMAIN L = 1 .. len
  BY ListIsNumbered
<1>2. PICK T : L \in Seq(T)
  BY DEF IsList
<1>3. PICK total \in Nat : total = PagesFor(len, s)
  <2>1. 1 \in Nat \ {0}
    OBVIOUS
  <2> QED
    BY <1>1, <2>1, PagesCounted
<1>4. PICK upTo : /\ ConcatAll(ss) = upTo[total]
                  /\ upTo[0] = <<>>
                  /\ \A n \in Nat \ {0} : upTo[n] = upTo[n - 1] \o ss[n]
  BY <1>1, <1>3, ConcatIsStepwise
<1> DEFINE reached(n) == AtMost(n * s, len)
           Good(n)    == /\ upTo[n] \in Seq(T) /\ Len(upTo[n]) = reached(n)
                         /\ \A i \in 1 .. reached(n) : upTo[n][i] = L[i]
           bad        == {n \in 0 .. total : ~Good(n)}
<1>5. Good(0)
  <2>1. reached(0) = 0
    BY DEF AtMost
  <2>2. upTo[0] \in Seq(T) /\ Len(upTo[0]) = 0
    BY <1>4
  <2> QED
    BY <2>1, <2>2
<1>6. ASSUME NEW n \in 1 .. total, Good(n - 1) PROVE Good(n)
  <2>1. PICK from \in Nat : from = (n - 1) * s /\ from < len /\ n * s = from + s
    <3>1. n \in Nat \ {0} /\ (n - 1) + 1 = n /\ n - 1 \in Int
      OBVIOUS
    <3>2. (n - 1) * s \in Nat /\ (n - 1) * s < len
      BY <1>3, <3>1, PagesCounted
    <3>3. ((n - 1) + 1) * s = (n - 1) * s + s
      BY <3>1, Multiples
    <3> QED
      BY <3>1, <3>2, <3>3
  <2>2. PICK held \in Seq(T) : held = Slice(L, n, s)
    BY <1>2, PageHolds
  <2>3. PICK h \in Nat : h = Len(held)
    OBVIOUS
  <2>4. /\ h <= s
        /\ \A k \in 1 .. s : k <= h <=> from + k <= len
        /\ \A k \in 1 .. h : held[k] = L[from + k]
    <3>1. n \in Nat \ {0}
      OBVIOUS
    <3>2. /\ Len(held) <= s
          /\ \A k \in 1 .. s : k <= Len(held) <=> (n - 1) * s + k <= Len(L)
          /\ \A k \in 1 .. Len(held) : held[k] = L[(n - 1) * s + k]
      BY <1>2, <2>2, <3>1, PageHolds
    <3> QED
      BY <1>1, <2>1, <2>3, <3>2
  <2>5. reached(n - 1) = from /\ reached(n) = IF from + s > len THEN len ELSE from + s
    BY <2>1 DEF AtMost
  <2>6. reached(n) = from + h
    <3>1. CASE from + s > len
      <4>1. PICK d \in 1 .. s : from + d = len
        BY <2>1, <3>1
      <4>2. d <= h /\ (d + 1 \in 1 .. s => ~(d + 1 <= h))
        <5>1. d <= h
          <6>1. d <= h <=> from + d <= len
            BY <2>4
          <6> QED
            BY <4>1, <6>1
        <5>2. ASSUME d + 1 \in 1 .. s PROVE ~(d + 1 <= h)
          <6>1. d + 1 <= h <=> from + (d + 1) <= len
            BY <2>4, <5>2
          <6> QED
            BY <2>1, <4>1, <6>1
        <5> QED
          BY <5>1, <5>2
      <4>3. d \in Nat /\ d <= s
        BY <4>1
      <4>4. h <= s
        BY <2>4
      <4>5. h = d
        <5>1. d <= h
          BY <4>2
        <5>2. ASSUME d < h PROVE FALSE
          <6>1. d + 1 \in 1 .. s /\ d + 1 <= h
            BY <2>3, <4>3, <4>4, <5>2
          <6> QED
            BY <4>2, <6>1
        <5> QED
          BY <2>3, <4>3, <5>1, <5>2
      <4>6. reached(n) = len
        BY <2>5, <3>1
      <4> QED
        BY <4>1, <4>5, <4>6
    <3>2. CASE ~(from + s > len)
      <4>1. s \in 1 .. s
        OBVIOUS
      <4>2. s <= h <=> from + s <= len
        BY <2>4, <4>1
      <4>3. h = s
        BY <2>1, <2>3, <2>4, <3>2, <4>2
      <4> QED
        BY <2>5, <3>2, <4>3
    <3> QED
      BY <3>1, <3>2
  <2>7. PICK before \in Seq(T) : before = upTo[n - 1]
    BY <1>6
  <2>8. Len(before) = from /\ \A i \in 1 .. from : before[i] = L[i]
    BY <1>6, <2>5, <2>7
  <2>9. upTo[n] = before \o held
    <3>1. n \in Nat \ {0} /\ n \in 1 .. PagesFor(Len(L), s)
      BY <1>1, <1>3
    <3>2. upTo[n] = upTo[n - 1] \o ss[n]
      BY <1>4, <3>1
    <3>3. ss[n] = Slice(L, n, s)
      BY <3>1
    <3> QED
      BY <2>2, <2>7, <3>2, <3>3
  <2>10. upTo[n] \in Seq(T) /\ Len(upTo[n]) = from + h
    <3>1. before \o held \in Seq(T) /\ Len(before \o held) = Len(before) + Len(held)
      OBVIOUS
    <3> QED
      BY <2>3, <2>8, <2>9, <3>1
  <2>11. ASSUME NEW i \in 1 .. from + h PROVE upTo[n][i] = L[i]
    <3>1. CASE i <= from
      BY <2>3, <2>8, <2>9, <3>1
    <3>2. CASE i > from
      <4>1. PICK k \in 1 .. h : i = from + k
        BY <3>2
      <4>2. (before \o held)[i] = held[k]
        BY <2>3, <2>8, <4>1
      <4> QED
        BY <2>4, <2>9, <4>1, <4>2
    <3> QED
      BY <3>1, <3>2
  <2> QED
    BY <2>6, <2>10, <2>11
<1>7. Good(total)
  <2>1. bad = {}
    <3> SUFFICES ASSUME bad # {} PROVE FALSE
      OBVIOUS
    <3>1. PICK n \in bad : \A x \in bad : n <= x
      <4>1. bad \subseteq Nat
        OBVIOUS
      <4> HIDE DEF bad
      <4> QED
        BY <4>1, LeastNumber
    <3>2. n \in 0 .. total /\ ~Good(n) /\ \A x \in 0 .. total : ~Good(x) => n <= x
      BY <3>1
    <3> HIDE DEF Good, bad
    <3>3. n # 0
      BY <1>5, <3>2
    <3>4. n \in 1 .. total /\ n - 1 \in 0 .. total /\ ~(n <= n - 1)
      BY <3>2, <3>3
    <3> QED
      BY <1>6, <3>2, <3>4
  <2> HIDE DEF Good
  <2> QED
    BY <2>1
<1>8. reached(total) = len
  <2>1. total + 1 \in Nat \ {0} /\ (total + 1) - 1 = total
    OBVIOUS
  <2>2. total * s \in Nat /\ (total * s < len <=> total + 1 <= total)
    BY <1>3, <2>1, PagesCounted
  <2> QED
    BY <2>2 DEF AtMost
<1>9. upTo[total] \in Seq(T) /\ Len(upTo[total]) = len /\ \A i \in 1 .. len : upTo[total][i] = L[i]
  BY <1>7, <1>8
<1>10. PICK joined \in Seq(T) : joined = upTo[total]
  BY <1>9
<1>11. joined = L
  <2> HIDE DEF reached, Good, bad
  <2> QED
    BY <1>1, <1>2, <1>9, <1>10
<1> QED
  BY <1>4, <1>10, <1>11

-----------------------------------------------------------------------------
(* The pages of a request                                                   *)

\* The pages, numbered from 1, that L is cut into.
CutOf(pages, L, s) ==
  \A k \in Nat \ {0} : pages[k].items = Slice(L, k, s) /\ pages[k].pagination = PaginationOf(k, s, Len(L))

\* The pages a list is cut into are the whole list, and say so.
LEMMA CutPagesAreWhole ==
  ASSUME NEW L, IsList(L), NEW s \in Nat \ {0}, NEW pages, CutOf(pages, L, s)
  PROVE  AllOf(pages) = L /\ AreWhole(pages, pages[1].pagination)
<1>1. PICK len \in Nat : len = Len(L)
  BY ListIsNumbered
<1>2. PICK total \in Nat : total = PagesFor(len, s)
  <2>1. 1 \in Nat \ {0}
    OBVIOUS
  <2> QED
    BY <2>1, PagesCounted
<1>3. /\ pages[1].pagination.totalPages = total /\ pages[1].pagination.total = len
      /\ \A k \in Nat \ {0} :
           /\ pages[k].items = Slice(L, k, s)
           /\ pages[k].pagination.hasNext <=> k < total
  <2>1. \A k \in Nat \ {0} :
          /\ pages[k].items = Slice(L, k, s)
          /\ pages[k].pagination = [page |-> k, size |-> s, total |-> len, totalPages |-> total,
                                    hasNext |-> k < total]
    BY <1>1, <1>2 DEF CutOf, PaginationOf
  <2>2. 1 \in Nat \ {0}
    OBVIOUS
  <2>3. pages[1].pagination = [page |-> 1, size |-> s, total |-> len, totalPages |-> total,
                               hasNext |-> 1 < total]
    BY <2>1, <2>2
  <2>4. pages[1].pagination.totalPages = total /\ pages[1].pagination.total = len
    BY <2>3
  <2>5. ASSUME NEW k \in Nat \ {0} PROVE pages[k].pagination.hasNext <=> k < total
    <3>1. pages[k].pagination = PaginationOf(k, s, len)
      BY <1>1 DEF CutOf
    <3>2. PaginationOf(k, s, len).hasNext <=> k < total
      BY <1>2 DEF PaginationOf
    <3> QED
      BY <3>1, <3>2, Zenon
  <2> QED
    BY <2>1, <2>4, <2>5
<1>4. AllOf(pages) = L
  <2> DEFINE ss == [k \in 1 .. total |-> pages[k].items]
  <2>1. Len(ss) = total /\ \A k \in 1 .. total : ss[k] = Slice(L, k, s)
    BY <1>2, <1>3
  <2>2. AllOf(pages) = ConcatAll(ss)
    BY <1>3 DEF AllOf
  <2> HIDE DEF ss
  <2>3. ConcatAll(ss) = L
    BY <1>1, <1>2, <2>1, JoinedPages
  <2> QED
    BY <2>2, <2>3
<1>5. ASSUME NEW k \in Nat \ {0} PROVE Slice(L, k, s) # <<>> <=> k <= total
  <2>1. PICK T : L \in Seq(T)
    BY DEF IsList
  <2>2. \A page \in Nat \ {0} : Slice(L, page, s) # <<>> <=> page <= PagesFor(Len(L), s)
    BY <2>1, PagesHoldEachItemOnce
  <2> QED
    BY <1>1, <1>2, <2>2
<1>6. \A k \in 1 .. total + 1 :
        /\ pages[k].items # <<>> <=> k <= total
        /\ pages[k].pagination.hasNext <=> k < total
  BY <1>3, <1>5
<1>7. Len(AllOf(pages)) = pages[1].pagination.total
  BY <1>1, <1>3, <1>4
<1>8. \A k \in 1 .. pages[1].pagination.totalPages + 1 :
        /\ pages[k].items # <<>> <=> k <= pages[1].pagination.totalPages
        /\ pages[k].pagination.hasNext <=> k < pages[1].pagination.totalPages
  <2>1. pages[1].pagination.totalPages = total
    BY <1>3
  <2> SUFFICES ASSUME NEW k \in 1 .. pages[1].pagination.totalPages + 1
               PROVE  /\ pages[k].items # <<>> <=> k <= pages[1].pagination.totalPages
                      /\ pages[k].pagination.hasNext <=> k < pages[1].pagination.totalPages
    OBVIOUS
  <2>2. k \in 1 .. total + 1
    BY <2>1
  <2>3. /\ pages[k].items # <<>> <=> k <= total
        /\ pages[k].pagination.hasNext <=> k < total
    BY <1>6, <2>2, Zenon
  <2> QED
    BY <2>1, <2>3, Zenon
<1> QED
  BY <1>4, <1>7, <1>8, Zenon DEF AreWhole

\* An answer that refuses the size or is a page of L.
IsCutOf(answer, L, sizes, k, s) ==
  /\ answer.status = 200 <=> s \in sizes
  /\ s \in sizes => /\ answer.body.items = Slice(L, k, s)
                    /\ answer.body.pagination = PaginationOf(k, s, Len(L))

\* Whatever page of whatever size a request asks for, it is accepted or refused
\* by its size, and cut of one list.
LEMMA OneListIsCut ==
  ASSUME NEW w, NEW q \in Request, q.route \in PagedRoutes, HoldsLists(w[q.region].db), NEW t
  PROVE  \E L, sizes :
           /\ IsList(L)
           /\ \A k \in Nat \ {0}, s \in PageSize :
                IsCutOf(ItselfAnswer(q, FamilyAnswer(w, Asked(q, k, s), t)), L, sizes, k, s)
<1>1. PICK list, shown, sizes :
        /\ IsList(list)
        /\ \A k \in Nat \ {0}, s \in PageSize :
             MadePage(ItselfAnswer(q, FamilyAnswer(w, Asked(q, k, s), t)), list, shown, sizes, k, s)
  BY ItemsArePaged
<1>2. PICK n \in Nat : n = Len(list) /\ DOMAIN list = 1 .. n
  BY <1>1, ListIsNumbered
<1> DEFINE L == [i \in 1 .. n |-> shown[list[i]]]
<1>3. IsList(L) /\ Len(L) = n /\ \A i \in 1 .. n : L[i] = shown[list[i]]
  <2>1. \A x : x = L => x = [i \in 1 .. n |-> x[i]]
    OBVIOUS
  <2> QED
    BY <2>1, NumberedIsList
<1> HIDE DEF L
<1>4. ASSUME NEW k \in Nat \ {0}, NEW s \in PageSize
      PROVE  Slice(L, k, s) = [i \in DOMAIN Slice(list, k, s) |-> shown[Slice(list, k, s)[i]]]
  <2>1. s \in Nat \ {0}
    BY QueryAssumption DEF PageSize
  <2>2. /\ Slice(L, k, s) = [i \in DOMAIN Slice(list, k, s) |-> L[PlaceAt(k, s, i)]]
        /\ \A i \in DOMAIN Slice(list, k, s) :
             PlaceAt(k, s, i) \in DOMAIN list /\ Slice(list, k, s)[i] = list[PlaceAt(k, s, i)]
    BY <1>1, <1>2, <1>3, <2>1, PageIsMapped
  <2>3. \A i \in DOMAIN Slice(list, k, s) : L[PlaceAt(k, s, i)] = shown[Slice(list, k, s)[i]]
    BY <1>2, <1>3, <2>2
  <2> QED
    BY <2>2, <2>3
<1>5. ASSUME NEW k \in Nat \ {0}, NEW s \in PageSize
      PROVE  IsCutOf(ItselfAnswer(q, FamilyAnswer(w, Asked(q, k, s), t)), L, sizes, k, s)
  <2>1. MadePage(ItselfAnswer(q, FamilyAnswer(w, Asked(q, k, s), t)), list, shown, sizes, k, s)
    BY <1>1
  <2> QED
    BY <1>2, <1>3, <1>4, <2>1 DEF MadePage, IsCutOf
<1> QED
  BY <1>3, <1>5

\* The lists of a content are partitioned by their pages, at any moment.
LEMMA ContentIsPartitioned == ASSUME NEW c \in Content PROVE PagesPartitionListsIn[c]
<1> SUFFICES ASSUME NEW t \in Moment, NEW q \in Paged
             PROVE  LET accepted == {s \in PageSize : Replied(c, t, Sized(q, s)).status = 200}
                    IN  CutOneList([s \in accepted |->
                          [k \in Nat \ {0} |-> PageItself(q, PagesOf(LAMBDA p : Replied(c, t, p), Sized(q, s))[k])]])
  BY Zenon DEF PagesPartitionListsIn, PagesPartition, PageSize
<1>1. /\ q \in Request /\ q.route \in PagedRoutes /\ q.region \in Region
      /\ {"page", "size"} \subseteq DOMAIN q /\ q.page \in Nat \ {0}
  BY RequestAssumption, PublicReadAssumption DEF Paged
<1>2. HoldsLists(WorldOf(c)[q.region].db)
  BY <1>1, ContentAssumption DEF WorldOf
<1>3. PICK L, sizes :
        /\ IsList(L)
        /\ \A k \in Nat \ {0}, s \in PageSize :
             IsCutOf(ItselfAnswer(q, FamilyAnswer(WorldOf(c), Asked(q, k, s), t)), L, sizes, k, s)
  BY <1>1, <1>2, OneListIsCut
<1>4. \A k, s : PageOf(Sized(q, s), k) = Asked(q, k, s)
  BY <1>1 DEF PageOf, Sized, Asked
<1>5. \A s : Sized(q, s) = Asked(q, q.page, s)
  BY <1>1 DEF Sized, Asked
<1> DEFINE accepted == {s \in PageSize : Replied(c, t, Sized(q, s)).status = 200}
           lists    == [s \in accepted |->
                         [k \in Nat \ {0} |-> PageItself(q, PagesOf(LAMBDA p : Replied(c, t, p), Sized(q, s))[k])]]
<1>6. \A s \in accepted : s \in PageSize /\ s \in sizes /\ s \in Nat \ {0}
  <2> SUFFICES ASSUME NEW s \in PageSize, Replied(c, t, Sized(q, s)).status = 200
               PROVE  s \in sizes /\ s \in Nat \ {0}
    OBVIOUS
  <2>1. FamilyAnswer(WorldOf(c), Asked(q, q.page, s), t).status = 200
    BY <1>5 DEF Replied
  <2>2. ItselfAnswer(q, FamilyAnswer(WorldOf(c), Asked(q, q.page, s), t)).status = 200
    BY <2>1 DEF ItselfAnswer
  <2> QED
    BY <1>1, <1>3, <2>2, QueryAssumption DEF PageSize, IsCutOf
<1>7. ASSUME NEW s \in accepted PROVE CutOf(lists[s], L, s)
  <2>1. s \in PageSize /\ s \in sizes
    BY <1>6
  <2>2. ASSUME NEW k \in Nat \ {0}
        PROVE  /\ lists[s][k].items = Slice(L, k, s)
               /\ lists[s][k].pagination = PaginationOf(k, s, Len(L))
    <3>1. lists[s][k] = PageItself(q, Replied(c, t, PageOf(Sized(q, s), k)).body)
      BY DEF PagesOf
    <3>2. PICK answer : answer = FamilyAnswer(WorldOf(c), Asked(q, k, s), t)
      OBVIOUS
    <3> HIDE DEF lists, accepted
    <3>3. lists[s][k] = PageItself(q, answer.body)
      BY <1>4, <3>1, <3>2 DEF Replied
    <3>4. lists[s][k] = ItselfAnswer(q, answer).body
      BY <3>3 DEF ItselfAnswer
    <3> QED
      BY <1>3, <2>1, <3>2, <3>4 DEF IsCutOf
  <2> QED
    BY <2>2 DEF CutOf
<1>8. DOMAIN lists = accepted
  OBVIOUS
<1> HIDE DEF lists
<1>9. \A s \in accepted : AllOf(lists[s]) = L /\ AreWhole(lists[s], lists[s][1].pagination)
  BY <1>3, <1>6, <1>7, CutPagesAreWhole
<1>10. CutOneList(lists)
  BY <1>8, <1>9 DEF CutOneList
<1> QED
  BY <1>10 DEF lists

\* Whatever the regions store and whatever the time, the pages of a list, put
\* together, are the list, whatever the size of a page (PaginateItems,
\* ListByPage and the typed lists): no item is left out, met twice or moved by
\* the page size, the count is right, and hasNext ends at the last page.  The
\* levels of a listed mission's group are left out, as these do depend on the
\* page (resolveMissionParameterGroups).
THEOREM PagesArePartitions == Spec => []PagesPartitionLists
<1>1. CacheInv => PagesPartitionLists
  BY ContentIsPartitioned, ServedIsStored DEF PagesPartitionLists
<1> QED
  BY <1>1, CacheInvariant, PTL

-----------------------------------------------------------------------------
(* Sums and orders                                                          *)

\* The sums of the first numbers of ns (SumAll).
IsSumTo(g, ns, n) == g = [m \in 0 .. n |-> IF m = 0 THEN 0 ELSE g[m - 1] + ns[m]]

\* They exist, however many there are.
LEMMA SumsExist ==
  ASSUME NEW ns, NEW n \in Nat
  PROVE  \E g : IsSumTo(g, ns, n)
<1> DEFINE bad == {m \in Nat : ~ \E g : IsSumTo(g, ns, m)}
<1>1. bad = {}
  <2> SUFFICES ASSUME bad # {} PROVE FALSE
    OBVIOUS
  <2>1. PICK m \in bad : \A x \in bad : m <= x
    <3>1. bad \subseteq Nat
      OBVIOUS
    <3> HIDE DEF bad
    <3> QED
      BY <3>1, LeastNumber
  <2>2. CASE m = 0
    <3>1. IsSumTo([x \in 0 .. 0 |-> 0], ns, 0)
      BY DEF IsSumTo
    <3> QED
      BY <2>2, <3>1
  <2>3. CASE m # 0
    <3>1. m \in Nat /\ m - 1 \in Nat /\ m - 1 \notin bad
      BY <2>1, <2>3
    <3>2. PICK g : IsSumTo(g, ns, m - 1)
      BY <3>1
    <3> DEFINE h == [x \in 0 .. m |-> IF x = m THEN g[m - 1] + ns[m] ELSE g[x]]
    <3>3. \A x \in 0 .. m - 1 : g[x] = IF x = 0 THEN 0 ELSE g[x - 1] + ns[x]
      BY <3>2 DEF IsSumTo
    <3>4. \A x \in 0 .. m : h[x] = IF x = 0 THEN 0 ELSE h[x - 1] + ns[x]
      <4>1. ASSUME NEW x \in 0 .. m, x = m PROVE h[x] = IF x = 0 THEN 0 ELSE h[x - 1] + ns[x]
        BY <2>3, <3>1, <4>1
      <4>2. ASSUME NEW x \in 0 .. m, x # m PROVE h[x] = IF x = 0 THEN 0 ELSE h[x - 1] + ns[x]
        <5>1. x \in 0 .. m - 1 /\ h[x] = g[x]
          BY <3>1, <4>2
        <5>2. x # 0 => x - 1 \in 0 .. m /\ x - 1 # m /\ h[x - 1] = g[x - 1]
          BY <3>1, <4>2
        <5> QED
          BY <3>3, <5>1, <5>2
      <4> QED
        BY <4>1, <4>2
    <3>5. h = [x \in 0 .. m |-> h[x]]
      OBVIOUS
    <3>6. IsSumTo(h, ns, m)
      <4> HIDE DEF h
      <4> QED
        BY <3>4, <3>5 DEF IsSumTo
    <3> HIDE DEF h
    <3> QED
      BY <2>1, <3>6
  <2> QED
    BY <2>2, <2>3
<1> QED
  BY <1>1

\* Each number is added to the sum of those before it.
LEMMA SumsStep ==
  ASSUME NEW ns, NEW n \in Nat, NEW g, IsSumTo(g, ns, n), NEW m \in 0 .. n
  PROVE  g[m] = IF m = 0 THEN 0 ELSE g[m - 1] + ns[m]
BY DEF IsSumTo

\* And in one way only.
LEMMA SumsAgree ==
  ASSUME NEW ns, NEW n \in Nat, NEW p \in Nat, n <= p, NEW g, IsSumTo(g, ns, n), NEW h, IsSumTo(h, ns, p)
  PROVE  g[n] = h[n]
<1> DEFINE bad == {m \in 0 .. n : g[m] # h[m]}
<1>1. ASSUME bad # {} PROVE FALSE
  <2>1. PICK m \in bad : \A x \in bad : m <= x
    <3>1. bad \subseteq Nat
      OBVIOUS
    <3> HIDE DEF bad
    <3> QED
      BY <1>1, <3>1, LeastNumber
  <2>2. m \in 0 .. n /\ m \in 0 .. p /\ g[m] # h[m]
    BY <2>1
  <2>3. /\ g[m] = IF m = 0 THEN 0 ELSE g[m - 1] + ns[m]
        /\ h[m] = IF m = 0 THEN 0 ELSE h[m - 1] + ns[m]
    BY <2>2 DEF IsSumTo
  <2>4. m # 0 => g[m - 1] = h[m - 1]
    BY <2>1, <2>2
  <2> QED
    BY <2>2, <2>3, <2>4
<1> QED
  BY <1>1

\* SumAll adds the numbers one after the other.
LEMMA SumIsStepwise ==
  ASSUME NEW ns
  PROVE  \E upTo : /\ SumAll(ns) = upTo[Len(ns)]
                   /\ upTo[0] = 0
                   /\ \A n \in Nat \ {0} : upTo[n] = upTo[n - 1] + ns[n]
<1> DEFINE Added(n) == CHOOSE g : IsSumTo(g, ns, n)
           F       == [n \in Nat |-> Added(n)[n]]
           Is(G)   == G = [n \in Nat |-> IF n = 0 THEN 0 ELSE G[n - 1] + ns[n]]
<1>1. \A n \in Nat : IsSumTo(Added(n), ns, n)
  BY SumsExist
<1>2. \A n \in Nat : F[n] = IF n = 0 THEN 0 ELSE F[n - 1] + ns[n]
  <2> SUFFICES ASSUME NEW n \in Nat PROVE F[n] = IF n = 0 THEN 0 ELSE F[n - 1] + ns[n]
    OBVIOUS
  <2>1. F[n] = Added(n)[n] /\ (n # 0 => n - 1 \in Nat /\ F[n - 1] = Added(n - 1)[n - 1])
    OBVIOUS
  <2> HIDE DEF Added, F
  <2>2. Added(n)[n] = IF n = 0 THEN 0 ELSE Added(n)[n - 1] + ns[n]
    <3>1. IsSumTo(Added(n), ns, n) /\ n \in 0 .. n
      BY <1>1
    <3> QED
      BY <3>1, SumsStep
  <2>3. n # 0 => Added(n - 1)[n - 1] = Added(n)[n - 1]
    <3> SUFFICES ASSUME n # 0 PROVE Added(n - 1)[n - 1] = Added(n)[n - 1]
      OBVIOUS
    <3>1. PICK m \in Nat : m = n - 1 /\ m <= n
      OBVIOUS
    <3>2. IsSumTo(Added(m), ns, m) /\ IsSumTo(Added(n), ns, n)
      BY <1>1
    <3>3. Added(m)[m] = Added(n)[m]
      BY <3>1, <3>2, SumsAgree
    <3> QED
      BY <3>1, <3>3
  <2> QED
    BY <2>1, <2>2, <2>3
<1>3. F = [n \in Nat |-> F[n]]
  OBVIOUS
<1>4. Is(F)
  <2> HIDE DEF F
  <2> QED
    BY <1>2, <1>3
<1> DEFINE upTo == CHOOSE G : Is(G)
<1>5. Is(upTo)
  <2> HIDE DEF Is, F
  <2> QED
    BY <1>4, Zenon
<1>6. SumAll(ns) = upTo[Len(ns)]
  BY DEF SumAll
<1> HIDE DEF upTo
<1>7. upTo[0] = 0 /\ \A n \in Nat \ {0} : upTo[n] = upTo[n - 1] + ns[n]
  BY <1>5
<1> QED
  BY <1>6, <1>7

\* A sum of numbers that are not negative is at least each of them.
LEMMA SumBounds ==
  ASSUME NEW len \in Nat, NEW ns, IsList(ns), Len(ns) = len, \A i \in 1 .. len : ns[i] \in Nat
  PROVE  SumAll(ns) \in Nat /\ \A i \in 1 .. len : ns[i] <= SumAll(ns)
<1>1. PICK upTo : /\ SumAll(ns) = upTo[Len(ns)]
                  /\ upTo[0] = 0
                  /\ \A n \in Nat \ {0} : upTo[n] = upTo[n - 1] + ns[n]
  BY SumIsStepwise
<1>2. SumAll(ns) = upTo[len]
  BY <1>1
<1> DEFINE Good(n) == upTo[n] \in Nat /\ \A i \in 1 .. n : ns[i] <= upTo[n]
           bad     == {n \in 0 .. len : ~Good(n)}
<1>3. ASSUME NEW n \in 1 .. len, Good(n - 1) PROVE Good(n)
  <2>1. upTo[n] = upTo[n - 1] + ns[n]
    BY <1>1
  <2>2. PICK x \in Nat, y \in Nat : x = upTo[n - 1] /\ y = ns[n] /\ \A i \in 1 .. n - 1 : ns[i] <= x
    BY <1>3
  <2>3. upTo[n] = x + y
    BY <2>1, <2>2
  <2>4. ASSUME NEW i \in 1 .. n PROVE ns[i] <= upTo[n]
    <3>1. CASE i = n
      BY <2>2, <2>3, <3>1
    <3>2. CASE i # n
      <4>1. i \in 1 .. n - 1 /\ ns[i] \in Nat
        BY <3>2
      <4> QED
        BY <2>2, <2>3, <4>1
    <3> QED
      BY <3>1, <3>2
  <2> QED
    BY <2>2, <2>3, <2>4
<1>4. bad = {}
  <2> SUFFICES ASSUME bad # {} PROVE FALSE
    OBVIOUS
  <2>1. PICK n \in bad : \A x \in bad : n <= x
    <3>1. bad \subseteq Nat
      OBVIOUS
    <3> HIDE DEF bad
    <3> QED
      BY <3>1, LeastNumber
  <2>2. n \in 0 .. len /\ ~Good(n) /\ \A x \in 0 .. len : ~Good(x) => n <= x
    BY <2>1
  <2>3. Good(0)
    BY <1>1
  <2> HIDE DEF Good, bad
  <2>4. n \in 1 .. len /\ n - 1 \in 0 .. len /\ ~(n <= n - 1)
    BY <2>2, <2>3
  <2> QED
    BY <1>3, <2>2, <2>4
<1>5. Good(len)
  <2> HIDE DEF Good
  <2> QED
    BY <1>4
<1> QED
  BY <1>2, <1>5

\* A list put in a strict order of its places has the same members.
LEMMA OrderKeeps ==
  ASSUME NEW n \in Nat, NEW s, DOMAIN s = 1 .. n, NEW R, StrictOrder(R, 1 .. n)
  PROVE  {s[Ranked(1 .. n, R, i)] : i \in 1 .. n} = Range(s)
<1>1. IsFiniteSet(1 .. n) /\ Cardinality(1 .. n) = n
  BY Places
<1>2. /\ \A i \in 1 .. n : Ranked(1 .. n, R, i) \in 1 .. n
      /\ \A x \in 1 .. n : \E i \in 1 .. n : x = Ranked(1 .. n, R, i)
  <2>1. Numbered(1 .. n, R)
    BY <1>1, OrderNumbers
  <2> QED
    BY <1>1, <2>1 DEF Numbered
<1> QED
  BY <1>2 DEF Range

\* Ids in ascending order are the same ids.
LEMMA AscendingKeeps ==
  ASSUME NEW ids \in Seq(Int)
  PROVE  Ascending(ids) \in Seq(Int) /\ Range(Ascending(ids)) = Range(ids)
<1>1. PICK s : s = Distinct(ids)
  OBVIOUS
<1>2. s \in Seq(Int) /\ Range(s) = Range(ids) /\ IsInjective(s)
  BY <1>1, DistinctHolds
<1>3. PICK n \in Nat : n = Len(s) /\ DOMAIN s = 1 .. n
  BY <1>2
<1> DEFINE Precedes(i, j) == s[i] < s[j] \/ (~(s[j] < s[i]) /\ i < j)
           before == {p \in (1 .. n) \X (1 .. n) : Precedes(p[1], p[2])}
<1>4. StrictOrder(before, 1 .. n)
  <2>1. \A i, j \in 1 .. n : <<i, j>> \in before <=> Precedes(i, j)
    OBVIOUS
  <2>2. \A i \in 1 .. n : i \in Int /\ s[i] \in Int
    BY <1>2, <1>3
  <2> HIDE DEF before
  <2>3. \A i \in 1 .. n : ~Precedes(i, i)
    BY <2>2
  <2>4. \A i, j, l \in 1 .. n : Precedes(i, j) /\ Precedes(j, l) => Precedes(i, l)
    BY <2>2
  <2>5. \A i, j \in 1 .. n : i # j => Precedes(i, j) \/ Precedes(j, i)
    BY <2>2
  <2> HIDE DEF Precedes
  <2> QED
    BY <2>1, <2>3, <2>4, <2>5 DEF StrictOrder
<1>5. Ascending(ids) = [i \in 1 .. n |-> s[Ranked(1 .. n, before, i)]]
  BY <1>1, <1>3 DEF Ascending, StableSort
<1> HIDE DEF before
<1>6. {s[Ranked(1 .. n, before, i)] : i \in 1 .. n} = Range(s)
  BY <1>3, <1>4, OrderKeeps
<1>7. Range(Ascending(ids)) = Range(ids)
  <2>1. Range(Ascending(ids)) = {s[Ranked(1 .. n, before, i)] : i \in 1 .. n}
    BY <1>5 DEF Range
  <2> QED
    BY <1>2, <1>6, <2>1
<1>8. Ascending(ids) \in [1 .. n -> Int]
  <2>1. \A i \in 1 .. n : s[Ranked(1 .. n, before, i)] \in Range(s)
    BY <1>6
  <2>2. Range(s) \subseteq Int
    BY <1>2, <1>3 DEF Range
  <2> QED
    BY <1>5, <2>1, <2>2
<1> QED
  BY <1>7, <1>8

\* An id, or none, as the two numbers its text compares as.
LEMMA TextsCompare ==
  ASSUME NEW id, id = None \/ id \in Nat
  PROVE  \E x, y \in Int : IdText(id) = <<x, y>> 
<1>1. id \in Nat => id \div 10 \in Int /\ id % 10 \in Int
  OBVIOUS
<1> QED
  BY <1>1 DEF IdText

\* Values in ascending order, missing ones last.
LEMMA ValuesCompare ==
  ASSUME NEW x, NEW y, NEW tie \in BOOLEAN
  PROVE  ValueBefore(x, y, FALSE, tie) <=> \/ x # None /\ y = None
                                           \/ x # None /\ y # None /\ x # y /\ x < y
                                           \/ x = y /\ tie
<1>1. CASE x = None /\ y = None
  BY <1>1 DEF ValueBefore
<1>2. CASE x = None /\ y # None
  BY <1>2 DEF ValueBefore
<1>3. CASE x # None /\ y = None
  BY <1>3 DEF ValueBefore
<1>4. CASE x # None /\ y # None
  BY <1>4 DEF ValueBefore
<1> QED
  BY <1>1, <1>2, <1>3, <1>4

\* Records in the order of their seq and id are the same records.
LEMMA BySeqThenIdKeeps ==
  ASSUME NEW T, NEW s \in Seq(T), \A r \in Range(s) : Get(r, "id") = None \/ Get(r, "id") \in Nat
  PROVE  BySeqThenId(s) \in Seq(T) /\ Range(BySeqThenId(s)) = Range(s)
<1>1. PICK n \in Nat : n = Len(s) /\ DOMAIN s = 1 .. n
  OBVIOUS
<1> DEFINE seq(i) == NumberOf(s[i], "seq")
           text(i) == IdText(Get(s[i], "id"))
           Less(i, j) == SeqThenId(s[i], s[j])
           Precedes(i, j) == Less(i, j) \/ (~Less(j, i) /\ i < j)
           before == {p \in (1 .. n) \X (1 .. n) : Precedes(p[1], p[2])}
<1>2. \A i \in 1 .. n : i \in Int /\ (seq(i) = None \/ seq(i) \in Int)
  BY QueryAssumption DEF NumberOf, Get, Field
<1>3. \A i \in 1 .. n : text(i)[1] \in Int /\ text(i)[2] \in Int
  <2> SUFFICES ASSUME NEW i \in 1 .. n PROVE text(i)[1] \in Int /\ text(i)[2] \in Int
    OBVIOUS
  <2>1. Get(s[i], "id") = None \/ Get(s[i], "id") \in Nat
    BY <1>1 DEF Range
  <2>2. PICK x, y \in Int : text(i) = <<x, y>>
    BY <2>1, TextsCompare
  <2> QED
    BY <2>2
<1>4. \A i, j \in 1 .. n :
        Less(i, j) <=> \/ seq(i) # None /\ seq(j) = None
                       \/ seq(i) # None /\ seq(j) # None /\ seq(i) # seq(j) /\ seq(i) < seq(j)
                       \/ /\ seq(i) = seq(j)
                          /\ \/ text(i)[1] < text(j)[1]
                             \/ text(i)[1] = text(j)[1] /\ text(i)[2] < text(j)[2]
  <2> SUFFICES ASSUME NEW i \in 1 .. n, NEW j \in 1 .. n
               PROVE  Less(i, j) <=> \/ seq(i) # None /\ seq(j) = None
                                     \/ seq(i) # None /\ seq(j) # None /\ seq(i) # seq(j) /\ seq(i) < seq(j)
                                     \/ /\ seq(i) = seq(j)
                                        /\ \/ text(i)[1] < text(j)[1]
                                           \/ text(i)[1] = text(j)[1] /\ text(i)[2] < text(j)[2]
    OBVIOUS
  <2>1. Less(i, j) = ValueBefore(seq(i), seq(j), FALSE, IdBefore(Get(s[i], "id"), Get(s[j], "id")))
    BY DEF SeqThenId
  <2>2. IdBefore(Get(s[i], "id"), Get(s[j], "id"))
          <=> text(i)[1] < text(j)[1] \/ (text(i)[1] = text(j)[1] /\ text(i)[2] < text(j)[2])
    BY DEF IdBefore
  <2>3. IdBefore(Get(s[i], "id"), Get(s[j], "id")) \in BOOLEAN
    BY DEF IdBefore
  <2> HIDE DEF seq, text, Less
  <2> QED
    BY <2>1, <2>2, <2>3, ValuesCompare
<1>5. StrictOrder(before, 1 .. n)
  <2>1. \A i, j \in 1 .. n : <<i, j>> \in before <=> Precedes(i, j)
    OBVIOUS
  <2> HIDE DEF before, seq, text, Less
  <2>2. \A i \in 1 .. n : ~Precedes(i, i)
    BY <1>2, <1>3, <1>4
  <2>3. \A i, j, l \in 1 .. n : Precedes(i, j) /\ Precedes(j, l) => Precedes(i, l)
    <3> SUFFICES ASSUME NEW i \in 1 .. n, NEW j \in 1 .. n, NEW l \in 1 .. n,
                        Precedes(i, j), Precedes(j, l)
                 PROVE  Precedes(i, l)
      OBVIOUS
    <3>0. (Less(i, j) \/ (~Less(j, i) /\ i < j)) /\ (Less(j, l) \/ (~Less(l, j) /\ j < l))
      OBVIOUS
    <3>1. /\ i \in Int /\ j \in Int /\ l \in Int
          /\ seq(i) = None \/ seq(i) \in Int
          /\ seq(j) = None \/ seq(j) \in Int
          /\ seq(l) = None \/ seq(l) \in Int
          /\ text(i)[1] \in Int /\ text(j)[1] \in Int /\ text(l)[1] \in Int
          /\ text(i)[2] \in Int /\ text(j)[2] \in Int /\ text(l)[2] \in Int
      BY <1>2, <1>3
    <3>2. PICK a1 \in Int, a2 \in Int, b1 \in Int, b2 \in Int, c1 \in Int, c2 \in Int :
            /\ a1 = text(i)[1] /\ b1 = text(j)[1] /\ c1 = text(l)[1]
            /\ a2 = text(i)[2] /\ b2 = text(j)[2] /\ c2 = text(l)[2]
      BY <3>1
    <3>3. PICK x, y, z : x = seq(i) /\ y = seq(j) /\ z = seq(l)
      OBVIOUS
    <3> DEFINE Lower(p, q, a, b, c, d) ==
                 \/ p # None /\ q = None
                 \/ p # None /\ q # None /\ p # q /\ p < q
                 \/ p = q /\ (a < c \/ (a = c /\ b < d))
    <3>4. /\ Less(i, j) <=> Lower(x, y, a1, a2, b1, b2)
          /\ Less(j, i) <=> Lower(y, x, b1, b2, a1, a2)
          /\ Less(j, l) <=> Lower(y, z, b1, b2, c1, c2)
          /\ Less(l, j) <=> Lower(z, y, c1, c2, b1, b2)
          /\ Less(i, l) <=> Lower(x, z, a1, a2, c1, c2)
          /\ Less(l, i) <=> Lower(z, x, c1, c2, a1, a2)
      BY <1>4, <3>2, <3>3
    <3>5. (x = None \/ x \in Int) /\ (y = None \/ y \in Int) /\ (z = None \/ z \in Int)
      BY <3>1, <3>3
    <3>6. ASSUME y # None, x # None, z # None PROVE Less(i, l) \/ (~Less(l, i) /\ i < l)
      BY <3>0, <3>1, <3>4, <3>5, <3>6
    <3>7. ASSUME x = None \/ y = None \/ z = None PROVE Less(i, l) \/ (~Less(l, i) /\ i < l)
      BY <3>0, <3>1, <3>4, <3>5, <3>7
    <3> QED
      BY <3>6, <3>7
  <2>4. \A i, j \in 1 .. n : i # j => Precedes(i, j) \/ Precedes(j, i)
    BY <1>2
  <2> HIDE DEF Precedes
  <2> QED
    BY <2>1, <2>2, <2>3, <2>4 DEF StrictOrder
<1>6. BySeqThenId(s) = [i \in 1 .. n |-> s[Ranked(1 .. n, before, i)]]
  BY <1>1 DEF BySeqThenId, StableSort
<1> HIDE DEF before
<1>7. {s[Ranked(1 .. n, before, i)] : i \in 1 .. n} = Range(s)
  BY <1>1, <1>5, OrderKeeps
<1>8. Range(BySeqThenId(s)) = Range(s)
  BY <1>6, <1>7 DEF Range
<1>9. BySeqThenId(s) \in [1 .. n -> T]
  <2>1. \A i \in 1 .. n : s[Ranked(1 .. n, before, i)] \in Range(s)
    BY <1>7
  <2>2. Range(s) \subseteq T
    BY <1>1 DEF Range
  <2> QED
    BY <1>6, <2>1, <2>2
<1> QED
  BY <1>8, <1>9

\* What is picked of a list by a test on its members.
LEMMA MembersPicked ==
  ASSUME NEW T, NEW s \in Seq(T), NEW P \in SUBSET DOMAIN s
  PROVE  /\ Picked(s, P) \in Seq(T) /\ Range(Picked(s, P)) = {s[i] : i \in P}
         /\ Picked(s, P) = <<>> <=> P = {}
<1>1. PicksOf(s, T, P)
  BY PickedHolds
<1>2. PICK held \in Seq(T) : held = Picked(s, P)
  BY <1>1 DEF PicksOf
<1>3. Range(held) = {} <=> held = <<>>
  <2>1. CASE held = <<>>
    BY <2>1 DEF Range
  <2>2. CASE held # <<>>
    <3>1. 1 \in DOMAIN held
      BY <2>2
    <3> QED
      BY <2>2, <3>1 DEF Range
  <2> QED
    BY <2>1, <2>2
<1>4. {s[i] : i \in P} = {} <=> P = {}
  OBVIOUS
<1> QED
  BY <1>1, <1>2, <1>3, <1>4 DEF PicksOf

\* The joined records of some ids are those that are found.
LEMMA JoinsShow ==
  ASSUME NEW db, NEW entity, NEW T, NEW ids \in Seq(T)
  PROVE  Range(JoinedRecords(db, entity, ids)) = {GetByID(db, entity, id) : id \in Range(ids)} \ {None}
<1>1. PICK n \in Nat : n = Len(ids) /\ DOMAIN ids = 1 .. n
  OBVIOUS
<1> DEFINE found == [i \in 1 .. n |-> GetByID(db, entity, ids[i])]
           P     == {i \in DOMAIN found : found[i] # None}
<1>2. JoinedRecords(db, entity, ids) = Picked(found, P)
  BY <1>1 DEF JoinedRecords, GetByIDs, Selected
<1>3. found \in Seq(Range(found)) /\ Range(found) = {GetByID(db, entity, id) : id \in Range(ids)}
  <2>1. Range(found) = {GetByID(db, entity, id) : id \in Range(ids)}
    BY <1>1 DEF Range
  <2>2. found \in [1 .. n -> Range(found)]
    BY DEF Range
  <2> HIDE DEF found
  <2> QED
    BY <2>1, <2>2
<1>4. {found[i] : i \in P} = Range(found) \ {None}
  <2> HIDE DEF found
  <2> QED
    BY DEF Range
<1>5. P \in SUBSET DOMAIN found
  OBVIOUS
<1>6. Range(Picked(found, P)) = {found[i] : i \in P}
  <2> HIDE DEF P, found
  <2> QED
    BY <1>3, <1>5, MembersPicked
<1> HIDE DEF P, found
<1> QED
  BY <1>2, <1>3, <1>4, <1>6

\* The costs that ask for a material.
CostRows(db) == Range(ListAll(db, "mysekaiblueprintmaterialcosts"))
CostsOf(db, id) == ListByIndex(db, "mysekaiblueprintmaterialcosts", "mysekaiMaterialId", id)

\* The uses of a material are the fixtures its costs go into.
LEMMA UsesShow ==
  ASSUME NEW db, HoldsLists(db), NEW id
  PROVE  Range(MaterialUses(db, id))
           = {[fixture |-> Pick(f, {"id", "name"}), quantity |-> UsedFor(db, CostsOf(db, id), f.id)] :
                f \in {GetByID(db, "mysekaifixtures", target) :
                         target \in {CostTarget(db, d) : d \in Range(CostsOf(db, id))} \ {None}} \ {None}}
<1> DEFINE costs == CostsOf(db, id)
<1>1. MaterialUses(db, id)
        = MapSeq(JoinedRecords(db, "mysekaifixtures",
                   Ascending(Selected([i \in DOMAIN costs |-> CostTarget(db, costs[i])], LAMBDA x : x # None))),
                 LAMBDA f : [fixture |-> Pick(f, {"id", "name"}), quantity |-> UsedFor(db, costs, f.id)])
  BY Zenon DEF MaterialUses, CostsOf
<1>2. costs \in Seq(CostRows(db))
  BY IndexLists DEF CostsOf, CostRows
<1> HIDE DEF costs
<1>3. PICK n \in Nat : n = Len(costs) /\ DOMAIN costs = 1 .. n
  BY <1>2
<1> DEFINE made    == [i \in 1 .. n |-> CostTarget(db, costs[i])]
           P       == {i \in DOMAIN made : made[i] # None}
           targets == Picked(made, P)
           joined  == JoinedRecords(db, "mysekaifixtures", Ascending(targets))
           Use(f)  == [fixture |-> Pick(f, {"id", "name"}), quantity |-> UsedFor(db, costs, f.id)]
<1>4. MaterialUses(db, id) = MapSeq(joined, Use)
  <2>2. [i \in DOMAIN costs |-> CostTarget(db, costs[i])] = made
    BY <1>3
  <2> HIDE DEF made
  <2>3. Selected(made, LAMBDA x : x # None) = targets
    BY DEF Selected
  <2> HIDE DEF targets
  <2> QED
    BY <1>1, <2>2, <2>3, Zenon
<1>5. Range(made) = {CostTarget(db, d) : d \in Range(costs)} /\ made \in Seq(Int \cup {None})
  <2>1. \A d : CostTarget(db, d) \in Int \cup {None}
    BY QueryAssumption DEF CostTarget, Get, Field
  <2>2. Range(made) = {CostTarget(db, d) : d \in Range(costs)}
    BY <1>3 DEF Range
  <2>3. made \in [1 .. n -> Int \cup {None}]
    BY <2>1
  <2> HIDE DEF made
  <2> QED
    BY <2>2, <2>3
<1>6. {made[i] : i \in P} = Range(made) \ {None}
  <2> HIDE DEF made
  <2> QED
    BY DEF Range
<1>7. P \in SUBSET DOMAIN made
  OBVIOUS
<1>8. targets \in Seq(Int \cup {None}) /\ Range(targets) = Range(made) \ {None}
  <2>1. PICK T : T = Int \cup {None}
    OBVIOUS
  <2> HIDE DEF P, made
  <2>2. made \in Seq(T)
    BY <1>5, <2>1
  <2>3. Picked(made, P) \in Seq(T) /\ Range(Picked(made, P)) = {made[i] : i \in P}
    BY <1>7, <2>2, MembersPicked
  <2> QED
    BY <1>6, <2>1, <2>3
<1> HIDE DEF targets
<1>9. targets \in Seq(Int)
  <2>1. Range(targets) \subseteq Int
    <3> HIDE DEF made
    <3>1. Range(made) \subseteq Int \cup {None}
      BY <1>5 DEF Range
    <3> QED
      BY <1>8, <3>1
  <2>2. \A i \in 1 .. Len(targets) : targets[i] \in Int
    BY <1>8, <2>1 DEF Range
  <2> QED
    BY <1>8, <2>2
<1>10. Range(joined) = {GetByID(db, "mysekaifixtures", target) : target \in Range(targets)} \ {None}
  <2>1. Ascending(targets) \in Seq(Int) /\ Range(Ascending(targets)) = Range(targets)
    BY <1>9, AscendingKeeps
  <2>2. Range(joined) = {GetByID(db, "mysekaifixtures", target) : target \in Range(Ascending(targets))} \ {None}
    BY <2>1, JoinsShow
  <2> QED
    BY <2>1, <2>2
<1>11. Range(MaterialUses(db, id)) = {Use(f) : f \in Range(joined)}
  <2> HIDE DEF joined, Use
  <2>1. MaterialUses(db, id) = [i \in DOMAIN joined |-> Use(joined[i])]
    BY <1>4 DEF MapSeq
  <2> QED
    BY <2>1 DEF Range
<1> HIDE DEF made, joined
<1>12. Range(joined)
         = {GetByID(db, "mysekaifixtures", target) :
              target \in {CostTarget(db, d) : d \in Range(costs)} \ {None}} \ {None}
  BY <1>5, <1>8, <1>10
<1>13. Range(MaterialUses(db, id))
         = {Use(f) : f \in {GetByID(db, "mysekaifixtures", target) :
                              target \in {CostTarget(db, d) : d \in Range(costs)} \ {None}} \ {None}}
  BY <1>11, <1>12
<1> QED
  BY <1>13 DEF costs

\* A cost that goes into a fixture is made up for in what the fixture uses.
LEMMA UsedIsEnough ==
  ASSUME NEW db, NEW rows, NEW costs \in Seq(rows), \A d \in rows : Quantity(d) >= 0, NEW fixture,
         NEW d \in Range(costs), CostTarget(db, d) = fixture
  PROVE  Quantity(d) <= UsedFor(db, costs, fixture)
<1>1. PICK n \in Nat : n = Len(costs) /\ DOMAIN costs = 1 .. n
  OBVIOUS
<1> DEFINE ns == [i \in 1 .. n |-> IF CostTarget(db, costs[i]) = fixture THEN Quantity(costs[i]) ELSE 0]
<1>2. UsedFor(db, costs, fixture) = SumAll(ns)
  BY <1>1 DEF UsedFor
<1>3. IsList(ns) /\ Len(ns) = n
  <2>1. \A x : x = ns => x = [i \in 1 .. n |-> x[i]]
    OBVIOUS
  <2> QED
    BY <2>1, NumberedIsList
<1>4. \A i \in 1 .. n : ns[i] \in Nat
  <2>1. \A r : Quantity(r) \in Int
    BY QueryAssumption DEF Quantity, NumberOf, Get, Field
  <2>2. \A i \in 1 .. n : Quantity(costs[i]) >= 0
    BY <1>1
  <2> QED
    BY <2>1, <2>2
<1>5. PICK k \in 1 .. n : costs[k] = d
  BY <1>1 DEF Range
<1>6. ns[k] = Quantity(d)
  BY <1>5
<1> HIDE DEF ns
<1>7. ns[k] <= SumAll(ns)
  BY <1>3, <1>4, SumBounds
<1> QED
  BY <1>2, <1>6, <1>7

\* A list that shows the records under ids holds records that have them.
LEMMA HeldUnderID ==
  ASSUME NEW db, HoldsLists(db), HoldsIDs(db), NEW entity, entity \notin CompositeKeyEntities,
         NEW r \in Range(ListAll(db, entity)), Get(r, "id") # None
  PROVE  r # None /\ "id" \in DOMAIN r /\ r.id = Get(r, "id") /\ r.id \in Nat \ {0} /\ GetByID(db, entity, r.id) = r
<1>1. entity \in DOMAIN db
  BY DEF ListAll, Range
<1>2. r \in Range(db[entity]) /\ r # None
  BY <1>1, RecordsAreListed DEF ListAll
<1>3. r.id \in Nat \ {0} /\ GetByID(db, entity, r.id) = r
  BY <1>1, <1>2 DEF HoldsIDs
<1> QED
  BY <1>2, <1>3 DEF Get, Field

\* So does what is found by an id.
LEMMA FoundUnderID ==
  ASSUME NEW db, HoldsLists(db), NEW entity, NEW id, GetByID(db, entity, id) # None
  PROVE  /\ id # None /\ GetByID(db, entity, id) \in Range(ListAll(db, entity))
         /\ "id" \in DOMAIN GetByID(db, entity, id) /\ GetByID(db, entity, id).id = id
BY FoundHasTheID DEF Get, Field

\* The blueprints that make a fixture.
LEMMA BlueprintsShow ==
  ASSUME NEW db, HoldsLists(db), NEW id
  PROVE  /\ FixtureBlueprints(db, id) \in Seq(Range(ListAll(db, "mysekaiblueprints")))
         /\ Range(FixtureBlueprints(db, id))
              = {b \in Range(ListAll(db, "mysekaiblueprints")) :
                   /\ id # None /\ Get(b, "craftTargetId") = id
                   /\ Get(b, "mysekaiCraftType") = "mysekai_fixture"}
<1> DEFINE rows == ListByIndex(db, "mysekaiblueprints", "craftTargetId", id)
           P    == {i \in DOMAIN rows : Get(rows[i], "mysekaiCraftType") = "mysekai_fixture"}
<1>1. FixtureBlueprints(db, id) = Picked(rows, P)
  BY DEF FixtureBlueprints, Selected
<1>2. /\ rows \in Seq(Range(ListAll(db, "mysekaiblueprints")))
      /\ Range(rows) = {b \in Range(ListAll(db, "mysekaiblueprints")) : id # None /\ Get(b, "craftTargetId") = id}
  BY IndexLists
<1> HIDE DEF rows
<1>3. P \in SUBSET DOMAIN rows
  OBVIOUS
<1>4. {rows[i] : i \in P} = {b \in Range(rows) : Get(b, "mysekaiCraftType") = "mysekai_fixture"}
  BY DEF Range
<1> HIDE DEF P
<1>5. /\ Picked(rows, P) \in Seq(Range(ListAll(db, "mysekaiblueprints")))
      /\ Range(Picked(rows, P)) = {rows[i] : i \in P}
  BY <1>2, <1>3, MembersPicked
<1> QED
  BY <1>1, <1>2, <1>4, <1>5

\* The quantities that are shown of some rows are of those whose material is found.
LEMMA QuantitiesShow ==
  ASSUME NEW db, NEW T, NEW items \in Seq(T), NEW x \in Range(MaterialQuantities(db, items))
  PROVE  \E d \in Range(items) :
           LET m == GetByID(db, "mysekaimaterials", Get(d, "mysekaiMaterialId"))
           IN  m # None /\ x = [material |-> Pick(m, {"id", "name"}), quantity |-> Quantity(d)]
<1> DEFINE Of(d) == GetByID(db, "mysekaimaterials", Get(d, "mysekaiMaterialId"))
           Pair(d) == [material |-> PickOrNull(Of(d), {"id", "name"}), quantity |-> Quantity(d)]
           all == [i \in DOMAIN items |-> Pair(items[i])]
           P   == {i \in DOMAIN all : all[i].material # None}
<1>1. PICK n \in Nat : n = Len(items) /\ DOMAIN items = 1 .. n
  OBVIOUS
<1>2. MaterialQuantities(db, items) = Picked(all, P)
  BY DEF MaterialQuantities, Selected, MapSeq
<1>3. P \in SUBSET DOMAIN all /\ all \in Seq(Range(all))
  <2>1. \A y : y = all => y = [i \in 1 .. n |-> y[i]]
    BY <1>1
  <2> HIDE DEF all
  <2> QED
    BY <2>1, NumberedIsList DEF IsList
<1>4. Range(Picked(all, P)) = {all[i] : i \in P}
  <2> HIDE DEF all, P
  <2> QED
    BY <1>3, MembersPicked
<1>5. PICK i \in P : x = all[i]
  <2> HIDE DEF all, P
  <2> QED
    BY <1>2, <1>4
<1>6. i \in DOMAIN items /\ x = Pair(items[i]) /\ x.material # None
  BY <1>5
<1>7. PICK d \in Range(items) : x = Pair(d)
  <2> HIDE DEF Pair
  <2> QED
    BY <1>6 DEF Range
<1>8. PickOrNull(Of(d), {"id", "name"}) # None
  <2>1. x.material = PickOrNull(Of(d), {"id", "name"})
    BY <1>7
  <2> QED
    BY <1>6, <2>1
<1> HIDE DEF Of
<1>9. Of(d) # None /\ PickOrNull(Of(d), {"id", "name"}) = Pick(Of(d), {"id", "name"})
  BY <1>8 DEF PickOrNull
<1>10. x = [material |-> Pick(Of(d), {"id", "name"}), quantity |-> Quantity(d)]
  BY <1>7, <1>9
<1> QED
  BY <1>9, <1>10 DEF Of

\* A cost of a fixture's blueprint is one of the costs of its material, and goes into the fixture.
LEMMA BlueprintCosts ==
  ASSUME NEW db, HoldsLists(db), HoldsIDs(db), NEW id \in Nat \ {0}, NEW material,
         FixtureBlueprint(db, id) # <<>>,
         NEW x \in Range(FixtureBlueprint(db, id).blueprint.materialCosts), x.material.id = material
  PROVE  \E d \in Range(CostsOf(db, material)) : CostTarget(db, d) = id /\ x.quantity = Quantity(d)
<1> DEFINE b    == FirstOf(FixtureBlueprints(db, id))
           rows == ListByIndex(db, "mysekaiblueprintmaterialcosts", "mysekaiBlueprintId", b.id)
<1>1. /\ Get(b, "id") # None
      /\ FixtureBlueprint(db, id).blueprint.materialCosts = MaterialQuantities(db, BySeqThenId(rows))
  BY DEF FixtureBlueprint, ShownBlueprint
<1>2. b \in Range(FixtureBlueprints(db, id))
  <2>1. b # None
    BY <1>1 DEF Get
  <2>2. FixtureBlueprints(db, id) # <<>> /\ b = FixtureBlueprints(db, id)[1]
    BY <2>1 DEF FirstOf
  <2>3. 1 \in DOMAIN FixtureBlueprints(db, id)
    BY <2>2, BlueprintsShow
  <2> QED
    BY <2>2, <2>3 DEF Range
<1>3. /\ b \in Range(ListAll(db, "mysekaiblueprints")) /\ Get(b, "craftTargetId") = id
      /\ Get(b, "mysekaiCraftType") = "mysekai_fixture"
  BY <1>2, BlueprintsShow
<1> HIDE DEF b
<1>4. b.id # None /\ GetByID(db, "mysekaiblueprints", b.id) = b
  <2>1. "mysekaiblueprints" \notin CompositeKeyEntities
    BY DEF CompositeKeyEntities
  <2> QED
    BY <1>1, <1>3, <2>1, HeldUnderID
<1>5. /\ rows \in Seq(CostRows(db))
      /\ Range(rows) = {d \in CostRows(db) : b.id # None /\ Get(d, "mysekaiBlueprintId") = b.id}
  BY IndexLists DEF CostRows
<1> HIDE DEF rows
<1>6. \A d \in CostRows(db) : Get(d, "id") = None \/ Get(d, "id") \in Nat
  <2>1. "mysekaiblueprintmaterialcosts" \notin CompositeKeyEntities
    BY DEF CompositeKeyEntities
  <2> SUFFICES ASSUME NEW d \in CostRows(db), Get(d, "id") # None PROVE Get(d, "id") \in Nat
    OBVIOUS
  <2> QED
    BY <2>1, HeldUnderID DEF CostRows
<1>7. BySeqThenId(rows) \in Seq(CostRows(db)) /\ Range(BySeqThenId(rows)) = Range(rows)
  BY <1>5, <1>6, BySeqThenIdKeeps
<1>8. PICK d \in Range(rows) :
        LET m == GetByID(db, "mysekaimaterials", Get(d, "mysekaiMaterialId"))
        IN  m # None /\ x = [material |-> Pick(m, {"id", "name"}), quantity |-> Quantity(d)]
  <2>1. x \in Range(MaterialQuantities(db, BySeqThenId(rows)))
    BY <1>1
  <2>2. \E d \in Range(BySeqThenId(rows)) :
          LET m == GetByID(db, "mysekaimaterials", Get(d, "mysekaiMaterialId"))
          IN  m # None /\ x = [material |-> Pick(m, {"id", "name"}), quantity |-> Quantity(d)]
    BY <1>7, <2>1, QuantitiesShow
  <2> QED
    BY <1>7, <2>2
<1>9. Get(d, "mysekaiMaterialId") = material /\ material # None
  <2> DEFINE m == GetByID(db, "mysekaimaterials", Get(d, "mysekaiMaterialId"))
  <2>1. m.id = Get(d, "mysekaiMaterialId") /\ m.id # None /\ "id" \in DOMAIN m
    BY <1>8, FoundUnderID
  <2>2. x.material.id = m.id
    BY <1>8, <2>1 DEF Pick
  <2> QED
    BY <2>1, <2>2
<1>10. d \in Range(CostsOf(db, material))
  <2>1. d \in CostRows(db)
    BY <1>5, <1>8
  <2> QED
    BY <1>9, <2>1, IndexLists DEF CostsOf, CostRows
<1>11. CostTarget(db, d) = id
  <2>1. Get(d, "mysekaiBlueprintId") = b.id
    BY <1>5, <1>8
  <2>2. b # None /\ b.craftTargetId = id
    BY <1>1, <1>3, QueryAssumption DEF Get, Field
  <2> QED
    BY <1>3, <1>4, <2>1, <2>2 DEF CostTarget
<1>12. x.quantity = Quantity(d)
  BY <1>8
<1> QED
  BY <1>10, <1>11, <1>12

\* What the materials say of their uses is what the blueprints ask for.
LEMMA UsesAgree == ASSUME NEW c \in Content PROVE MaterialUsesMatchBlueprintsIn[c]
<1> DEFINE db == Db[c]
<1>1. HoldsLists(db) /\ HoldsIDs(db)
  BY ContentAssumption, IDAssumption
<1> HIDE DEF db
<1>2. ASSUME NEW m \in Identified(db, "mysekaimaterials"), NEW f \in Identified(db, "mysekaifixtures")
      PROVE  LET used == {u \in Range(MaterialUses(db, m.id)) : u.fixture.id = f.id}
                 cost == IF FixtureBlueprint(db, f.id) = <<>> THEN {}
                         ELSE {x \in Range(FixtureBlueprint(db, f.id).blueprint.materialCosts) : x.material.id = m.id}
             IN  /\ cost # {} => used # {}
                 /\ NoneBelowZero(ListAll(db, "mysekaiblueprintmaterialcosts"))
                      => \A x \in cost, u \in used : x.quantity <= u.quantity
                 /\ used # {} => FixtureBlueprints(db, f.id) # <<>>
  <2> DEFINE costs  == CostsOf(db, m.id)
             Use(g) == [fixture |-> Pick(g, {"id", "name"}), quantity |-> UsedFor(db, costs, g.id)]
             uses   == Range(MaterialUses(db, m.id))
             shown  == Range(FixtureBlueprint(db, f.id).blueprint.materialCosts)
  <2>1. f.id \in Nat \ {0} /\ "id" \in DOMAIN f /\ f # None /\ GetByID(db, "mysekaifixtures", f.id) = f
    <3>1. "mysekaifixtures" \notin CompositeKeyEntities
      BY DEF CompositeKeyEntities
    <3>2. f \in Range(ListAll(db, "mysekaifixtures")) /\ Get(f, "id") # None
      BY DEF Identified
    <3> QED
      BY <1>1, <3>1, <3>2, HeldUnderID
  <2>2. f.id # None
    BY <2>1, QueryAssumption
  <2>3. uses = {Use(g) : g \in {GetByID(db, "mysekaifixtures", target) :
                                  target \in {CostTarget(db, d) : d \in Range(costs)} \ {None}} \ {None}}
    BY <1>1, UsesShow, Zenon
  <2> HIDE DEF uses, shown
  <2>4. ASSUME NEW u \in uses, u.fixture.id = f.id
        PROVE  u.quantity = UsedFor(db, costs, f.id) /\ \E d \in Range(costs) : CostTarget(db, d) = f.id
    <3>1. PICK d \in Range(costs) :
            LET g == GetByID(db, "mysekaifixtures", CostTarget(db, d))
            IN  CostTarget(db, d) # None /\ g # None /\ u = Use(g)
      <4> HIDE DEF Use
      <4> QED
        BY <2>3
    <3> DEFINE g == GetByID(db, "mysekaifixtures", CostTarget(db, d))
    <3>2. g # None /\ u = Use(g)
      BY <3>1
    <3>3. "id" \in DOMAIN g /\ g.id = CostTarget(db, d)
      BY <1>1, <3>2, FoundUnderID
    <3> HIDE DEF g
    <3>4. u.fixture.id = g.id /\ u.quantity = UsedFor(db, costs, g.id)
      BY <3>2, <3>3 DEF Pick
    <3> QED
      BY <2>4, <3>3, <3>4
  <2>5. ASSUME NEW d \in Range(costs), CostTarget(db, d) = f.id
        PROVE  \E u \in uses : u.fixture.id = f.id
    <3>1. Use(f) \in uses
      <4> HIDE DEF Use
      <4> QED
        BY <2>1, <2>2, <2>3, <2>5
    <3>2. Use(f).fixture.id = f.id
      BY <2>1 DEF Pick
    <3> HIDE DEF Use
    <3> QED
      BY <3>1, <3>2
  <2>6. ASSUME FixtureBlueprint(db, f.id) # <<>>, NEW x \in shown, x.material.id = m.id
        PROVE  \E d \in Range(costs) : CostTarget(db, d) = f.id /\ x.quantity = Quantity(d)
    BY <1>1, <2>1, <2>6, BlueprintCosts DEF shown
  <2>7. costs \in Seq(CostRows(db))
    BY <1>1, IndexLists DEF CostsOf, CostRows
  <2>8. ASSUME NoneBelowZero(ListAll(db, "mysekaiblueprintmaterialcosts")),
               NEW d \in Range(costs), CostTarget(db, d) = f.id
        PROVE  Quantity(d) <= UsedFor(db, costs, f.id)
    <3>1. \A e \in CostRows(db) : Quantity(e) >= 0
      BY <2>8 DEF NoneBelowZero, CostRows
    <3> HIDE DEF costs
    <3> QED
      BY <2>7, <2>8, <3>1, UsedIsEnough
  <2>9. ASSUME NEW d \in Range(costs), CostTarget(db, d) = f.id
        PROVE  FixtureBlueprints(db, f.id) # <<>>
    <3> DEFINE b == GetByID(db, "mysekaiblueprints", Get(d, "mysekaiBlueprintId"))
    <3>1. Get(b, "mysekaiCraftType") = "mysekai_fixture" /\ b.craftTargetId = f.id
          /\ Get(b, "craftTargetId") \in Nat \ {0}
      BY <2>2, <2>9 DEF CostTarget
    <3>2. b # None /\ Get(b, "craftTargetId") = f.id
      BY <3>1, QueryAssumption DEF Get, Field
    <3>3. b \in Range(ListAll(db, "mysekaiblueprints"))
      BY <1>1, <3>2, FoundUnderID
    <3> HIDE DEF b
    <3>4. b \in Range(FixtureBlueprints(db, f.id))
      BY <1>1, <2>2, <3>1, <3>2, <3>3, BlueprintsShow
    <3> QED
      BY <3>4 DEF Range
  <2> HIDE DEF costs, Use
  <2> DEFINE used == {u \in uses : u.fixture.id = f.id}
             cost == IF FixtureBlueprint(db, f.id) = <<>> THEN {} ELSE {x \in shown : x.material.id = m.id}
  <2>10. cost # {} => used # {}
    BY <2>5, <2>6
  <2>11. ASSUME NoneBelowZero(ListAll(db, "mysekaiblueprintmaterialcosts")), NEW x \in cost, NEW u \in used
         PROVE  x.quantity <= u.quantity
    <3>1. FixtureBlueprint(db, f.id) # <<>> /\ x \in shown /\ x.material.id = m.id
      OBVIOUS
    <3>2. PICK d \in Range(costs) : CostTarget(db, d) = f.id /\ x.quantity = Quantity(d)
      BY <2>6, <3>1
    <3>3. u.quantity = UsedFor(db, costs, f.id)
      BY <2>4
    <3> QED
      BY <2>8, <2>11, <3>2, <3>3
  <2>12. used # {} => FixtureBlueprints(db, f.id) # <<>>
    BY <2>4, <2>9
  <2> QED
    BY <2>10, <2>11, <2>12 DEF uses, shown
<1> QED
  BY <1>2 DEF MaterialUsesMatchBlueprintsIn, db

-----------------------------------------------------------------------------
(* The sources of the stamps                                                *)

\* The stamps that match but for their sources.
StampsMatched(db, q, t) == Selected(StampItems(db, q.spoiler, t), LAMBDA item : StampMatches(item, q))

\* The pages of the stamps from some sources hold those stamps.
LEMMA StampsOfSources ==
  ASSUME NEW c \in Content, NEW t, NEW q \in Paged, q.route = "stamps/list", NEW sources
  PROVE  /\ IsList(StampsMatched(Db[c], q, t))
         /\ AllOf([k \in Nat \ {0} |-> Replied(c, t, PageOf(FromSources(q, sources), k)).body])
              = FilterStampItemsBySource(Db[c], StampsMatched(Db[c], q, t), sources)
<1> DEFINE db      == Db[c]
           matched == StampsMatched(db, q, t)
           L       == FilterStampItemsBySource(db, matched, sources)
           pages   == [k \in Nat \ {0} |-> Replied(c, t, PageOf(FromSources(q, sources), k)).body]
<1>1. /\ q \in Request /\ q.region \in Region /\ q.family = "stamps"
      /\ q.size \in Nat \ {0} /\ ~(q.size > MaxPageSize)
      /\ {"family", "route", "region", "entity", "page", "size", "spoiler", "categories", "characters", "name",
          "sources", "sort"} \subseteq DOMAIN q
  <2>1. q \in Request /\ q.route \in PagedRoutes /\ q.size <= MaxPageSize
    BY RequestAssumption DEF Paged
  <2>2. q.family = "stamps"
    BY <2>1, RequestAssumption DEF Routes
  <2> QED
    BY <2>1, <2>2, RequestAssumption, PublicReadAssumption, QueryAssumption DEF Parameters, Sorting
<1>2. HoldsLists(db) /\ WorldOf(c)[q.region].db = db
  BY <1>1, StoredEverywhere
<1> HIDE DEF db
<1>3. IsList(matched)
  <2> DEFINE items == StampItems(db, q.spoiler, t)
  <2>1. {i \in DOMAIN items : StampMatches(items[i], q)} \in SUBSET DOMAIN items
    OBVIOUS
  <2>2. IsList(items)
    BY <1>2, StampItemsIsList
  <2> QED
    BY <2>1, <2>2, PickedIsList DEF StampsMatched, Selected
<1>4. IsList(L)
  <2> HIDE DEF matched
  <2> QED
    BY <1>3, FilteredBySourceIsList
<1>5. ASSUME NEW k \in Nat \ {0}
      PROVE  pages[k].items = Slice(L, k, q.size) /\ pages[k].pagination = PaginationOf(k, q.size, Len(L))
  <2>1. PICK p : p = PageOf(FromSources(q, sources), k)
    OBVIOUS
  <2>2. /\ p.family = "stamps" /\ p.route = q.route /\ p.region = q.region /\ p.page = k /\ p.size = q.size
        /\ p.spoiler = q.spoiler /\ p.sources = sources /\ p.sort = None
        /\ p.categories = q.categories /\ p.characters = q.characters /\ p.name = q.name
    BY <1>1, <2>1 DEF PageOf, FromSources
  <2>3. pages[k] = StampsList(db, p, t).body
    BY <1>2, <2>1, <2>2 DEF Replied, FamilyAnswer, StampAnswer
  <2>4. FilterStampItemsBySource(db, StampsMatched(db, p, t), p.sources) = L
    <3>1. \A item : StampMatches(item, p) <=> StampMatches(item, q)
      BY <2>2 DEF StampMatches
    <3>2. StampItems(db, p.spoiler, t) = StampItems(db, q.spoiler, t)
      BY <2>2
    <3>3. StampsMatched(db, p, t) = matched
      BY <3>1, <3>2 DEF StampsMatched, Selected
    <3> QED
      BY <2>2, <3>3
  <2> HIDE DEF L, matched, pages
  <2>5. StampsList(db, p, t).body = TypedPage(TypedSorted(L, p), p, LAMBDA item : item).body
    BY <1>1, <2>2, <2>4, Zenon DEF StampsList, StampsMatched, TypedPage, Ok
  <2>6. TypedPage(TypedSorted(L, p), p, LAMBDA item : item).body
          = [items |-> MapSeq(Slice(L, k, q.size), LAMBDA item : item),
             pagination |-> PaginationOf(k, q.size, Len(L))]
    BY <1>1, <2>2, Zenon DEF TypedSorted, TypedPage, Ok
  <2>7. MapSeq(Slice(L, k, q.size), LAMBDA item : item) = Slice(L, k, q.size)
    <3>1. IsList(Slice(L, k, q.size))
      BY <1>1, <1>4, PageIsMapped
    <3> QED
      BY <3>1, ListIsNumbered DEF MapSeq
  <2> QED
    BY <2>3, <2>5, <2>6, <2>7
<1> HIDE DEF L, pages
<1>6. CutOf(pages, L, q.size)
  BY <1>5 DEF CutOf
<1>7. AllOf(pages) = L
  BY <1>1, <1>4, <1>6, CutPagesAreWhole
<1> QED
  BY <1>3, <1>7 DEF L, pages, db

\* The stamps from some sources are those that come from one of them.
LEMMA SourcesChoose ==
  ASSUME NEW db, NEW items, IsList(items), NEW sources
  PROVE  Range(FilterStampItemsBySource(db, items, sources))
           = {x \in Range(items) : sources = {} \/ StampComesFrom(StampPurposes(db, x.id), sources)}
<1>1. CASE sources = {}
  BY <1>1 DEF FilterStampItemsBySource
<1>2. CASE sources # {}
  <2> DEFINE P == {i \in DOMAIN items : StampComesFrom(StampPurposes(db, items[i].id), sources)}
  <2>1. FilterStampItemsBySource(db, items, sources) = Picked(items, P)
    BY <1>2 DEF FilterStampItemsBySource, Selected
  <2>2. P \in SUBSET DOMAIN items /\ items \in Seq(Range(items))
    BY DEF IsList
  <2>3. {items[i] : i \in P} = {x \in Range(items) : StampComesFrom(StampPurposes(db, x.id), sources)}
    BY DEF Range
  <2> HIDE DEF P
  <2>4. Range(Picked(items, P)) = {items[i] : i \in P}
    BY <2>2, MembersPicked
  <2> QED
    BY <1>2, <2>1, <2>3, <2>4
<1> QED
  BY <1>1, <1>2

\* Either a named source has a stamp or it comes from the others.
LEMMA SourcesSplit ==
  ASSUME NEW purposes
  PROVE  StampComesFrom(purposes, NamedSources) <=> ~StampComesFrom(purposes, {"other"})
<1> DEFINE named == {StampPurposeSources[p] : p \in purposes \cap DOMAIN StampPurposeSources}
<1>1. named \subseteq NamedSources
  BY DEF NamedSources
<1>2. "other" \notin NamedSources
  BY DEF NamedSources, StampPurposeSources
<1>3. \A s : StampComesFrom(purposes, s) <=> (named \cap s # {} \/ (named = {} /\ "other" \in s))
  BY Zenon DEF StampComesFrom
<1> HIDE DEF named
<1>4. named \cap NamedSources = named /\ "other" \notin named
  BY <1>1, <1>2
<1> QED
  BY <1>2, <1>3, <1>4

\* The sources cover the stamps.
LEMMA StampsAreCovered ==
  ASSUME NEW c \in Content, NEW t \in Moment PROVE SourcesCover(LAMBDA q : Replied(c, t, q))
<1> DEFINE All(q) == AllOf([k \in Nat \ {0} |-> Replied(c, t, PageOf(q, k)).body])
<1> SUFFICES ASSUME NEW q \in Paged, q.route = "stamps/list"
             PROVE  IsSplit(Range(All(FromSources(q, {}))), Range(All(FromSources(q, NamedSources))),
                            Range(All(FromSources(q, {"other"}))))
  BY Zenon DEF SourcesCover, AllItems, PagesOf
<1> DEFINE matched == StampsMatched(Db[c], q, t)
<1>1. IsList(matched)
  BY StampsOfSources
<1>2. ASSUME NEW sources
      PROVE  Range(All(FromSources(q, sources)))
               = {x \in Range(matched) : sources = {} \/ StampComesFrom(StampPurposes(Db[c], x.id), sources)}
  <2>1. All(FromSources(q, sources)) = FilterStampItemsBySource(Db[c], matched, sources)
    BY StampsOfSources
  <2> HIDE DEF All, matched
  <2> QED
    BY <1>1, <2>1, SourcesChoose
<1> HIDE DEF All, matched
<1>3. NamedSources # {} /\ {"other"} # {}
  <2>1. "shop_item" \in DOMAIN StampPurposeSources
    BY DEF StampPurposeSources
  <2> QED
    BY <2>1 DEF NamedSources
<1>4. Range(All(FromSources(q, {}))) = Range(matched)
  BY <1>2
<1>5. Range(All(FromSources(q, NamedSources)))
        = {x \in Range(matched) : StampComesFrom(StampPurposes(Db[c], x.id), NamedSources)}
  BY <1>2, <1>3
<1>6. Range(All(FromSources(q, {"other"})))
        = {x \in Range(matched) : StampComesFrom(StampPurposes(Db[c], x.id), {"other"})}
  BY <1>2, <1>3
<1> QED
  BY <1>4, <1>5, <1>6, SourcesSplit DEF IsSplit

-----------------------------------------------------------------------------
(* The levels that missions preview                                         *)

\* A request for the levels of another group.
OfGroup(l, id) == [l EXCEPT !.id = id]

\* The pages of the levels of a group, which are refused when there are none.
LEMMA LevelsArePaged ==
  ASSUME NEW c \in Content, NEW t, NEW l \in Paged, l.route = "missions/levels", NEW id
  PROVE  LET levels == LevelsOf(Db[c], id)
             asked  == OfGroup(l, id)
         IN  /\ Replied(c, t, asked).status = 200 <=> levels # <<>>
             /\ levels # <<>> =>
                  AllOf([k \in Nat \ {0} |-> Replied(c, t, PageOf(asked, k)).body]) = levels
<1> DEFINE db     == Db[c]
           levels == LevelsOf(db, id)
           asked  == OfGroup(l, id)
           pages  == [k \in Nat \ {0} |-> Replied(c, t, PageOf(asked, k)).body]
<1>1. /\ l \in Request /\ l.region \in Region /\ l.family = "missions" /\ l.size \in Nat \ {0}
      /\ {"family", "route", "region", "page", "size", "id"} \subseteq DOMAIN l
  <2>1. l \in Request /\ l.route \in PagedRoutes
    BY RequestAssumption DEF Paged
  <2>2. l.family = "missions"
    BY <2>1, RequestAssumption DEF Routes
  <2> QED
    BY <2>1, <2>2, RequestAssumption, PublicReadAssumption DEF Parameters
<1>2. HoldsLists(db) /\ WorldOf(c)[l.region].db = db
  BY <1>1, StoredEverywhere
<1> HIDE DEF db
<1>3. IsList(levels)
  BY <1>2, LevelsIsList
<1>4. ASSUME NEW p, p.family = "missions", p.route = "missions/levels", p.region = l.region, p.id = id
      PROVE  Replied(c, t, p) = LevelsPage(p, levels)
  <2>1. Replied(c, t, p) = LevelsPage(p, GroupLevels(db, <<id>>, id))
    BY <1>2, <1>4 DEF Replied, FamilyAnswer, MissionAnswer, ParameterGroupLevels
  <2> QED
    BY <1>2, <2>1, AskedAlone
<1>5. Replied(c, t, asked).status = 200 <=> levels # <<>>
  <2>1. asked.family = "missions" /\ asked.route = "missions/levels" /\ asked.region = l.region /\ asked.id = id
    BY <1>1 DEF OfGroup
  <2> HIDE DEF asked, levels
  <2>2. Replied(c, t, asked) = LevelsPage(asked, levels)
    BY <1>4, <2>1
  <2> QED
    BY <2>2 DEF LevelsPage, Ok, Fail
<1>6. ASSUME levels # <<>> PROVE AllOf(pages) = levels
  <2>1. ASSUME NEW k \in Nat \ {0}
        PROVE  /\ pages[k].items = Slice(levels, k, l.size)
               /\ pages[k].pagination = PaginationOf(k, l.size, Len(levels))
    <3>1. PICK p : p = PageOf(asked, k)
      OBVIOUS
    <3>2. /\ p.family = "missions" /\ p.route = "missions/levels" /\ p.region = l.region /\ p.id = id
          /\ p.page = k /\ p.size = l.size
      BY <1>1, <3>1 DEF PageOf, OfGroup
    <3>3. pages[k] = Replied(c, t, p).body
      BY <3>1
    <3> HIDE DEF pages, levels
    <3>4. pages[k] = LevelsPage(p, levels).body
      BY <1>4, <3>2, <3>3
    <3> QED
      BY <1>6, <3>2, <3>4 DEF LevelsPage, PageOfItems, Ok
  <2> HIDE DEF pages, levels
  <2>2. CutOf(pages, levels, l.size)
    BY <2>1 DEF CutOf
  <2> QED
    BY <1>1, <1>3, <2>2, CutPagesAreWhole
<1> QED
  BY <1>5, <1>6 DEF db

\* What a character mission shows of the levels of its group, when no other
\* mission of the page has the group.
LEMMA MissionShowsItsGroup ==
  ASSUME NEW db, HoldsLists(db), NEW page, IsList(page), NEW i \in DOMAIN page,
         \A j \in DOMAIN page : Get(page[j], "parameterGroupId") = Get(page[i], "parameterGroupId") <=> j = i,
         NEW id, id = Get(page[i], "parameterGroupId"), NEW levels, levels = LevelsOf(db, id)
  PROVE  LET mission == MissionItem(db, "characterMissionV2s", page, page[i])
         IN  /\ "parameterGroup" \in DOMAIN mission <=> levels # <<>>
             /\ levels # <<>> =>
                  mission.parameterGroup
                    = [id |-> id, totalLevels |-> Len(levels),
                       previewLevels |-> SubSeq(levels, 1, AtMost(Len(levels), 3)), lastLevel |-> Last(levels)]
<1> DEFINE mission == MissionItem(db, "characterMissionV2s", page, page[i])
           asked   == MapSeq(page, LAMBDA m : Get(m, "parameterGroupId"))
           group   == PreviewOf(id, levels)
<1>1. ParameterGroup(db, page, page[i]) = group
  <2>1. PICK n \in Nat : DOMAIN page = 1 .. n
    BY ListIsNumbered
  <2>2. asked = [j \in 1 .. n |-> Get(page[j], "parameterGroupId")]
    BY <2>1 DEF MapSeq
  <2>3. \A x : x = asked => x = [j \in 1 .. n |-> x[j]]
    BY <2>2
  <2>4. IsList(asked) /\ DOMAIN asked = 1 .. n
    BY <2>3, NumberedIsList
  <2>5. \A j \in 1 .. n : asked[j] = id <=> j = i
    BY <2>1, <2>2
  <2>6. ParameterGroup(db, page, page[i]) = PreviewOf(id, GroupLevels(db, asked, id))
    BY Zenon DEF ParameterGroup
  <2>7. i \in DOMAIN asked /\ \A j \in DOMAIN asked : asked[j] = id <=> j = i
    BY <2>1, <2>4, <2>5
  <2> HIDE DEF asked
  <2>8. GroupLevels(db, asked, id) = LevelsOf(db, id)
    BY <2>4, <2>7, AskedOnce
  <2> QED
    BY <2>6, <2>8
<1>2. PICK rewards, fields :
        /\ MissionWithRewards(db, "characterMissionV2s", page[i]) = Merge(Pick(page[i], fields), rewards)
        /\ "parameterGroup" \notin fields /\ DOMAIN rewards \subseteq {"rewards"}
  <2>1. "characterMissionV2s" \in DOMAIN KindEntity
    BY DEF KindEntity
  <2> QED
    BY <2>1, RewardsNameNoGroup, Zenon DEF NamesNoGroup
<1>3. PICK shown : shown = MissionWithRewards(db, "characterMissionV2s", page[i])
  OBVIOUS
<1>4. "parameterGroup" \notin DOMAIN shown
  <2>1. DOMAIN Pick(page[i], fields) \subseteq fields
    BY DEF Pick
  <2> QED
    BY <1>2, <1>3, <2>1 DEF Merge
<1>5. mission = Merge(shown, group)
  BY <1>1, <1>3, Zenon DEF MissionItem
<1> HIDE DEF mission
<1>6. /\ "parameterGroup" \in DOMAIN mission <=> "parameterGroup" \in DOMAIN group
      /\ "parameterGroup" \in DOMAIN group => mission.parameterGroup = group.parameterGroup
  <2> HIDE DEF group
  <2> QED
    BY <1>4, <1>5 DEF Merge
<1>7. CASE levels = <<>>
  <2>1. group = <<>>
    BY <1>7 DEF PreviewOf
  <2>2. DOMAIN group = {}
    BY <2>1
  <2> HIDE DEF group
  <2> QED
    BY <1>6, <1>7, <2>2 DEF mission
<1>8. CASE levels # <<>>
  <2>1. PICK preview :
          preview = [id |-> id, totalLevels |-> Len(levels),
                     previewLevels |-> SubSeq(levels, 1, AtMost(Len(levels), 3)), lastLevel |-> Last(levels)]
    OBVIOUS
  <2>2. group = [parameterGroup |-> preview]
    BY <1>8, <2>1, Zenon DEF PreviewOf
  <2>3. "parameterGroup" \in DOMAIN group /\ group.parameterGroup = preview
    BY <2>2
  <2> HIDE DEF group
  <2> QED
    BY <1>6, <1>8, <2>1, <2>3 DEF mission
<1> QED
  BY <1>7, <1>8

\* A mission shows which group it has.
LEMMA MissionNamesItsGroup ==
  ASSUME NEW db, NEW page, NEW r
  PROVE  Field(MissionItem(db, "characterMissionV2s", page, r), "parameterGroupId") = Get(r, "parameterGroupId")
<1> DEFINE kind == "characterMissionV2s"
<1>1. kind \in DOMAIN KindEntity
  BY DEF KindEntity
<1>2. PICK rewards, fields :
        /\ MissionWithRewards(db, kind, r) = Merge(Pick(r, fields), rewards)
        /\ DOMAIN rewards \subseteq {"rewards"} /\ "parameterGroupId" \in fields
  <2>1. NamesNoGroup(db, kind, r)
    BY <1>1, RewardsNameNoGroup
  <2> HIDE DEF kind
  <2>2. kind = "characterMissionV2s"
    BY DEF kind
  <2> QED
    BY <2>1, <2>2, Zenon DEF NamesNoGroup
<1>3. PICK mission : mission = MissionItem(db, kind, page, r)
  OBVIOUS
<1>4. Without(mission, {"parameterGroup"}) = Merge(Pick(r, fields), rewards)
  BY <1>1, <1>2, <1>3, MissionIsItself
<1>5. Field(mission, "parameterGroupId") = Field(Without(mission, {"parameterGroup"}), "parameterGroupId")
  BY DEF Field, Without
<1>6. Field(Merge(Pick(r, fields), rewards), "parameterGroupId") = Get(r, "parameterGroupId")
  <2>1. CASE r = None
    <3>1. DOMAIN Pick(r, fields) = {}
      BY <2>1 DEF Pick
    <3>2. "parameterGroupId" \notin DOMAIN Merge(Pick(r, fields), rewards)
      BY <1>2, <3>1 DEF Merge
    <3> QED
      BY <2>1, <3>2 DEF Field, Get
  <2>2. CASE r # None
    BY <1>2, <2>2 DEF Field, Get, Merge, Pick
  <2> QED
    BY <2>1, <2>2
<1> QED
  BY <1>3, <1>4, <1>5, <1>6

\* The first levels are a beginning of all.
LEMMA PreviewIsBeginning ==
  ASSUME NEW levels, IsList(levels)
  PROVE  IsPrefix(SubSeq(levels, 1, AtMost(Len(levels), 3)), levels)
<1>1. PICK T : levels \in Seq(T)
  BY DEF IsList
<1>2. PICK n \in Nat : n = Len(levels) /\ AtMost(n, 3) \in 0 .. n
  BY <1>1 DEF AtMost
<1>3. PICK m \in 0 .. n : m = AtMost(Len(levels), 3)
  BY <1>2
<1>4. Len(SubSeq(levels, 1, m)) = m /\ \A i \in 1 .. m : SubSeq(levels, 1, m)[i] = levels[i]
  BY <1>1, <1>2
<1>5. SubSeq(SubSeq(levels, 1, m), 1, m) = SubSeq(levels, 1, m)
  BY <1>1, <1>2, <1>4
<1> QED
  BY <1>2, <1>3, <1>4, <1>5 DEF IsPrefix

\* A mission previews the levels of its group that are listed for c at t.
LevelsAt(c, t, l, mission) == LevelsShown(LAMBDA q : Replied(c, t, q), l, mission)

\* A mission that is alone with its group previews the levels that are listed.
LEMMA LevelsAreShown ==
  ASSUME NEW c \in Content, NEW t \in Moment, NEW l \in Paged, l.route = "missions/levels",
         NEW page, IsList(page), NEW i \in DOMAIN page,
         \A j \in DOMAIN page : Get(page[j], "parameterGroupId") = Get(page[i], "parameterGroupId") => j = i
  PROVE  LevelsAt(c, t, l, MissionItem(Db[c], "characterMissionV2s", page, page[i]))
<1> DEFINE id      == Get(page[i], "parameterGroupId")
           levels  == LevelsOf(Db[c], id)
           asked   == OfGroup(l, id)
           pages   == [k \in Nat \ {0} |-> Replied(c, t, PageOf(asked, k)).body]
           mission == MissionItem(Db[c], "characterMissionV2s", page, page[i])
<1>1. HoldsLists(Db[c])
  BY ContentAssumption
<1>2. Field(mission, "parameterGroupId") = id
  BY MissionNamesItsGroup
<1>3. /\ Replied(c, t, asked).status = 200 <=> levels # <<>>
      /\ levels # <<>> => AllOf(pages) = levels
  <2>1. PICK group : group = id
    OBVIOUS
  <2>2. /\ Replied(c, t, OfGroup(l, group)).status = 200 <=> LevelsOf(Db[c], group) # <<>>
        /\ LevelsOf(Db[c], group) # <<>> =>
             AllOf([k \in Nat \ {0} |-> Replied(c, t, PageOf(OfGroup(l, group), k)).body])
               = LevelsOf(Db[c], group)
    BY LevelsArePaged
  <2> QED
    BY <2>1, <2>2
<1>4. /\ "parameterGroup" \in DOMAIN mission <=> levels # <<>>
      /\ levels # <<>> =>
           mission.parameterGroup
             = [id |-> id, totalLevels |-> Len(levels),
                previewLevels |-> SubSeq(levels, 1, AtMost(Len(levels), 3)), lastLevel |-> Last(levels)]
  <2>1. \A j \in DOMAIN page : Get(page[j], "parameterGroupId") = Get(page[i], "parameterGroupId") <=> j = i
    OBVIOUS
  <2> QED
    BY <1>1, <2>1, MissionShowsItsGroup
<1>5. IsPrefix(SubSeq(levels, 1, AtMost(Len(levels), 3)), levels)
  BY <1>1, LevelsIsList, PreviewIsBeginning
<1> HIDE DEF levels, mission, asked, pages
<1>6. Previews(mission, Replied(c, t, asked).status, AllOf(pages))
  <2>1. CASE levels = <<>>
    BY <1>3, <1>4, <2>1 DEF Previews
  <2>2. CASE levels # <<>>
    <3>1. /\ mission.parameterGroup.previewLevels = SubSeq(levels, 1, AtMost(Len(levels), 3))
          /\ mission.parameterGroup.totalLevels = Len(levels)
          /\ mission.parameterGroup.lastLevel = Last(levels)
      BY <1>4, <2>2
    <3> QED
      BY <1>3, <1>4, <1>5, <2>2, <3>1 DEF Previews
  <2> QED
    BY <2>1, <2>2
<1>7. asked = [l EXCEPT !.id = Field(mission, "parameterGroupId")]
  BY <1>2 DEF asked, OfGroup
<1>8. Previews(mission, Replied(c, t, [l EXCEPT !.id = Field(mission, "parameterGroupId")]).status,
               AllOf([k \in Nat \ {0} |->
                 Replied(c, t, PageOf([l EXCEPT !.id = Field(mission, "parameterGroupId")], k)).body]))
  BY <1>6, <1>7, Zenon DEF pages
<1> QED
  BY <1>8, Zenon DEF LevelsAt, LevelsShown, AllItems, PagesOf, mission

\* A mission that is asked for by its id previews the levels that are listed.
LEMMA OneIsPreviewed ==
  ASSUME NEW c \in Content, NEW t \in Moment, NEW q \in Paged, q.route = "missions/list",
         q.kind = "characterMissionV2s", NEW l \in Paged, l.route = "missions/levels",
         NEW r \in Identified(Db[c], "charactermissionv2s")
  PROVE  LevelsAt(c, t, l, Replied(c, t, ByID(q, "missions/id", r.id)).body)
<1>1. GetByID(Db[c], "charactermissionv2s", r.id) = r /\ r # None
  <2>1. "charactermissionv2s" \notin CompositeKeyEntities
    BY DEF CompositeKeyEntities
  <2> QED
    BY <2>1, ContentAssumption, IDAssumption, HeldUnderID DEF Identified
<1>2. PICK page : page = <<r>>
  OBVIOUS
<1>3. Replied(c, t, ByID(q, "missions/id", r.id)).body = MissionItem(Db[c], "characterMissionV2s", page, r)
  <2>1. PICK p : p = ByID(q, "missions/id", r.id)
    OBVIOUS
  <2>2. q \in Request /\ q.region \in Region
    BY PublicReadAssumption DEF Paged
  <2>3. q.family = "missions" /\ {"family", "route", "region", "kind"} \subseteq DOMAIN q
    BY <2>2, RequestAssumption DEF Routes, PagedRoutes, Parameters
  <2>4. /\ p.family = "missions" /\ p.route = "missions/id" /\ p.region = q.region
        /\ p.kind = "characterMissionV2s" /\ p.id = r.id
    BY <2>1, <2>3 DEF ByID, Merge
  <2>5. WorldOf(c)[q.region].db = Db[c]
    BY <2>2 DEF WorldOf
  <2>6. KindEntity["characterMissionV2s"] = "charactermissionv2s"
    BY DEF KindEntity
  <2>7. Replied(c, t, p) = MissionByID(Db[c], p)
    BY <2>4, <2>5 DEF Replied, FamilyAnswer, MissionAnswer
  <2>8. MissionByID(Db[c], p) = Ok(MissionItem(Db[c], "characterMissionV2s", page, r))
    BY <1>1, <1>2, <2>4, <2>6, Zenon DEF MissionByID, Found
  <2> QED
    BY <2>1, <2>7, <2>8 DEF Ok
<1>4. DOMAIN page = {1} /\ page[1] = r /\ page \in Seq({r})
  BY <1>2
<1>5. IsList(page)
  BY <1>4, SequenceIsList
<1>6. 1 \in DOMAIN page
      /\ \A j \in DOMAIN page : Get(page[j], "parameterGroupId") = Get(page[1], "parameterGroupId") => j = 1
  BY <1>4
<1>7. LevelsAt(c, t, l, MissionItem(Db[c], "characterMissionV2s", page, page[1]))
  BY <1>5, <1>6, LevelsAreShown
<1> QED
  BY <1>3, <1>4, <1>7

\* So does each mission on a page that is alone there with its group.
LEMMA PageIsPreviewed ==
  ASSUME NEW c \in Content, NEW t \in Moment, NEW q \in Paged, q.route = "missions/list",
         q.kind = "characterMissionV2s", Replied(c, t, q).status = 200,
         NEW l \in Paged, l.route = "missions/levels", NEW k \in Nat \ {0},
         NEW items, items = Replied(c, t, PageOf(q, k)).body.items, NEW i \in DOMAIN items, Alone(items, i)
  PROVE  LevelsAt(c, t, l, items[i])
<1>1. /\ q \in Request /\ q.region \in Region /\ q.family = "missions" /\ q.size \in PageSize
      /\ q.page \in Nat \ {0} /\ {"family", "route", "region", "page", "size", "kind", "numbers"} \subseteq DOMAIN q
  <2>1. q \in Request /\ q.region \in Region /\ q.size <= MaxPageSize
    BY PublicReadAssumption DEF Paged
  <2>2. q.family = "missions"
    BY <2>1, RequestAssumption DEF Routes
  <2> QED
    BY <2>1, <2>2, RequestAssumption, QueryAssumption DEF PageSize, PagedRoutes, Parameters
<1> DEFINE db == Db[c]
<1>2. HoldsLists(db) /\ WorldOf(c)[q.region].db = db
  BY <1>1, StoredEverywhere
<1> HIDE DEF db
<1>3. ASSUME NEW p, p.family = "missions", p.route = "missions/list", p.region = q.region
      PROVE  Replied(c, t, p) = MissionsList(db, p)
  BY <1>2, <1>3 DEF Replied, FamilyAnswer, MissionAnswer
<1>4. DOMAIN q.numbers \subseteq KindFilters[q.kind]
  <2>1. MissionsList(db, q).status = 200
    BY <1>1, <1>3
  <2> QED
    BY <2>1, MissionsRefused
<1>5. PICK p : p = PageOf(q, k)
  OBVIOUS
<1>6. /\ p.family = "missions" /\ p.route = "missions/list" /\ p.region = q.region
      /\ p.kind = "characterMissionV2s" /\ p.numbers = q.numbers /\ p.page = k /\ p.size = q.size
  BY <1>1, <1>5 DEF PageOf
<1>7. PICK page : page = Slice(MissionsAsked(db, p), k, q.size)
  OBVIOUS
<1>8. items = [j \in DOMAIN page |-> MissionItem(db, "characterMissionV2s", page, page[j])]
  <2>1. items = MissionsList(db, p).body.items
    BY <1>3, <1>5, <1>6
  <2>2. MissionsList(db, p).body.items
          = [j \in DOMAIN page |-> MissionItem(db, "characterMissionV2s", page, page[j])]
    BY <1>1, <1>2, <1>4, <1>6, <1>7, MissionsArePaged
  <2> QED
    BY <2>1, <2>2
<1>9. IsList(page)
  BY <1>1, <1>2, <1>7, MissionsAskedIsList, PageIsOfTheList, PageIsMapped
<1>10. \A j \in DOMAIN page : Field(items[j], "parameterGroupId") = Get(page[j], "parameterGroupId")
  BY <1>8, MissionNamesItsGroup
<1>11. i \in DOMAIN page
       /\ \A j \in DOMAIN page : Get(page[j], "parameterGroupId") = Get(page[i], "parameterGroupId") => j = i
  BY <1>8, <1>10 DEF Alone
<1>12. LevelsAt(c, t, l, MissionItem(Db[c], "characterMissionV2s", page, page[i]))
  BY <1>9, <1>11, LevelsAreShown
<1> QED
  BY <1>8, <1>11, <1>12 DEF db

\* Missions preview the levels that are listed, asked for by id, or listed on a
\* page where no other mission has the group.
LEMMA MissionsArePreviewed ==
  ASSUME NEW c \in Content, NEW t \in Moment PROVE MissionsPreview(LAMBDA q : Replied(c, t, q), c)
<1> SUFFICES ASSUME NEW q \in MissionLists(LAMBDA p : Replied(c, t, p)), NEW l \in LevelLists
             PROVE  /\ \A r \in Identified(Db[c], "charactermissionv2s") :
                         LevelsAt(c, t, l, Replied(c, t, ByID(q, "missions/id", r.id)).body)
                    /\ \A k \in 1 .. TotalPages(LAMBDA p : Replied(c, t, p), q) :
                         LET items == PagesOf(LAMBDA p : Replied(c, t, p), q)[k].items
                         IN  \A i \in DOMAIN items :
                               Alone(items, i) => LevelsAt(c, t, l, items[i])
  BY Zenon DEF MissionsPreview, LevelsAt
<1>1. /\ q \in Paged /\ q.route = "missions/list" /\ q.kind = "characterMissionV2s"
      /\ Replied(c, t, q).status = 200 /\ l \in Paged /\ l.route = "missions/levels"
  BY DEF MissionLists, LevelLists
<1>2. ASSUME NEW r \in Identified(Db[c], "charactermissionv2s")
      PROVE  LevelsAt(c, t, l, Replied(c, t, ByID(q, "missions/id", r.id)).body)
  BY <1>1, OneIsPreviewed
<1>3. ASSUME NEW k \in 1 .. TotalPages(LAMBDA p : Replied(c, t, p), q),
             NEW items, items = PagesOf(LAMBDA p : Replied(c, t, p), q)[k].items,
             NEW i \in DOMAIN items, Alone(items, i)
      PROVE  LevelsAt(c, t, l, items[i])
  <2>1. k \in Nat \ {0}
    OBVIOUS
  <2>2. items = Replied(c, t, PageOf(q, k)).body.items
    BY <1>3, <2>1 DEF PagesOf
  <2> QED
    BY <1>1, <1>3, <2>1, <2>2, PageIsPreviewed
<1> QED
  BY <1>2, <1>3, Zenon

-----------------------------------------------------------------------------
(* Sums and previews agree with what they are made of                       *)

\* Whatever the regions store and whatever the time, an answer that sums up or
\* previews others agrees with them: a material names each fixture whose
\* blueprint it costs, with no less than that when no cost is negative, and only
\* fixtures with a blueprint (mysekaiFixtureQuantities); a mission previews the
\* levels its group lists, asked for by id or listed on a page where no other
\* mission has the group (resolveMissionParameterGroups); and each stamp is
\* found under the named sources or under the others, never under both.
THEOREM AggregatesAreTrue == Spec => []AggregatesMatchTheirParts
<1>1. ASSUME NEW c \in Content PROVE PreviewsAndSourcesAgreeIn[c]
  <2>1. ASSUME NEW t \in Moment PROVE PreviewsAndSourcesAgree(LAMBDA q : Replied(c, t, q), c)
    BY MissionsArePreviewed, StampsAreCovered, Zenon DEF PreviewsAndSourcesAgree
  <2> QED
    BY <2>1, Zenon DEF PreviewsAndSourcesAgreeIn
<1>2. CacheInv => AggregatesMatchTheirParts
  BY <1>1, UsesAgree, ServedIsStored DEF AggregatesMatchTheirParts, MaterialUsesMatchBlueprints
<1> QED
  BY <1>2, CacheInvariant, PTL

=============================================================================
