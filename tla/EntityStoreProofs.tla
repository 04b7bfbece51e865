------------------------- MODULE EntityStoreProofs -------------------------
(***************************************************************************)
(* What an entity's row, blocks, postings and projection say of each other *)
(* and what reads answer from them, whatever the number of pods, the       *)
(* builds they run and the files they store.                               *)
(*                                                                         *)
(* The argument is about who may write.  A job whose token is current is   *)
(* the only such job, so what it read of the entity before its transaction *)
(* is still so when it writes: CurrentJobKnows.  A job that lost the lease *)
(* knows nothing and its transaction is refused.                           *)
(*                                                                         *)
(* The blocks are always those of the file the row names, so by the lemmas *)
(* of the first part they hold what the row orders.  With the derived data *)
(* matching the records, a read answers from one version: ReadKnows says   *)
(* what it has seen of it between two statements.                          *)
(*                                                                         *)
(* The first part is about RecordLayout alone: a file cut into blocks is   *)
(* read back as it was, every key is found, with the record stored last    *)
(* under it, and the whole in its order.  Those definitions compute over a *)
(* file, by a recursion that puts one entry after the other into blocks    *)
(* and by numbering sets in their order, so it opens with what is needed   *)
(* of both: induction over the natural numbers for a set, and that a       *)
(* finite set under a strict total order has an element of each rank.      *)
(***************************************************************************)
EXTENDS EntityStore, FiniteSetTheorems, TLAPS

-----------------------------------------------------------------------------
(* Part one: the layout of a file                                          *)

\* Induction over the natural numbers, for a set.
LEMMA NatSet ==
  ASSUME NEW S, 0 \in S, \A n \in Nat : n \in S => n + 1 \in S
  PROVE  Nat \subseteq S
<1> DEFINE less == {p \in Nat \X Nat : p[1] < p[2]}
<1> SUFFICES ASSUME Nat \ S # {} PROVE FALSE
  OBVIOUS
<1>1. IsWellFoundedOn(less, Nat)
  <2>1. less = OpToRel(<, Nat)
    BY DEF OpToRel
  <2> QED
    BY <2>1, NatLessThanWellFounded
<1>2. PICK x \in Nat \ S : \A y \in Nat \ S : <<y, x>> \notin less
  <2> HIDE DEF less
  <2> QED
    BY <1>1, WFMin
<1>3. x # 0 /\ x - 1 \in Nat /\ x - 1 \notin S
  BY <1>2
<1>4. <<x - 1, x>> \in less
  BY <1>3
<1> QED
  BY <1>2, <1>3, <1>4

\* A recursion over 1..N with values in S has a solution.
Solution(F, N, S, base, step) ==
  F \in [0..N -> S] /\ F[0] = base /\ \A n \in 1..N : F[n] = step[n][F[n - 1]]

LEMMA RecursionExists ==
  ASSUME NEW N \in Nat, NEW S, NEW base \in S, NEW step \in [1..N -> [S -> S]]
  PROVE  \E F : Solution(F, N, S, base, step)
<1> DEFINE Solves(F, m) == F[0] = base /\ \A n \in 1..m : F[n] = step[n][F[n - 1]]
           Reached == {m \in Nat : m <= N => \E F \in [0..m -> S] : Solves(F, m)}
<1>1. 0 \in Reached
  <2>1. [n \in 0..0 |-> base] \in [0..0 -> S] /\ Solves([n \in 0..0 |-> base], 0)
    OBVIOUS
  <2> QED
    BY <2>1
<1>2. ASSUME NEW m \in Nat, m \in Reached
      PROVE  m + 1 \in Reached
  <2> SUFFICES ASSUME m + 1 <= N
               PROVE  \E F \in [0..(m + 1) -> S] : Solves(F, m + 1)
    OBVIOUS
  <2>1. PICK F \in [0..m -> S] : Solves(F, m)
    BY <1>2
  <2> DEFINE G == [n \in 0..(m + 1) |-> IF n = m + 1 THEN step[m + 1][F[m]] ELSE F[n]]
  <2>2. step[m + 1] \in [S -> S] /\ F[m] \in S
    OBVIOUS
  <2>3. G \in [0..(m + 1) -> S]
    BY <2>2
  <2>4. Solves(G, m + 1)
    BY <2>1
  <2> QED
    BY <2>3, <2>4
<1>3. Nat \subseteq Reached
  <2> HIDE DEF Reached
  <2> QED
    BY <1>1, <1>2, NatSet
<1> QED
  BY <1>3 DEF Solution

\* A finite set under a strict total order is numbered by how many of its
\* elements come before each.
StrictOrder(R, S) ==
  /\ \A x \in S : <<x, x>> \notin R
  /\ \A x, y, z \in S : <<x, y>> \in R /\ <<y, z>> \in R => <<x, z>> \in R
  /\ \A x, y \in S : x # y => <<x, y>> \in R \/ <<y, x>> \in R

Rank(x, R, S) == Cardinality(SetLessThan(x, R, S))

LEMMA RankGrows ==
  ASSUME NEW S, IsFiniteSet(S), NEW R, StrictOrder(R, S)
  PROVE  /\ \A x \in S : Rank(x, R, S) \in 0..(Cardinality(S) - 1)
         /\ \A x, y \in S : <<x, y>> \in R => Rank(x, R, S) < Rank(y, R, S)
<1> DEFINE Under(x) == SetLessThan(x, R, S)
<1>1. ASSUME NEW x \in S
      PROVE  IsFiniteSet(Under(x)) /\ Rank(x, R, S) \in 0..(Cardinality(S) - 1)
  <2>1. Under(x) \in SUBSET (S \ {x})
    BY DEF StrictOrder, SetLessThan
  <2>2. IsFiniteSet(S \ {x}) /\ Cardinality(S \ {x}) = Cardinality(S) - 1
    BY FS_RemoveElement
  <2>3. IsFiniteSet(Under(x)) /\ Cardinality(Under(x)) <= Cardinality(S) - 1
    BY <2>1, <2>2, FS_Subset
  <2>4. Cardinality(Under(x)) \in Nat /\ Cardinality(S) \in Nat
    BY <2>3, FS_CardinalityType
  <2> QED
    BY <2>3, <2>4 DEF Rank
<1>2. ASSUME NEW x \in S, NEW y \in S, <<x, y>> \in R
      PROVE  Rank(x, R, S) < Rank(y, R, S)
  <2>1. Under(x) \in SUBSET (Under(y) \ {x}) /\ x \in Under(y)
    BY <1>2 DEF StrictOrder, SetLessThan
  <2>2. IsFiniteSet(Under(y) \ {x}) /\ Cardinality(Under(y) \ {x}) = Cardinality(Under(y)) - 1
    BY <1>1, <2>1, FS_RemoveElement
  <2>3. Cardinality(Under(x)) <= Cardinality(Under(y)) - 1
    BY <2>1, <2>2, FS_Subset
  <2>4. Cardinality(Under(x)) \in Nat /\ Cardinality(Under(y)) \in Nat
    BY <1>1, FS_CardinalityType
  <2> QED
    BY <2>3, <2>4 DEF Rank
<1> QED
  BY <1>1, <1>2

LEMMA RankReaches ==
  ASSUME NEW S, IsFiniteSet(S), NEW R, StrictOrder(R, S), NEW n \in 1..Cardinality(S)
  PROVE  \E x \in S : Rank(x, R, S) = n - 1
<1> DEFINE N == Cardinality(S)
           number == [x \in S |-> Rank(x, R, S) + 1]
<1>0. N \in Nat
  BY FS_CardinalityType
<1>1. \A x \in S : Rank(x, R, S) \in 0..(N - 1)
  BY RankGrows
<1>2. number \in [S -> 1..N]
  BY <1>0, <1>1
<1>3. ASSUME NEW x \in S, NEW y \in S, number[x] = number[y]
      PROVE  x = y
  <2>1. ~(Rank(x, R, S) < Rank(y, R, S)) /\ ~(Rank(y, R, S) < Rank(x, R, S))
    BY <1>1, <1>3
  <2>2. <<x, y>> \notin R /\ <<y, x>> \notin R
    BY <2>1, RankGrows
  <2> QED
    BY <2>2 DEF StrictOrder
<1>4. number \in Injection(S, 1..N)
  BY <1>2, <1>3 DEF Injection, IsInjective
<1>5. IsFiniteSet(1..N) /\ Cardinality(1..N) = N
  BY <1>0, FS_Interval
<1>6. number \in Surjection(S, 1..N)
  BY <1>4, <1>5, FS_Injection
<1>7. PICK x \in S : number[x] = n
  BY <1>6 DEF Surjection
<1> QED
  BY <1>1, <1>7

-----------------------------------------------------------------------------
\* The positions P have an n-th for each n up to their number.
LEMMA NthIsThere ==
  ASSUME NEW P \in SUBSET Nat, IsFiniteSet(P), NEW n \in 1..Cardinality(P)
  PROVE  Nth(P, n) \in P
<1> DEFINE R == {p \in Nat \X Nat : p[1] < p[2]}
<1>1. StrictOrder(R, P)
  BY DEF StrictOrder
<1>2. \A i \in P : SetLessThan(i, R, P) = {j \in P : j < i}
  BY DEF SetLessThan
<1>3. PICK i \in P : Rank(i, R, P) = n - 1
  BY <1>1, RankReaches
<1>4. Cardinality({j \in P : j < i}) = n - 1
  BY <1>2, <1>3 DEF Rank
<1> QED
  BY <1>4 DEF Nth

LEMMA NthOfAll ==
  ASSUME NEW N \in Nat, NEW n \in 1..N
  PROVE  Nth(1..N, n) = n
<1>1. ASSUME NEW i \in 1..N
      PROVE  Cardinality({j \in 1..N : j < i}) = i - 1
  <2>1. {j \in 1..N : j < i} = 1..(i - 1)
    OBVIOUS
  <2>2. Cardinality(1..(i - 1)) = i - 1
    BY FS_Interval
  <2> QED
    BY <2>1, <2>2
<1> QED
  BY <1>1 DEF Nth

\* The last of some positions.
LEMMA LastIsThere ==
  ASSUME NEW P \in SUBSET Nat, IsFiniteSet(P), P # {}
  PROVE  LastOf(P) \in P /\ \A j \in P : j <= LastOf(P)
<1> DEFINE R == {p \in Nat \X Nat : p[1] < p[2]}
           N == Cardinality(P)
<1>1. StrictOrder(R, P)
  BY DEF StrictOrder
<1>2. N \in 1..N
  BY FS_CardinalityType, FS_EmptySet
<1>3. PICK i \in P : Rank(i, R, P) = N - 1
  BY <1>1, <1>2, RankReaches
<1>4. \A j \in P : ~(i < j)
  <2> SUFFICES ASSUME NEW j \in P, i < j PROVE FALSE
    OBVIOUS
  <2>1. <<i, j>> \in R
    OBVIOUS
  <2>2. Rank(i, R, P) < Rank(j, R, P) /\ Rank(j, R, P) \in 0..(N - 1)
    BY <1>1, <2>1, RankGrows
  <2> QED
    BY <1>2, <1>3, <2>2
<1>5. i \in P /\ \A j \in P : j <= i
  BY <1>4
<1> HIDE DEF R, N
<1> QED
  BY <1>5, Zenon DEF LastOf

-----------------------------------------------------------------------------
Keys == Int \X Int \X Int

\* Keys are compared as the text they stand for is: any two that differ are
\* ordered one way.
LEMMA KeysAreOrdered ==
  /\ \A k \in Keys : ~Before(k, k)
  /\ \A k, l, m \in Keys : Before(k, l) /\ Before(l, m) => Before(k, m)
  /\ \A k, l \in Keys : k # l => Before(k, l) \/ Before(l, k)
  /\ \A k, l \in Keys : ~(Before(k, l) /\ Before(l, k))
BY DEF Before, Keys

LEMMA KeysTyped ==
  ASSUME NEW src, WellFormed(src)
  PROVE  /\ Len(src) \in Nat /\ DOMAIN src = 1..Len(src)
         /\ \A i \in DOMAIN src : KeyAt(src, i) \in Keys
<1>1. Len(src) \in Nat /\ DOMAIN src = 1..Len(src)
  BY DEF WellFormed
<1>2. ASSUME NEW i \in DOMAIN src
      PROVE  KeyAt(src, i) \in Keys
  <2> DEFINE earlier == {j \in 1..(i - 1) : src[j].body = src[i].body /\ ~HasCompositeKey(src[j])}
  <2>1. IsFiniteSet(1..(i - 1))
    BY <1>1, FS_Interval
  <2>2. IsFiniteSet(earlier)
    BY <2>1, FS_Subset
  <2>3. Cardinality(earlier) \in Nat
    BY <2>2, FS_CardinalityType
  <2>4. Occurrence(src, i) \in Nat
    BY <2>3 DEF Occurrence
  <2> HIDE DEF earlier
  <2> QED
    BY <2>4 DEF WellFormed, KeyAt, RecordKey, CompositeKey, AutoKey, HasCompositeKey, Keys
<1> QED
  BY <1>1, <1>2

-----------------------------------------------------------------------------
\* One entry for each key.
EntrySet(src) == {EntryOf(src, k) : k \in Range(KeysOf(src))}

\* What holds of the entry of a key.
LEMMA EntryTyped ==
  ASSUME NEW src, WellFormed(src), NEW i \in DOMAIN src
  PROVE  LET e == EntryOf(src, KeyAt(src, i)) IN
         /\ e \in EntrySet(src)
         /\ e.key = KeyAt(src, i)
         /\ e.positions = {j \in DOMAIN src : KeyAt(src, j) = KeyAt(src, i)}
         /\ LastOf(e.positions) \in e.positions
         /\ e.record = src[LastOf(e.positions)]
         /\ e.record # None
<1> DEFINE k == KeyAt(src, i)
           at == {j \in DOMAIN src : KeyAt(src, j) = k}
           e == EntryOf(src, k)
<1>1. PositionsOf(KeysOf(src), k) = at
  BY DEF PositionsOf, KeysOf
<1>2. e = [key |-> k, positions |-> at, record |-> src[LastOf(at)]]
  BY <1>1 DEF EntryOf
<1>3. at \in SUBSET Nat /\ IsFiniteSet(at) /\ at # {}
  <2>1. DOMAIN src = 1..Len(src) /\ Len(src) \in Nat
    BY KeysTyped
  <2>2. IsFiniteSet(1..Len(src))
    BY <2>1, FS_Interval
  <2> QED
    BY <2>1, <2>2, FS_Subset
<1>4. LastOf(at) \in at
  BY <1>3, LastIsThere
<1>5. e \in EntrySet(src)
  BY DEF EntrySet, Range, KeysOf
<1> QED
  BY <1>2, <1>4, <1>5 DEF WellFormed

LEMMA EntriesOfKeys ==
  ASSUME NEW src, WellFormed(src)
  PROVE  /\ \A e \in EntrySet(src) : \E i \in DOMAIN src : e = EntryOf(src, KeyAt(src, i))
         /\ \A e \in EntrySet(src) : e.key \in Keys /\ e.record # None
         /\ \A d, e \in EntrySet(src) : d.key = e.key => d = e
         /\ IsFiniteSet(EntrySet(src))
<1>1. \A e \in EntrySet(src) : \E i \in DOMAIN src : e = EntryOf(src, KeyAt(src, i))
  BY DEF EntrySet, Range, KeysOf
<1>2. \A i \in DOMAIN src : EntryOf(src, KeyAt(src, i)).key = KeyAt(src, i)
  BY EntryTyped
<1>3. \A i \in DOMAIN src : EntryOf(src, KeyAt(src, i)).record # None
  BY EntryTyped
<1>4. \A e \in EntrySet(src) : e.key \in Keys /\ e.record # None
  BY <1>1, <1>2, <1>3, KeysTyped
<1>5. \A d, e \in EntrySet(src) : d.key = e.key => d = e
  BY <1>1, <1>2
<1>6. IsFiniteSet(EntrySet(src))
  <2> DEFINE entry == [i \in DOMAIN src |-> EntryOf(src, KeyAt(src, i))]
  <2>1. IsFiniteSet(DOMAIN src)
    BY KeysTyped, FS_Interval
  <2>2. entry \in Surjection(DOMAIN src, EntrySet(src))
    BY <1>1, EntryTyped DEF Surjection
  <2> QED
    BY <2>1, <2>2, FS_Surjection
<1> QED
  BY <1>1, <1>4, <1>5, <1>6

\* The entries are a sequence of them all, each before the next.
Sorted(es) == \A m, n \in DOMAIN es : m < n => Before(es[m].key, es[n].key)

LEMMA EntriesAreSorted ==
  ASSUME NEW src, WellFormed(src)
  PROVE  /\ EntriesOf(src) \in Seq(EntrySet(src))
         /\ Range(EntriesOf(src)) = EntrySet(src)
         /\ Sorted(EntriesOf(src))
<1> DEFINE E == EntrySet(src)
           N == Cardinality(E)
           R == {p \in E \X E : Before(p[1].key, p[2].key)}
           es == EntriesOf(src)
<1>1. IsFiniteSet(E) /\ N \in Nat
  BY EntriesOfKeys, FS_CardinalityType
<1>2. StrictOrder(R, E)
  BY EntriesOfKeys, KeysAreOrdered DEF StrictOrder
<1>3. \A e \in E : Rank(e, R, E) = Cardinality({d \in E : Before(d.key, e.key)})
  <2>1. \A e \in E : SetLessThan(e, R, E) = {d \in E : Before(d.key, e.key)}
    BY DEF SetLessThan
  <2> QED
    BY <2>1 DEF Rank
<1>4. es = [n \in 1..N |-> CHOOSE e \in E : Cardinality({d \in E : Before(d.key, e.key)}) = n - 1]
  BY DEF EntriesOf, EntrySet
<1> HIDE DEF E, R, es
<1>5. ASSUME NEW n \in 1..N
      PROVE  es[n] \in E /\ Rank(es[n], R, E) = n - 1
  <2>1. \E e \in E : Rank(e, R, E) = n - 1
    BY <1>1, <1>2, RankReaches
  <2>2. es[n] = CHOOSE e \in E : Cardinality({d \in E : Before(d.key, e.key)}) = n - 1
    BY <1>4
  <2>3. \E e \in E : Cardinality({d \in E : Before(d.key, e.key)}) = n - 1
    BY <1>3, <2>1
  <2>4. es[n] \in E /\ Cardinality({d \in E : Before(d.key, es[n].key)}) = n - 1
    <3> DEFINE P(e) == Cardinality({d \in E : Before(d.key, e.key)}) = n - 1
    <3>1. \E e \in E : P(e)
      BY <2>3
    <3>2. es[n] = CHOOSE e \in E : P(e)
      BY <2>2
    <3> HIDE DEF P
    <3>3. es[n] \in E /\ P(es[n])
      BY <3>1, <3>2, Zenon
    <3> QED
      BY <3>3 DEF P
  <2> QED
    BY <1>3, <2>4
<1>6. DOMAIN es = 1..N /\ es \in Seq(E)
  <2>1. es \in [1..N -> E]
    BY <1>4, <1>5
  <2> QED
    BY <1>1, <2>1
<1>7. ASSUME NEW e \in E
      PROVE  \E n \in 1..N : es[n] = e
  <2>1. Rank(e, R, E) \in 0..(N - 1)
    BY <1>1, <1>2, RankGrows
  <2> DEFINE n == Rank(e, R, E) + 1
  <2>2. n \in 1..N /\ n - 1 = Rank(e, R, E)
    BY <1>1, <2>1
  <2>3. es[n] \in E /\ Rank(es[n], R, E) = Rank(e, R, E)
    BY <1>5, <2>2
  <2>4. es[n] = e
    <3>1. <<es[n], e>> \notin R /\ <<e, es[n]>> \notin R
      BY <1>1, <1>2, <2>1, <2>3, RankGrows
    <3> QED
      BY <1>2, <2>3, <3>1 DEF StrictOrder
  <2> QED
    BY <2>2, <2>4
<1>8. Range(es) = E
  BY <1>5, <1>6, <1>7 DEF Range
<1>9. Sorted(es)
  <2> SUFFICES ASSUME NEW m \in 1..N, NEW n \in 1..N, m < n
               PROVE  Before(es[m].key, es[n].key)
    BY <1>6 DEF Sorted
  <2>1. es[m] \in E /\ es[n] \in E /\ Rank(es[m], R, E) = m - 1 /\ Rank(es[n], R, E) = n - 1
    BY <1>5
  <2>2. es[m] # es[n]
    BY <2>1
  <2>3. <<es[n], es[m]>> \notin R
    BY <1>1, <1>2, <2>1, RankGrows
  <2>4. <<es[m], es[n]>> \in R
    BY <1>2, <2>1, <2>2, <2>3 DEF StrictOrder
  <2> QED
    BY <2>4 DEF R
<1> QED
  BY <1>6, <1>8, <1>9 DEF E, es

-----------------------------------------------------------------------------
\* Blocks of entries of E.
Blocks(E) == Seq([firstKey : Keys, entries : Seq(E)])

\* What a sequence of blocks is while entries are put into it by key: S is
\* the set of those put so far.
Packing(bs, S) ==
  /\ \A i \in DOMAIN bs : /\ \E e \in Range(bs[i].entries) : e.key = bs[i].firstKey
                          /\ \A e \in Range(bs[i].entries) : AtOrBefore(bs[i].firstKey, e.key)
  /\ \A i, j \in DOMAIN bs : i < j =>
       \A e \in Range(bs[i].entries) : Before(e.key, bs[j].firstKey)
  /\ \A e : e \in S <=> \E i \in DOMAIN bs : e \in Range(bs[i].entries)

\* The two outcomes of Put.
InLastBlock(bs, e, new) ==
  /\ DOMAIN new = DOMAIN bs /\ Len(bs) \in DOMAIN bs
  /\ \A i \in DOMAIN bs :
       /\ new[i].firstKey = bs[i].firstKey
       /\ i # Len(bs) => Range(new[i].entries) = Range(bs[i].entries)
  /\ Range(new[Len(bs)].entries) = Range(bs[Len(bs)].entries) \cup {e}

InNewBlock(bs, e, new) ==
  /\ DOMAIN new = DOMAIN bs \cup {Len(bs) + 1}
  /\ \A i \in DOMAIN bs : new[i] = bs[i]
  /\ new[Len(bs) + 1].firstKey = e.key
  /\ Range(new[Len(bs) + 1].entries) = {e}

LEMMA PutCases ==
  ASSUME NEW E, NEW bs \in Blocks(E), NEW e \in E, e.key \in Keys
  PROVE  /\ Put(bs, e) \in Blocks(E)
         /\ InLastBlock(bs, e, Put(bs, e)) \/ InNewBlock(bs, e, Put(bs, e))
<1> DEFINE L == Len(bs)
           B == [firstKey : Keys, entries : Seq(E)]
<1>0. L \in Nat /\ DOMAIN bs = 1..L /\ bs \in Seq(B)
  BY DEF Blocks
<1>1. CASE bs # <<>> /\ ~Full(bs[L].entries)
  <2>1. L \in 1..L /\ bs[L] \in B
    <3> HIDE DEF B
    <3>1. L # 0
      BY <1>0, <1>1
    <3> QED
      BY <1>0, <3>1
  <2> DEFINE new == [bs[L] EXCEPT !.entries = Append(bs[L].entries, e)]
  <2>2. Put(bs, e) = [bs EXCEPT ![L] = new]
    BY <1>1, <2>1 DEF Put
  <2>3. bs[L].entries \in Seq(E)
    BY <2>1
  <2>4. Append(bs[L].entries, e) \in Seq(E)
    BY <2>3
  <2>5. new \in B /\ new.firstKey = bs[L].firstKey /\ new.entries = Append(bs[L].entries, e)
    BY <2>1, <2>4
  <2>6. Range(Append(bs[L].entries, e)) = Range(bs[L].entries) \cup {e}
    <3> DEFINE old == bs[L].entries
               M == Len(old)
    <3>1. M \in Nat /\ DOMAIN old = 1..M /\ DOMAIN Append(old, e) = 1..(M + 1)
      BY <2>3
    <3>2. Append(old, e)[M + 1] = e /\ \A i \in 1..M : Append(old, e)[i] = old[i]
      BY <2>3
    <3> HIDE DEF old, M
    <3> QED
      BY <3>1, <3>2 DEF Range, old
  <2> HIDE DEF new, B
  <2>7. Put(bs, e) \in Seq(B)
    BY <1>0, <2>1, <2>2, <2>5
  <2>8. DOMAIN Put(bs, e) = DOMAIN bs /\ Put(bs, e)[L] = new /\ \A i \in DOMAIN bs : i # L => Put(bs, e)[i] = bs[i]
    BY <1>0, <2>1, <2>2
  <2> QED
    BY <1>0, <2>1, <2>5, <2>6, <2>7, <2>8 DEF Blocks, B, InLastBlock
<1>2. CASE ~(bs # <<>> /\ ~Full(bs[L].entries))
  <2> DEFINE new == [firstKey |-> e.key, entries |-> <<e>>]
  <2>1. Put(bs, e) = Append(bs, new)
    BY <1>2 DEF Put
  <2>2. new \in B /\ new.firstKey = e.key /\ Range(new.entries) = {e}
    BY DEF Range
  <2> HIDE DEF new, B
  <2>3. /\ Put(bs, e) \in Seq(B)
        /\ DOMAIN Put(bs, e) = 1..(L + 1)
        /\ Put(bs, e)[L + 1] = new
        /\ \A i \in DOMAIN bs : Put(bs, e)[i] = bs[i]
    BY <1>0, <2>1, <2>2
  <2>4. Put(bs, e) \in Blocks(E)
    BY <2>3 DEF Blocks, B
  <2>5. 1..(L + 1) = DOMAIN bs \cup {L + 1}
    BY <1>0
  <2> HIDE DEF L
  <2> QED
    BY <2>2, <2>3, <2>4, <2>5 DEF L, InNewBlock
<1> QED
  BY <1>1, <1>2

\* An entry whose key comes after all the others keeps a packing one.
LEMMA PutPacks ==
  ASSUME NEW E, NEW bs \in Blocks(E), NEW e \in E, \A d \in E : d.key \in Keys,
         NEW S \in SUBSET E, Packing(bs, S), \A d \in S : Before(d.key, e.key)
  PROVE  Packing(Put(bs, e), S \cup {e})
<1> DEFINE new == Put(bs, e)
           L == Len(bs)
<1>0. L \in Nat /\ DOMAIN bs = 1..L
  BY DEF Blocks
<1>1. \A i \in DOMAIN bs : \A d \in Range(bs[i].entries) : d \in S
  BY DEF Packing
<1>2. \A i \in DOMAIN bs : Before(bs[i].firstKey, e.key)
  BY <1>1 DEF Packing
<1> HIDE DEF new
<1>3. CASE InLastBlock(bs, e, new)
  <2> USE DEF InLastBlock
  <2>1. ASSUME NEW i \in DOMAIN new
        PROVE  /\ \E d \in Range(new[i].entries) : d.key = new[i].firstKey
               /\ \A d \in Range(new[i].entries) : AtOrBefore(new[i].firstKey, d.key)
    BY <1>2, <1>3, <2>1 DEF Packing, AtOrBefore
  <2>2. ASSUME NEW i \in DOMAIN new, NEW j \in DOMAIN new, i < j
        PROVE  \A d \in Range(new[i].entries) : Before(d.key, new[j].firstKey)
    BY <1>0, <1>3, <2>2 DEF Packing
  <2>3. ASSUME NEW d
        PROVE  d \in S \cup {e} <=> \E i \in DOMAIN new : d \in Range(new[i].entries)
    BY <1>3 DEF Packing
  <2> QED
    BY <2>1, <2>2, <2>3 DEF Packing, new
<1>4. CASE InNewBlock(bs, e, new)
  <2> USE DEF InNewBlock
  <2>1. ASSUME NEW i \in DOMAIN new
        PROVE  /\ \E d \in Range(new[i].entries) : d.key = new[i].firstKey
               /\ \A d \in Range(new[i].entries) : AtOrBefore(new[i].firstKey, d.key)
    BY <1>4, <2>1 DEF Packing, AtOrBefore
  <2>2. ASSUME NEW i \in DOMAIN new, NEW j \in DOMAIN new, i < j
        PROVE  \A d \in Range(new[i].entries) : Before(d.key, new[j].firstKey)
    BY <1>0, <1>1, <1>4, <2>2 DEF Packing
  <2>3. ASSUME NEW d
        PROVE  d \in S \cup {e} <=> \E i \in DOMAIN new : d \in Range(new[i].entries)
    BY <1>4 DEF Packing
  <2> QED
    BY <2>1, <2>2, <2>3 DEF Packing, new
<1>5. e.key \in Keys
  OBVIOUS
<1> QED
  BY <1>3, <1>4, <1>5, PutCases DEF new

\* Packed puts the entries in one after the other.
LEMMA PackedRecursion ==
  ASSUME NEW E, \A e \in E : e.key \in Keys, NEW es \in Seq(E)
  PROVE  \E upTo \in [0..Len(es) -> Blocks(E)] :
           /\ Packed(es) = upTo[Len(es)]
           /\ upTo[0] = <<>>
           /\ \A n \in 1..Len(es) : upTo[n] = Put(upTo[n - 1], es[n])
<1> DEFINE N == Len(es)
           step == [n \in 1..N |-> [bs \in Blocks(E) |-> Put(bs, es[n])]]
           Is(F) == F = [n \in 0..N |-> IF n = 0 THEN <<>> ELSE Put(F[n - 1], es[n])]
<1>1. N \in Nat /\ \A n \in 1..N : es[n] \in E
  OBVIOUS
<1>2. <<>> \in Blocks(E)
  BY DEF Blocks
<1>3. step \in [1..N -> [Blocks(E) -> Blocks(E)]]
  <2>1. ASSUME NEW n \in 1..N, NEW bs \in Blocks(E)
        PROVE  Put(bs, es[n]) \in Blocks(E)
    BY <1>1, PutCases
  <2> QED
    BY <2>1
<1>4. PICK F \in [0..N -> Blocks(E)] : F[0] = <<>> /\ \A n \in 1..N : F[n] = step[n][F[n - 1]]
  <2> DEFINE S == Blocks(E)
             base == <<>>
  <2> HIDE DEF step, S, base, N
  <2>1. N \in Nat /\ base \in S /\ step \in [1..N -> [S -> S]]
    BY <1>1, <1>2, <1>3 DEF S, base
  <2>2. \E F : Solution(F, N, S, base, step)
    BY <2>1, RecursionExists
  <2> QED
    BY <2>2 DEF S, base, Solution
<1>5. \A n \in 1..N : F[n] = Put(F[n - 1], es[n])
  <2>1. \A n \in 1..N : F[n - 1] \in Blocks(E)
    BY <1>1
  <2> QED
    BY <1>4, <2>1
<1>6. Is(F)
  BY <1>1, <1>4, <1>5
<1> DEFINE upTo == CHOOSE G : Is(G)
<1>7. Is(upTo)
  <2> HIDE DEF Is
  <2> QED
    BY <1>6, Zenon
<1>8. Packed(es) = upTo[N]
  BY DEF Packed
<1> HIDE DEF upTo, step
<1>9. DOMAIN upTo = 0..N /\ upTo[0] = <<>> /\ \A n \in 1..N : upTo[n] = Put(upTo[n - 1], es[n])
  BY <1>1, <1>7
<1>10. upTo \in [0..N -> Blocks(E)]
  <2> DEFINE Typed == {n \in Nat : n <= N => upTo[n] \in Blocks(E)}
  <2>1. 0 \in Typed
    BY <1>2, <1>9
  <2>2. ASSUME NEW n \in Nat, n \in Typed
        PROVE  n + 1 \in Typed
    <3> SUFFICES ASSUME n + 1 <= N PROVE upTo[n + 1] \in Blocks(E)
      OBVIOUS
    <3>1. upTo[n] \in Blocks(E) /\ n + 1 \in 1..N /\ (n + 1) - 1 = n
      BY <1>1, <2>2
    <3>2. upTo[n + 1] = Put(upTo[n], es[n + 1])
      BY <1>9, <3>1
    <3> QED
      BY <1>1, <3>1, <3>2, PutCases
  <2>3. Nat \subseteq Typed
    <3> HIDE DEF Typed
    <3> QED
      BY <2>1, <2>2, NatSet
  <2>4. upTo = [n \in 0..N |-> upTo[n]]
    BY <1>7
  <2> QED
    BY <1>1, <2>3, <2>4
<1> QED
  BY <1>8, <1>9, <1>10

\* Sorted entries are packed.
LEMMA PackedPacks ==
  ASSUME NEW E, \A e \in E : e.key \in Keys, NEW es \in Seq(E), Sorted(es)
  PROVE  Packed(es) \in Blocks(E) /\ Packing(Packed(es), Range(es))
<1> DEFINE N == Len(es)
           put(n) == {es[m] : m \in 1..n}
<1>1. N \in Nat /\ DOMAIN es = 1..N /\ \A n \in 1..N : es[n] \in E
  OBVIOUS
<1>2. PICK upTo \in [0..N -> Blocks(E)] :
           /\ Packed(es) = upTo[N]
           /\ upTo[0] = <<>>
           /\ \A n \in 1..N : upTo[n] = Put(upTo[n - 1], es[n])
  BY PackedRecursion
<1> DEFINE Good == {n \in Nat : n <= N => Packing(upTo[n], put(n))}
<1>3. 0 \in Good
  BY <1>2 DEF Packing
<1>4. ASSUME NEW n \in Nat, n \in Good
      PROVE  n + 1 \in Good
  <2> SUFFICES ASSUME n + 1 <= N PROVE Packing(upTo[n + 1], put(n + 1))
    OBVIOUS
  <2>1. Packing(upTo[n], put(n)) /\ n + 1 \in 1..N /\ (n + 1) - 1 = n /\ n \in 0..N
    BY <1>1, <1>4
  <2>2. put(n) \in SUBSET E /\ es[n + 1] \in E
    BY <1>1, <2>1
  <2>3. \A d \in put(n) : Before(d.key, es[n + 1].key)
    BY <1>1, <2>1 DEF Sorted
  <2>4. upTo[n] \in Blocks(E)
    BY <2>1
  <2>5. put(n + 1) = put(n) \cup {es[n + 1]}
    BY <2>1
  <2>6. upTo[n + 1] = Put(upTo[n], es[n + 1])
    BY <1>2, <2>1
  <2> HIDE DEF put
  <2> QED
    BY <2>1, <2>2, <2>3, <2>4, <2>5, <2>6, PutPacks
<1>5. Nat \subseteq Good
  <2> HIDE DEF Good
  <2> QED
    BY <1>3, <1>4, NatSet
<1>6. Packing(upTo[N], put(N))
  BY <1>1, <1>5
<1>7. put(N) = Range(es)
  BY <1>1 DEF Range
<1> HIDE DEF N, put, Good
<1> QED
  BY <1>1, <1>2, <1>6, <1>7

-----------------------------------------------------------------------------
LEMMA BlocksPack ==
  ASSUME NEW src, WellFormed(src)
  PROVE  /\ BlocksOf(src) \in Blocks(EntrySet(src))
         /\ Packing(BlocksOf(src), EntrySet(src))
<1> DEFINE E == EntrySet(src)
           es == EntriesOf(src)
<1>1. \A e \in E : e.key \in Keys
  BY EntriesOfKeys
<1>2. es \in Seq(E) /\ Sorted(es) /\ Range(es) = E
  BY EntriesAreSorted
<1> HIDE DEF E, es
<1>3. Packed(es) \in Blocks(E) /\ Packing(Packed(es), Range(es))
  BY <1>1, <1>2, PackedPacks
<1> QED
  BY <1>2, <1>3 DEF BlocksOf, E, es

\* The blocks of a packing are in the order of their first keys.
LEMMA FirstKeysAscend ==
  ASSUME NEW E, NEW bs \in Blocks(E), NEW S, Packing(bs, S)
  PROVE  /\ \A i \in DOMAIN bs : bs[i].firstKey \in Keys
         /\ \A i, j \in DOMAIN bs : i < j => Before(bs[i].firstKey, bs[j].firstKey)
         /\ DOMAIN bs = 1..Len(bs) /\ Len(bs) \in Nat
<1>1. \A i \in DOMAIN bs : bs[i].firstKey \in Keys
  <2> DEFINE B == [firstKey : Keys, entries : Seq(E)]
  <2>1. \A b \in B : b.firstKey \in Keys
    OBVIOUS
  <2>2. bs \in Seq(B)
    BY DEF Blocks
  <2> HIDE DEF B
  <2> QED
    BY <2>1, <2>2
<1>2. \A i, j \in DOMAIN bs : i < j => Before(bs[i].firstKey, bs[j].firstKey)
  BY DEF Packing
<1>3. DOMAIN bs = 1..Len(bs) /\ Len(bs) \in Nat
  BY DEF Blocks
<1> QED
  BY <1>1, <1>2, <1>3

\* A key is probed for in the block that has it.
LEMMA LocatedByKey ==
  ASSUME NEW src, WellFormed(src), NEW e \in EntrySet(src)
  PROVE  Located(BlocksOf(src), e.key) = e.record
<1> DEFINE E == EntrySet(src)
           bs == BlocksOf(src)
           below == {i \in DOMAIN bs : AtOrBefore(bs[i].firstKey, e.key)}
           AllBefore(i) == \A j \in below : AtOrBefore(bs[j].firstKey, bs[i].firstKey)
<1>1. bs \in Blocks(E) /\ Packing(bs, E)
  BY BlocksPack
<1>2. e.key \in Keys /\ \A d \in E : d.key = e.key => d = e
  BY EntriesOfKeys
<1> HIDE DEF bs, E
<1>3. PICK i \in DOMAIN bs : e \in Range(bs[i].entries)
  BY <1>1 DEF Packing, E
<1>4. /\ \A j \in DOMAIN bs : bs[j].firstKey \in Keys
      /\ \A j, m \in DOMAIN bs : j < m => Before(bs[j].firstKey, bs[m].firstKey)
      /\ DOMAIN bs = 1..Len(bs) /\ Len(bs) \in Nat
  BY <1>1, FirstKeysAscend
<1>5. i \in below
  BY <1>1, <1>3 DEF Packing
<1>6. ASSUME NEW j \in below
      PROVE  j <= i
  <2>1. i < j => Before(e.key, bs[j].firstKey)
    BY <1>1, <1>3 DEF Packing
  <2>2. ~Before(e.key, bs[j].firstKey)
    BY <1>2, <1>4, KeysAreOrdered DEF AtOrBefore
  <2> QED
    BY <1>4, <2>1, <2>2
<1>7. AllBefore(i)
  BY <1>4, <1>6 DEF AtOrBefore
<1>8. ASSUME NEW m \in below, AllBefore(m)
      PROVE  m = i
  <2>1. AtOrBefore(bs[i].firstKey, bs[m].firstKey)
    BY <1>5, <1>8
  <2>2. ~Before(bs[m].firstKey, bs[i].firstKey)
    BY <1>4, <2>1, KeysAreOrdered DEF AtOrBefore
  <2> QED
    BY <1>4, <1>6, <2>2
<1> DEFINE last == CHOOSE m \in below : AllBefore(m)
<1>9. last = i
  <2> HIDE DEF below, AllBefore
  <2> QED
    BY <1>5, <1>7, <1>8, Zenon
<1>10. {d \in Range(bs[i].entries) : d.key = e.key} = {e}
  BY <1>1, <1>2, <1>3 DEF Packing
<1>11. Probed(bs, below, e.key) = {e}
  BY <1>9, <1>10 DEF Probed
<1>12. below # {}
  BY <1>5
<1>13. Located(bs, e.key) = (CHOOSE d \in {e} : TRUE).record
  BY <1>11, <1>12 DEF Located
<1> QED
  BY <1>13 DEF bs

\* No record is found under a key of no entry.
LEMMA LocatedNothing ==
  ASSUME NEW src, WellFormed(src), NEW k, \A e \in EntrySet(src) : e.key # k
  PROVE  Located(BlocksOf(src), k) = None
<1> DEFINE E == EntrySet(src)
           bs == BlocksOf(src)
           below == {i \in DOMAIN bs : AtOrBefore(bs[i].firstKey, k)}
           AllBefore(i) == \A j \in below : AtOrBefore(bs[j].firstKey, bs[i].firstKey)
           last == CHOOSE m \in below : AllBefore(m)
<1>1. bs \in Blocks(E) /\ Packing(bs, E)
  BY BlocksPack
<1> HIDE DEF bs, E
<1>2. /\ \A j, m \in DOMAIN bs : j < m => Before(bs[j].firstKey, bs[m].firstKey)
      /\ DOMAIN bs = 1..Len(bs) /\ Len(bs) \in Nat
  BY <1>1, FirstKeysAscend
<1>3. ASSUME below # {}
      PROVE  last \in below
  <2>1. below \in SUBSET Nat /\ below \in SUBSET (1..Len(bs))
    BY <1>2
  <2>2. IsFiniteSet(below)
    <3>1. IsFiniteSet(1..Len(bs))
      BY <1>2, FS_Interval
    <3> HIDE DEF below
    <3> QED
      BY <2>1, <3>1, FS_Subset
  <2>3. LastOf(below) \in below /\ \A j \in below : j <= LastOf(below)
    <3> HIDE DEF below
    <3> QED
      BY <1>3, <2>1, <2>2, LastIsThere
  <2>4. AllBefore(LastOf(below))
    <3> DEFINE m == LastOf(below)
    <3>1. m \in DOMAIN bs /\ m \in Nat
      BY <1>2, <2>1, <2>3
    <3> SUFFICES ASSUME NEW j \in below
                 PROVE  AtOrBefore(bs[j].firstKey, bs[m].firstKey)
      OBVIOUS
    <3>2. j \in DOMAIN bs /\ j \in Nat /\ j <= m
      BY <2>1, <2>3
    <3> HIDE DEF m
    <3>3. j < m \/ j = m
      BY <3>1, <3>2
    <3> QED
      BY <1>2, <3>1, <3>2, <3>3 DEF AtOrBefore
  <2> HIDE DEF below, AllBefore
  <2> QED
    BY <2>3, <2>4, Zenon
<1>4. below # {} => Probed(bs, below, k) = {}
  <2> SUFFICES ASSUME below # {} PROVE Probed(bs, below, k) = {}
    OBVIOUS
  <2>1. last \in DOMAIN bs
    BY <1>3
  <2>2. Probed(bs, below, k) = {e \in Range(bs[last].entries) : e.key = k}
    BY DEF Probed
  <2> HIDE DEF last
  <2> QED
    BY <1>1, <2>1, <2>2 DEF Packing, E
<1>5. Located(bs, k) = None
  BY <1>4 DEF Located
<1> QED
  BY <1>5 DEF bs

\* The blocks put back in order are the file, each record the one stored last
\* under its key.
LEMMA InOrderIsStoredForm ==
  ASSUME NEW src, WellFormed(src)
  PROVE  InOrder(BlocksOf(src)) = StoredForm(src)
<1> DEFINE E == EntrySet(src)
           bs == BlocksOf(src)
           entries == UNION {Range(bs[i].entries) : i \in DOMAIN bs}
           at == UNION {e.positions : e \in entries}
<1>1. Packing(bs, E)
  BY BlocksPack
<1>2. entries = E
  <2> HIDE DEF bs, E
  <2> QED
    BY <1>1 DEF Packing
<1>3. DOMAIN src = 1..Len(src) /\ Len(src) \in Nat
  BY KeysTyped
<1>4. ASSUME NEW i \in DOMAIN src
      PROVE  /\ EntryOf(src, KeyAt(src, i)) \in E
             /\ EntryOf(src, KeyAt(src, i)).key = KeyAt(src, i)
             /\ EntryOf(src, KeyAt(src, i)).positions = {j \in DOMAIN src : KeyAt(src, j) = KeyAt(src, i)}
  BY EntryTyped
<1>5. \A e \in E : \E i \in DOMAIN src : e = EntryOf(src, KeyAt(src, i))
  BY EntriesOfKeys
<1>6. at = DOMAIN src
  BY <1>2, <1>4, <1>5
<1>7. Cardinality(at) = Len(src)
  <2> DEFINE N == Len(src)
  <2>1. N \in Nat /\ at = 1..N
    BY <1>3, <1>6
  <2> HIDE DEF N, at
  <2>2. Cardinality(1..N) = N
    BY <2>1, FS_Interval
  <2> QED
    BY <2>1, <2>2 DEF N
<1>8. ASSUME NEW i \in DOMAIN src
      PROVE  (CHOOSE e \in entries : i \in e.positions) = EntryOf(src, KeyAt(src, i))
  <2>1. /\ EntryOf(src, KeyAt(src, i)) \in entries
        /\ i \in EntryOf(src, KeyAt(src, i)).positions
    BY <1>2, <1>4
  <2>2. ASSUME NEW e \in entries, i \in e.positions
        PROVE  e = EntryOf(src, KeyAt(src, i))
    BY <1>2, <1>4, <1>5, <2>2
  <2> HIDE DEF entries
  <2> QED
    BY <2>1, <2>2
<1>9. InOrder(bs) = [i \in 1..Cardinality(at) |->
                       [key |-> (CHOOSE e \in entries : i \in e.positions).key,
                        record |-> (CHOOSE e \in entries : i \in e.positions).record]]
  BY DEF InOrder
<1>10. StoredForm(src) = [i \in 1..Len(src) |-> [key |-> KeyAt(src, i),
                                                 record |-> EntryOf(src, KeyAt(src, i)).record]]
  BY <1>3 DEF StoredForm
<1>11. InOrder(bs) = StoredForm(src)
  <2> DEFINE found == [i \in 1..Cardinality(at) |-> CHOOSE e \in entries : i \in e.positions]
             pair(e) == [key |-> e.key, record |-> e.record]
  <2>1. InOrder(bs) = [i \in 1..Cardinality(at) |-> pair(found[i])]
    BY <1>9
  <2>2. \A i \in 1..Len(src) : found[i] = EntryOf(src, KeyAt(src, i))
    BY <1>3, <1>7, <1>8
  <2>3. StoredForm(src) = [i \in 1..Len(src) |-> pair(EntryOf(src, KeyAt(src, i)))]
    BY <1>3, <1>4, <1>10
  <2> HIDE DEF at, entries, bs, E, found, pair
  <2> QED
    BY <1>7, <2>1, <2>2, <2>3
<1> QED
  BY <1>11 DEF bs

-----------------------------------------------------------------------------
\* A column gives back the values it was made of.
LEMMA RowsShowTheValues ==
  ASSUME NEW keys, NEW values, DOMAIN values = DOMAIN keys,
         \A i \in DOMAIN values : values[i] = None \/ values[i].type \in ValueTypes
  PROVE  RowsOf(ProjectionOf(keys, values)) =
           [i \in DOMAIN keys |-> [key |-> keys[i], value |-> values[i]]]
<1> DEFINE types == {v.type : v \in Range(values) \ {None}}
           col == Column(values)
           kind(T) == CASE T = {} -> "empty"
                        [] Cardinality(T) = 1 /\ T # {"nested"} -> CHOOSE t \in T : TRUE
                        [] T = {"int", "float"} -> "float"
                        [] OTHER -> "raw"
<1>0. ColumnKind(values) = kind(types)
  BY DEF ColumnKind
<1>1. ASSUME ColumnKind(values) = "empty"
      PROVE  types = {}
  <2>1. "empty" \notin types
    BY DEF Range, ValueTypes
  <2> HIDE DEF types
  <2>2. CASE Cardinality(types) = 1 /\ types # {"nested"} /\ types # {}
    <3>1. kind(types) = CHOOSE t \in types : TRUE
      BY <2>2
    <3> QED
      BY <1>0, <1>1, <2>1, <2>2, <3>1
  <2>3. CASE types # {} /\ ~(Cardinality(types) = 1 /\ types # {"nested"})
    BY <1>0, <1>1, <2>3
  <2> QED
    BY <2>2, <2>3
<1>2. ASSUME NEW i \in DOMAIN values
      PROVE  ValueAt(col, i) = values[i]
  <2>1. CASE values[i] = None
    BY <2>1 DEF ValueAt, Column
  <2>2. CASE values[i] # None
    <3>1. types # {}
      BY <2>2 DEF Range
    <3>2. ColumnKind(values) # "empty"
      BY <1>1, <3>1
    <3> QED
      BY <2>2, <3>2 DEF ValueAt, Column
  <2> QED
    BY <2>1, <2>2
<1> HIDE DEF col
<1> QED
  BY <1>2 DEF RowsOf, ProjectionOf, col

\* Postings depend on the keys of the records and on what is indexed of them.
Hits(index, pairs, k) == {i \in DOMAIN pairs : k \in IndexKeys(index, pairs[i].record)}

KeysAt(pairs, P) == [n \in 1..Cardinality(P) |-> pairs[Nth(P, n)].key]

LEMMA HitsAreThere ==
  ASSUME NEW index, NEW pairs, NEW k, NEW N \in Nat, DOMAIN pairs = 1..N,
         NEW n \in 1..Cardinality(Hits(index, pairs, k))
  PROVE  Nth(Hits(index, pairs, k), n) \in Hits(index, pairs, k)
<1> DEFINE P == Hits(index, pairs, k)
<1>1. P \in SUBSET (1..N) /\ P \in SUBSET Nat
  BY DEF Hits
<1>2. IsFiniteSet(1..N)
  BY FS_Interval
<1> HIDE DEF P
<1>3. IsFiniteSet(P)
  BY <1>1, <1>2, FS_Subset
<1>4. n \in 1..Cardinality(P)
  BY DEF P
<1>5. Nth(P, n) \in P
  BY <1>1, <1>3, <1>4, NthIsThere
<1> QED
  BY <1>5 DEF P

LEMMA PostingsOfKey ==
  ASSUME NEW index, NEW pairs, NEW k
  PROVE  /\ k \in DOMAIN PostingsOf(index, pairs) <=> Hits(index, pairs, k) # {}
         /\ k \in DOMAIN PostingsOf(index, pairs) =>
              PostingsOf(index, pairs)[k] = KeysAt(pairs, Hits(index, pairs, k))
<1> DEFINE found == Picked(pairs, Hits(index, pairs, k))
<1>1. found = [n \in 1..Cardinality(Hits(index, pairs, k)) |-> pairs[Nth(Hits(index, pairs, k), n)]]
  BY DEF Picked
<1>2. DOMAIN PostingsOf(index, pairs) = UNION {IndexKeys(index, pairs[i].record) : i \in DOMAIN pairs}
  BY DEF PostingsOf
<1>3. k \in DOMAIN PostingsOf(index, pairs) =>
        PostingsOf(index, pairs)[k] = [n \in DOMAIN found |-> found[n].key]
  BY DEF PostingsOf, Hits
<1> HIDE DEF found
<1>4. [n \in DOMAIN found |-> found[n].key] =
        KeysAt(pairs, Hits(index, pairs, k))
  BY <1>1 DEF KeysAt
<1>5. k \in DOMAIN PostingsOf(index, pairs) <=> Hits(index, pairs, k) # {}
  BY <1>2 DEF Hits
<1> QED
  BY <1>3, <1>4, <1>5

LEMMA SamePostings ==
  ASSUME NEW index, NEW N \in Nat, NEW ps, NEW qs, DOMAIN ps = 1..N, DOMAIN qs = 1..N,
         \A i \in 1..N : /\ ps[i].key = qs[i].key
                         /\ IndexKeys(index, ps[i].record) = IndexKeys(index, qs[i].record)
  PROVE  PostingsOf(index, ps) = PostingsOf(index, qs)
<1> DEFINE P == PostingsOf(index, ps)
           Q == PostingsOf(index, qs)
<1>1. ASSUME NEW k
      PROVE  Hits(index, ps, k) = Hits(index, qs, k)
  BY DEF Hits
<1>2. DOMAIN P = DOMAIN Q
  BY <1>1, PostingsOfKey
<1>3. ASSUME NEW k \in DOMAIN P
      PROVE  P[k] = Q[k]
  <2> DEFINE H == Hits(index, ps, k)
  <2>1. P[k] = KeysAt(ps, H)
    BY PostingsOfKey
  <2>2. Q[k] = KeysAt(qs, H)
    BY <1>1, <1>2, PostingsOfKey
  <2>3. \A n \in 1..Cardinality(H) : Nth(H, n) \in 1..N
    BY HitsAreThere DEF Hits
  <2> HIDE DEF H
  <2> QED
    BY <2>1, <2>2, <2>3 DEF KeysAt
<1>4. P = [k \in DOMAIN P |-> P[k]] /\ Q = [k \in DOMAIN Q |-> Q[k]]
  BY DEF PostingsOf
<1> HIDE DEF P, Q
<1>5. P = Q
  BY <1>2, <1>3, <1>4
<1> QED
  BY <1>5 DEF P, Q

\* A record of the stored form is one the file has under the same key.
LEMMA StoredFormShows ==
  ASSUME NEW src, WellFormed(src)
  PROVE  /\ DOMAIN StoredForm(src) = 1..Len(src) /\ Len(src) \in Nat /\ DOMAIN src = 1..Len(src)
         /\ \A i \in DOMAIN src :
              /\ StoredForm(src)[i].key = KeyAt(src, i)
              /\ StoredForm(src)[i].record = EntryOf(src, KeyAt(src, i)).record
              /\ StoredForm(src)[i].record # None
              /\ \E j \in DOMAIN src : /\ KeyAt(src, j) = KeyAt(src, i)
                                       /\ StoredForm(src)[i].record = src[j]
<1>1. DOMAIN src = 1..Len(src) /\ Len(src) \in Nat
  BY KeysTyped
<1>2. ASSUME NEW i \in DOMAIN src
      PROVE  /\ StoredForm(src)[i].key = KeyAt(src, i)
             /\ StoredForm(src)[i].record = EntryOf(src, KeyAt(src, i)).record
  BY DEF StoredForm
<1>3. ASSUME NEW i \in DOMAIN src
      PROVE  /\ StoredForm(src)[i].record # None
             /\ \E j \in DOMAIN src : /\ KeyAt(src, j) = KeyAt(src, i)
                                      /\ StoredForm(src)[i].record = src[j]
  BY <1>2, EntryTyped
<1>4. DOMAIN StoredForm(src) = DOMAIN src
  BY DEF StoredForm
<1> QED
  BY <1>1, <1>2, <1>3, <1>4

\* Every key of a file is found through its blocks.
LEMMA LocatedStoredForm ==
  ASSUME NEW src, WellFormed(src), NEW i \in DOMAIN src
  PROVE  Located(BlocksOf(src), KeyAt(src, i)) = StoredForm(src)[i].record
<1>1. /\ EntryOf(src, KeyAt(src, i)) \in EntrySet(src)
      /\ EntryOf(src, KeyAt(src, i)).key = KeyAt(src, i)
  BY EntryTyped
<1>2. Located(BlocksOf(src), KeyAt(src, i)) = EntryOf(src, KeyAt(src, i)).record
  BY <1>1, LocatedByKey
<1> QED
  BY <1>2, StoredFormShows

\* The empty file has nothing.
LEMMA EmptyFile ==
  /\ WellFormed(<<>>) /\ BlocksOf(<<>>) = <<>>
  /\ KeysOf(<<>>) = <<>> /\ StoredForm(<<>>) = <<>>
  /\ \A k : Located(<<>>, k) = None
<1>1. WellFormed(<<>>) /\ KeysOf(<<>>) = <<>> /\ StoredForm(<<>>) = <<>>
  BY DEF WellFormed, Range, KeysOf, StoredForm
<1>2. \A k : Located(<<>>, k) = None
  BY DEF Located
<1>3. BlocksOf(<<>>) = <<>>
  <2>1. EntrySet(<<>>) = {}
    BY <1>1 DEF EntrySet, Range
  <2>2. EntriesOf(<<>>) = <<>>
    <3>1. EntriesOf(<<>>) \in Seq({})
      BY <1>1, <2>1, EntriesAreSorted
    <3> QED
      BY <3>1
  <2>3. <<>> \in Seq({}) /\ Len(<<>>) = 0 /\ \A e \in {} : e.key \in Keys
    OBVIOUS
  <2>4. Packed(<<>>) = <<>>
    <3>1. PICK upTo : Packed(<<>>) = upTo[Len(<<>>)] /\ upTo[0] = <<>>
      BY <2>3, PackedRecursion
    <3> QED
      BY <2>3, <3>1
  <2> QED
    BY <2>2, <2>4 DEF BlocksOf
<1> QED
  BY <1>1, <1>2, <1>3

-----------------------------------------------------------------------------
(* Part two: the store                                                     *)

Rows == [present : BOOLEAN, revision : Sources \cup {<<>>}, digest : Sources \cup {None},
         order : {KeysOf(src) : src \in Sources} \cup {<<>>},
         indexVersion : Builds \cup {None}, projectionVersion : Builds \cup {None}]

Loads == {InOrder(BlocksOf(src)) : src \in Sources} \cup {InOrder(<<>>), <<>>}

Jobs == [pc : {"idle", "ready", "write", "load", "rebuild", "prune"}, token : Nat,
         writes : Nat, source : Sources \cup {<<>>}, tagged : BOOLEAN, force : BOOLEAN,
         staleIndex : BOOLEAN, staleProjection : BOOLEAN, loaded : Loads]

Typed ==
  /\ row \in Rows
  /\ lease \in Nat
  /\ job \in [Pods -> Jobs]

\* The blocks are those of the file the row names.
BlocksMatchRow ==
  /\ row.present => row.revision \in Sources /\ blocks = BlocksOf(row.revision)
  /\ ~row.present => blocks = <<>>

\* A job holds a token the lease has issued, each token is one job's, and a
\* write has a file.
TokensIssued ==
  /\ \A p \in Pods : job[p].token <= lease
  /\ \A p, q \in Pods :
       /\ job[p].pc # "idle" /\ job[q].pc # "idle"
       /\ job[p].token = lease /\ job[q].token = lease
       => p = q
  /\ \A p \in Pods : job[p].pc = "write" => job[p].source \in Sources

\* What the job with the current token has read of the entity is still so.
CurrentJobKnows ==
  \A p \in Pods : job[p].token = lease =>
    /\ job[p].pc \in {"load", "rebuild"} =>
         /\ row.present
         /\ job[p].staleIndex <=> row.indexVersion # Build[p]
         /\ job[p].staleProjection <=> row.projectionVersion # Build[p]
    /\ job[p].pc = "rebuild" => job[p].loaded = InOrder(blocks)

IInv ==
  /\ Typed
  /\ BlocksMatchRow
  /\ TokensIssued
  /\ CurrentJobKnows

-----------------------------------------------------------------------------
\* The fields of the new row of a write.
LEMMA WrittenRowTyped ==
  ASSUME Typed, NEW p \in Pods, job[p].source \in Sources, NEW changed \in BOOLEAN
  PROVE  /\ WrittenRow(p, changed) \in Rows
         /\ WrittenRow(p, changed).present
         /\ WrittenRow(p, changed).revision = (IF changed THEN job[p].source ELSE row.revision)
         /\ WrittenRow(p, changed).indexVersion = Build[p]
         /\ WrittenRow(p, changed).projectionVersion = Build[p]
BY StoreAssumption DEF Typed, Rows, Jobs, WrittenRow

\* A job between two transactions is well formed.
LEMMA ReadyTyped ==
  ASSUME NEW j \in Jobs
  PROVE  /\ Ready(j) \in Jobs
         /\ Ready(j).pc = "ready"
         /\ Ready(j).token = j.token
         /\ IdleJob \in Jobs
BY DEF Jobs, Ready, IdleJob, Loads

\* The jobs the steps of a sync leave behind.
LEMMA JobTyped ==
  ASSUME NEW j \in Jobs
  PROVE  /\ Starting(j) \in Jobs
         /\ Starting(j).token = j.token
         /\ \A pairs \in Loads : [j EXCEPT !.pc = "rebuild", !.loaded = pairs] \in Jobs
         /\ [j EXCEPT !.pc = "prune"] \in Jobs
<1>1. Starting(j) \in Jobs /\ Starting(j).token = j.token
  BY DEF Jobs, Starting
<1>2. \A pairs \in Loads : [j EXCEPT !.pc = "rebuild", !.loaded = pairs] \in Jobs
  BY DEF Jobs
<1>3. [j EXCEPT !.pc = "prune"] \in Jobs
  BY DEF Jobs
<1> QED
  BY <1>1, <1>2, <1>3

\* A job that has just claimed the lease.
LEMMA ClaimTyped ==
  ASSUME NEW t \in Nat
  PROVE  [IdleJob EXCEPT !.pc = "ready", !.token = t] \in Jobs
BY DEF Jobs, IdleJob, Loads

\* A job about to write a file.
LEMMA WriteTyped ==
  ASSUME NEW j \in Jobs, NEW src \in Sources, NEW t \in BOOLEAN, NEW f \in BOOLEAN
  PROVE  [j EXCEPT !.pc = "write", !.source = src, !.tagged = t, !.force = f] \in Jobs
<1> DEFINE write(x, y) == [j EXCEPT !.pc = "write", !.source = src, !.tagged = x, !.force = y]
<1>1. /\ write(TRUE, TRUE) \in Jobs /\ write(TRUE, FALSE) \in Jobs
      /\ write(FALSE, TRUE) \in Jobs /\ write(FALSE, FALSE) \in Jobs
  BY DEF Jobs
<1> HIDE DEF write
<1>2. write(t, f) \in Jobs
  BY <1>1, Zenon
<1> QED
  BY <1>2, Zenon DEF write

\* A job about to rebuild derived data.
LEMMA LoadTyped ==
  ASSUME NEW j \in Jobs, NEW t \in BOOLEAN, NEW f \in BOOLEAN
  PROVE  [j EXCEPT !.pc = "load", !.staleIndex = t, !.staleProjection = f] \in Jobs
<1> DEFINE load(x, y) == [j EXCEPT !.pc = "load", !.staleIndex = x, !.staleProjection = y]
<1>1. /\ load(TRUE, TRUE) \in Jobs /\ load(TRUE, FALSE) \in Jobs
      /\ load(FALSE, TRUE) \in Jobs /\ load(FALSE, FALSE) \in Jobs
  BY DEF Jobs
<1> HIDE DEF load
<1>2. load(t, f) \in Jobs
  BY <1>1, Zenon
<1> QED
  BY <1>2, Zenon DEF load

LEMMA InitIInv == Init => IInv
BY ReadyTyped DEF Init, IInv, Typed, BlocksMatchRow, TokensIssued, CurrentJobKnows,
                  Rows, NoRow, IdleJob, Jobs, Loads

-----------------------------------------------------------------------------
\* Every step keeps the variables in their types.
LEMMA NextTyped == IInv /\ [Next]_vars => Typed'
<1> SUFFICES ASSUME IInv, [Next]_vars
             PROVE  Typed'
  OBVIOUS
<1> USE StoreAssumption, ReadyTyped DEF IInv, Typed
<1>1. ASSUME NEW p \in Pods, Sync(p)
      PROVE  Typed'
  <2>0. job[p] \in Jobs
    OBVIOUS
  <2>1. CASE Claim(p)
    <3>0. lease + 1 \in Nat
      OBVIOUS
    <3>1. [IdleJob EXCEPT !.pc = "ready", !.token = lease + 1] \in Jobs
      BY <3>0, ClaimTyped
    <3> QED
      BY <2>1, <3>1 DEF Claim, stored
  <2>2. CASE FencedOut(p)
    BY <2>2 DEF FencedOut, stored
  <2>3. CASE StoreEntityFile(p)
    <3>1. PICK src \in Sources, tagged \in BOOLEAN, force \in BOOLEAN :
            job' = [job EXCEPT ![p] =
                      IF ~force /\ tagged /\ SourceUnchanged(p, src)
                        THEN Ready(Starting(job[p]))
                        ELSE [Starting(job[p])
                                EXCEPT !.pc = "write", !.source = src,
                                       !.tagged = tagged, !.force = force]]
      BY <2>3 DEF StoreEntityFile
    <3>2. /\ Ready(Starting(job[p])) \in Jobs
          /\ [Starting(job[p])
                EXCEPT !.pc = "write", !.source = src, !.tagged = tagged, !.force = force] \in Jobs
      BY <2>0, JobTyped, WriteTyped, ReadyTyped
    <3> QED
      BY <2>3, <3>1, <3>2 DEF StoreEntityFile, stored
  <2>4. CASE WriteEntity(p)
    <3>1. job[p].source \in Sources
      BY <2>4 DEF WriteEntity, TokensIssued
    <3> QED
      BY <2>4, <3>1, WrittenRowTyped DEF WriteEntity
  <2>5. CASE EnsureDerived(p)
    <3>0. Starting(job[p]) \in Jobs
      BY <2>0, JobTyped
    <3>1. [Starting(job[p]) EXCEPT !.pc = "load",
                         !.staleIndex = row.indexVersion # Build[p],
                         !.staleProjection = row.projectionVersion # Build[p]] \in Jobs
      BY <3>0, LoadTyped
    <3> QED
      BY <2>5, <3>1 DEF EnsureDerived, stored
  <2>6. CASE LoadForDerived(p)
    <3>1. InOrder(blocks) \in Loads
      BY DEF BlocksMatchRow, Loads, Rows
    <3>2. [job[p] EXCEPT !.pc = "rebuild", !.loaded = InOrder(blocks)] \in Jobs
      BY <2>0, <3>1, JobTyped
    <3> QED
      BY <2>6, <3>2 DEF LoadForDerived, stored
  <2>7. CASE RebuildDerived(p)
    BY <2>7 DEF RebuildDerived, Rows
  <2>8. CASE DropEntity(p)
    <3>1. [Starting(job[p]) EXCEPT !.pc = "prune"] \in Jobs
      BY <2>0, JobTyped
    <3> QED
      BY <2>8, <3>1 DEF DropEntity, stored
  <2>9. CASE PruneEntity(p)
    BY <2>9 DEF PruneEntity, Rows, NoRow
  <2> QED
    BY <1>1, <2>1, <2>2, <2>3, <2>4, <2>5, <2>6, <2>7, <2>8, <2>9 DEF Sync
<1>2. ASSUME NEW q \in Readers, Read(q)
      PROVE  UNCHANGED <<stored, lease, job>>
  BY <1>2 DEF Read, Ask, GetByKey, ListAll, ListByIndex, ScanByIndex, LoadProjection,
              BuildFromRecords, ListByPage, FetchPage, Finish
<1>3. CASE UNCHANGED vars
  BY <1>3 DEF vars
<1> QED
  BY <1>1, <1>2, <1>3 DEF Next, stored

-----------------------------------------------------------------------------
\* What a step of p's sync does to the jobs: only p's changes, it keeps its
\* token unless it ends or claims the next one, it comes to write only with a
\* file, and it reads the entity only to rebuild derived data.
JobStep(p) ==
  /\ \A q \in Pods \ {p} : job'[q] = job[q]
  /\ \/ lease' = lease + 1 /\ job'[p].token = lease' /\ job'[p].pc = "ready"
     \/ lease' = lease /\ job'[p].pc = "idle" /\ job'[p].token = 0
     \/ /\ lease' = lease /\ job'[p].token = job[p].token /\ job[p].pc # "idle"
        /\ job'[p].pc = "write" => job'[p].source \in Sources
  /\ job'[p].pc \in {"load", "rebuild"} => EnsureDerived(p) \/ LoadForDerived(p)

LEMMA SyncIsJobStep ==
  ASSUME IInv, NEW p \in Pods, Sync(p)
  PROVE  JobStep(p)
<1> USE ReadyTyped DEF IInv, Typed, JobStep
<1>0. job[p] \in Jobs /\ Starting(job[p]) \in Jobs /\ Starting(job[p]).token = job[p].token
  BY JobTyped
<1>1. CASE Claim(p)
  BY <1>1 DEF Claim, IdleJob
<1>2. CASE FencedOut(p)
  BY <1>2 DEF FencedOut, IdleJob
<1>3. CASE StoreEntityFile(p)
  <2>1. PICK src \in Sources, tagged \in BOOLEAN, force \in BOOLEAN :
          job' = [job EXCEPT ![p] =
                    IF ~force /\ tagged /\ SourceUnchanged(p, src)
                      THEN Ready(Starting(job[p]))
                      ELSE [Starting(job[p]) EXCEPT !.pc = "write", !.source = src,
                                                    !.tagged = tagged, !.force = force]]
    BY <1>3 DEF StoreEntityFile
  <2> DEFINE new == [Starting(job[p]) EXCEPT !.pc = "write", !.source = src,
                                             !.tagged = tagged, !.force = force]
  <2>2. new.token = job[p].token /\ new.pc = "write" /\ new.source \in Sources
    BY <1>0 DEF Jobs
  <2>3. Ready(Starting(job[p])).token = job[p].token /\ Ready(Starting(job[p])).pc = "ready"
    BY <1>0
  <2> QED
    BY <1>3, <2>1, <2>2, <2>3 DEF StoreEntityFile
<1>4. CASE WriteEntity(p)
  BY <1>0, <1>4 DEF WriteEntity
<1>5. CASE EnsureDerived(p)
  BY <1>0, <1>5 DEF EnsureDerived, Jobs
<1>6. CASE LoadForDerived(p)
  BY <1>0, <1>6 DEF LoadForDerived, Jobs
<1>7. CASE RebuildDerived(p)
  BY <1>0, <1>7 DEF RebuildDerived
<1>8. CASE DropEntity(p)
  BY <1>0, <1>8 DEF DropEntity, Jobs
<1>9. CASE PruneEntity(p)
  BY <1>0, <1>9 DEF PruneEntity
<1> QED
  BY <1>1, <1>2, <1>3, <1>4, <1>5, <1>6, <1>7, <1>8, <1>9 DEF Sync

\* Reads and stuttering leave the store and the jobs alone.
LEMMA ReadChangesNothing ==
  ASSUME (\E q \in Readers : Read(q)) \/ UNCHANGED vars
  PROVE  UNCHANGED <<stored, lease, job>>
BY DEF Read, Ask, GetByKey, ListAll, ListByIndex, ScanByIndex, LoadProjection,
       BuildFromRecords, ListByPage, FetchPage, Finish, vars, stored

LEMMA NextTokensIssued == IInv /\ [Next]_vars => TokensIssued'
<1> SUFFICES ASSUME IInv, [Next]_vars
             PROVE  TokensIssued'
  OBVIOUS
<1> USE DEF IInv, Typed, TokensIssued
<1>1. ASSUME NEW p \in Pods, Sync(p)
      PROVE  TokensIssued'
  <2>1. JobStep(p)
    BY <1>1, SyncIsJobStep
  <2>2. \A q \in Pods : job[q].token \in Nat
    BY DEF Jobs
  <2> QED
    BY <2>1, <2>2 DEF JobStep
<1>2. CASE UNCHANGED <<stored, lease, job>>
  BY <1>2
<1> QED
  BY <1>1, <1>2, ReadChangesNothing DEF Next

LEMMA NextBlocksMatchRow == IInv /\ [Next]_vars => BlocksMatchRow'
<1> SUFFICES ASSUME IInv, [Next]_vars
             PROVE  BlocksMatchRow'
  OBVIOUS
<1> USE DEF IInv, Typed, BlocksMatchRow
<1>1. ASSUME NEW p \in Pods, Sync(p)
      PROVE  BlocksMatchRow'
  <2>1. CASE UNCHANGED <<row, blocks>>
    BY <2>1
  <2>2. CASE WriteEntity(p)
    <3> DEFINE changed == job[p].force \/ ~row.present \/ row.revision # job[p].source
    <3>1. job[p].source \in Sources
      BY <2>2 DEF WriteEntity, TokensIssued
    <3>2. /\ row' = WrittenRow(p, changed)
          /\ blocks' = IF changed THEN BlocksOf(job[p].source) ELSE blocks
      BY <2>2 DEF WriteEntity
    <3>3. changed \in BOOLEAN
      OBVIOUS
    <3> HIDE DEF changed
    <3>4. row'.present /\ row'.revision = IF changed THEN job[p].source ELSE row.revision
      BY <3>1, <3>2, <3>3, WrittenRowTyped
    <3> QED
      BY <3>1, <3>2, <3>4 DEF changed
  <2>3. CASE RebuildDerived(p)
    BY <2>3 DEF RebuildDerived, Rows
  <2>4. CASE PruneEntity(p)
    BY <2>4 DEF PruneEntity, NoRow
  <2> QED
    BY <1>1, <2>1, <2>2, <2>3, <2>4
       DEF Sync, Claim, FencedOut, StoreEntityFile, EnsureDerived, LoadForDerived, DropEntity, stored
<1>2. CASE UNCHANGED <<stored, lease, job>>
  BY <1>2 DEF stored
<1> QED
  BY <1>1, <1>2, ReadChangesNothing DEF Next

\* Only the job with the current token changes the entity.
LEMMA OnlyTheOwnerWrites ==
  ASSUME NEW p \in Pods, Sync(p)
  PROVE  \/ UNCHANGED stored
         \/ job[p].token = lease /\ job[p].pc \in {"write", "rebuild", "prune"}
BY DEF Sync, Claim, FencedOut, StoreEntityFile, WriteEntity, EnsureDerived, LoadForDerived,
       RebuildDerived, DropEntity, PruneEntity, Fenced

LEMMA NextCurrentJobKnows == IInv /\ [Next]_vars => CurrentJobKnows'
<1> SUFFICES ASSUME IInv, [Next]_vars
             PROVE  CurrentJobKnows'
  OBVIOUS
<1> USE DEF IInv, Typed
<1> DEFINE Knows(j, r, bs, b) ==
             /\ j.pc \in {"load", "rebuild"} =>
                  /\ r.present
                  /\ j.staleIndex <=> r.indexVersion # b
                  /\ j.staleProjection <=> r.projectionVersion # b
             /\ j.pc = "rebuild" => j.loaded = InOrder(bs)
<1>1. ASSUME NEW p \in Pods, Sync(p)
      PROVE  CurrentJobKnows'
  <2>1. ASSUME NEW q \in Pods, q # p, job'[q].token = lease', job'[q].pc \in {"load", "rebuild"}
        PROVE  Knows(job'[q], row', blocks', Build[q])
    <3>1. JobStep(p)
      BY <1>1, SyncIsJobStep
    <3>2. job'[q] = job[q] /\ job[q].token = lease
      BY <2>1, <3>1 DEF JobStep, TokensIssued, Jobs
    <3>3. ~(job[p].token = lease /\ job[p].pc # "idle")
      BY <2>1, <3>2 DEF TokensIssued
    <3>4. UNCHANGED stored
      BY <1>1, <3>3, OnlyTheOwnerWrites
    <3>5. Knows(job[q], row, blocks, Build[q])
      BY <3>2 DEF CurrentJobKnows
    <3> QED
      BY <3>2, <3>4, <3>5 DEF stored
  <2>2. ASSUME job'[p].token = lease', job'[p].pc \in {"load", "rebuild"}
        PROVE  Knows(job'[p], row', blocks', Build[p])
    <3>1. CASE EnsureDerived(p)
      <4>0. Starting(job[p]) \in Jobs
        BY JobTyped
      <4>1. job'[p] = [Starting(job[p]) EXCEPT !.pc = "load",
                         !.staleIndex = row.indexVersion # Build[p],
                         !.staleProjection = row.projectionVersion # Build[p]]
        BY <3>1 DEF EnsureDerived
      <4>2. job'[p].pc = "load"
        BY <4>0, <4>1 DEF Jobs
      <4>3. /\ job'[p].staleIndex = (row.indexVersion # Build[p])
            /\ job'[p].staleProjection = (row.projectionVersion # Build[p])
        BY <4>0, <4>1 DEF Jobs
      <4> QED
        BY <3>1, <4>2, <4>3 DEF EnsureDerived, stored
    <3>2. CASE LoadForDerived(p)
      <4>0. job[p] \in Jobs
        OBVIOUS
      <4>1. job'[p] = [job[p] EXCEPT !.pc = "rebuild", !.loaded = InOrder(blocks)]
        BY <3>2 DEF LoadForDerived
      <4>2. /\ job'[p].loaded = InOrder(blocks)
            /\ job'[p].token = job[p].token
            /\ job'[p].staleIndex = job[p].staleIndex
            /\ job'[p].staleProjection = job[p].staleProjection
        BY <4>0, <4>1 DEF Jobs
      <4>3. UNCHANGED stored /\ lease' = lease /\ job[p].pc = "load"
        BY <3>2 DEF LoadForDerived
      <4>4. Knows(job[p], row, blocks, Build[p])
        BY <2>2, <4>2, <4>3 DEF CurrentJobKnows
      <4> QED
        BY <4>2, <4>3, <4>4 DEF stored
    <3> QED
      BY <1>1, <2>2, <3>1, <3>2, SyncIsJobStep DEF JobStep
  <2> QED
    BY <2>1, <2>2 DEF CurrentJobKnows
<1>2. CASE UNCHANGED <<stored, lease, job>>
  BY <1>2 DEF stored, CurrentJobKnows
<1> QED
  BY <1>1, <1>2, ReadChangesNothing DEF Next

\* The invariant is inductive.
LEMMA NextIInv == IInv /\ [Next]_vars => IInv'
BY NextTyped, NextBlocksMatchRow, NextTokensIssued, NextCurrentJobKnows DEF IInv

LEMMA Invariance == Spec => []IInv
<1>1. Init => IInv
  BY InitIInv
<1>2. IInv /\ [Next]_vars => IInv'
  BY NextIInv
<1> QED
  BY <1>1, <1>2, PTL DEF Spec

-----------------------------------------------------------------------------
\* A digest is written with the records it names, or kept with them.
LEMMA NextDigest ==
  ASSUME IInv, DigestNamesTheRecords, [Next]_vars
  PROVE  DigestNamesTheRecords'
<1> USE DEF IInv, Typed, DigestNamesTheRecords
<1>1. ASSUME NEW p \in Pods, Sync(p)
      PROVE  DigestNamesTheRecords'
  <2>1. CASE WriteEntity(p)
    <3> DEFINE changed == job[p].force \/ ~row.present \/ row.revision # job[p].source
    <3>1. row' = WrittenRow(p, changed)
      BY <2>1 DEF WriteEntity
    <3>2. /\ row'.revision = IF changed THEN job[p].source ELSE row.revision
          /\ row'.digest = IF job[p].tagged THEN job[p].source
                          ELSE IF changed THEN None ELSE row.digest
      BY <3>1 DEF WrittenRow
    <3>3. ~changed => row.revision = job[p].source
      OBVIOUS
    <3> QED
      BY <3>2, <3>3
  <2>2. CASE RebuildDerived(p)
    BY <2>2 DEF RebuildDerived, Rows
  <2>3. CASE PruneEntity(p)
    BY <2>3 DEF PruneEntity, NoRow
  <2> QED
    BY <1>1, <2>1, <2>2, <2>3
       DEF Sync, Claim, FencedOut, StoreEntityFile, EnsureDerived, LoadForDerived, DropEntity, stored
<1>2. CASE UNCHANGED <<stored, lease, job>>
  BY <1>2 DEF stored
<1> QED
  BY <1>1, <1>2, ReadChangesNothing DEF Next

\* A digest in the row always names the source of the stored records, so that
\* the file a sync skips for its digest (storeEntityFile) is the stored one.
THEOREM DigestNamesTheSource == Spec => []DigestNamesTheRecords
<1>1. Init => DigestNamesTheRecords
  BY DEF Init, NoRow, DigestNamesTheRecords
<1>2. IInv /\ DigestNamesTheRecords /\ [Next]_vars => DigestNamesTheRecords'
  BY NextDigest
<1> QED
  BY <1>1, <1>2, Invariance, PTL DEF Spec

-----------------------------------------------------------------------------
\* What is collected while a file is read is that of its stored form.
LayoutAgrees ==
  \A src \in Sources, b \in Builds :
    /\ CollectedIndex(b, src) = PostingsOf(Index[b], InOrder(BlocksOf(src)))
    /\ CollectedProjection(b, src).body = ProjectionFor(b, InOrder(BlocksOf(src)))

LEMMA LayoutFollows == RepeatsAgree => LayoutAgrees
<1> SUFFICES ASSUME RepeatsAgree, NEW src \in Sources, NEW b \in Builds
             PROVE  /\ CollectedIndex(b, src) = PostingsOf(Index[b], InOrder(BlocksOf(src)))
                    /\ CollectedProjection(b, src).body = ProjectionFor(b, InOrder(BlocksOf(src)))
  BY DEF LayoutAgrees
<1> DEFINE ps == Collected(src)
           s == StoredForm(src)
           N == Len(src)
<1>0. WellFormed(src)
  BY FilesAssumption
<1>1. InOrder(BlocksOf(src)) = s
  BY <1>0, InOrderIsStoredForm
<1>2. N \in Nat /\ DOMAIN src = 1..N /\ DOMAIN ps = 1..N /\ DOMAIN s = 1..N
  BY <1>0, StoredFormShows DEF Collected
<1>3. ASSUME NEW i \in 1..N
      PROVE  /\ ps[i].key = s[i].key
             /\ IndexKeys(Index[b], ps[i].record) = IndexKeys(Index[b], s[i].record)
             /\ Field(b, ps[i].record) = Field(b, s[i].record)
  <2>1. ps[i].key = KeyAt(src, i) /\ ps[i].record = src[i]
    BY <1>2 DEF Collected
  <2>2. PICK j \in 1..N : KeyAt(src, j) = KeyAt(src, i) /\ s[i].record = src[j]
    BY <1>0, <1>2, StoredFormShows
  <2>3. s[i].key = KeyAt(src, i)
    BY <1>0, <1>2, StoredFormShows
  <2>4. /\ IndexKeys(Index[b], src[i]) = IndexKeys(Index[b], src[j])
        /\ Field(b, src[i]) = Field(b, src[j])
    BY <1>2, <2>2 DEF RepeatsAgree
  <2> QED
    BY <2>1, <2>2, <2>3, <2>4
<1> HIDE DEF ps, s, N
<1>4. PostingsOf(Index[b], ps) = PostingsOf(Index[b], s)
  BY <1>2, <1>3, SamePostings
<1>5. ProjectionFor(b, ps) = ProjectionFor(b, s)
  <2>1. [i \in DOMAIN ps |-> ps[i].key] = [i \in DOMAIN s |-> s[i].key]
    BY <1>2, <1>3
  <2>2. [i \in DOMAIN ps |-> Field(b, ps[i].record)] = [i \in DOMAIN s |-> Field(b, s[i].record)]
    BY <1>2, <1>3
  <2> QED
    BY <2>1, <2>2 DEF ProjectionFor
<1> QED
  BY <1>1, <1>4, <1>5 DEF CollectedIndex, CollectedProjection, ps

\* A write leaves derived data of its own build and its own file.
LEMMA WriteMatches ==
  ASSUME LayoutAgrees, IInv, DerivedMatchesRecords, NEW p \in Pods, WriteEntity(p)
  PROVE  DerivedMatchesRecords'
<1> DEFINE j == job[p]
           b == Build[p]
           changed == j.force \/ ~row.present \/ row.revision # j.source
<1>1. j.source \in Sources /\ b \in Builds
  BY StoreAssumption DEF IInv, WriteEntity, TokensIssued
<1>2. /\ row' = WrittenRow(p, changed)
      /\ blocks' = IF changed THEN BlocksOf(j.source) ELSE blocks
      /\ postings' = IF changed \/ row.indexVersion # b THEN CollectedIndex(b, j.source) ELSE postings
      /\ projection' = IF changed \/ row.projectionVersion # b
                         THEN CollectedProjection(b, j.source) ELSE projection
  BY DEF WriteEntity
<1>3. row'.present /\ row'.indexVersion = b /\ row'.projectionVersion = b
  BY <1>2 DEF WrittenRow
<1>4. blocks' = BlocksOf(j.source)
  BY <1>2 DEF IInv, BlocksMatchRow
<1>5. /\ CollectedIndex(b, j.source) = PostingsOf(Index[b], InOrder(BlocksOf(j.source)))
      /\ CollectedProjection(b, j.source).body = ProjectionFor(b, InOrder(BlocksOf(j.source)))
      /\ CollectedProjection(b, j.source).version = b
  BY <1>1 DEF LayoutAgrees, CollectedProjection
<1>6. ~changed => blocks' = blocks
  BY <1>2
<1>7. b # None
  BY <1>1, StoreAssumption
<1>8. postings' = PostingsOf(Index[b], InOrder(blocks'))
  <2>1. CASE changed \/ row.indexVersion # b
    BY <2>1, <1>2, <1>4, <1>5
  <2>2. CASE ~changed /\ row.indexVersion = b
    BY <2>2, <1>2, <1>6, <1>7 DEF DerivedMatchesRecords
  <2> QED
    BY <2>1, <2>2
<1>9. projection'.version = b /\ projection'.body = ProjectionFor(b, InOrder(blocks'))
  <2>1. CASE changed \/ row.projectionVersion # b
    BY <2>1, <1>2, <1>4, <1>5
  <2>2. CASE ~changed /\ row.projectionVersion = b
    BY <2>2, <1>2, <1>6, <1>7 DEF DerivedMatchesRecords
  <2> QED
    BY <2>1, <2>2
<1> QED
  BY <1>3, <1>8, <1>9 DEF DerivedMatchesRecords

\* A rebuild is made from the blocks that are stored, since the job with the
\* current token knows them.
LEMMA RebuildMatches ==
  ASSUME IInv, DerivedMatchesRecords, NEW p \in Pods, RebuildDerived(p)
  PROVE  DerivedMatchesRecords'
<1> DEFINE j == job[p]
           b == Build[p]
<1>1. /\ row.present /\ j.loaded = InOrder(blocks)
      /\ j.staleIndex <=> row.indexVersion # b
      /\ j.staleProjection <=> row.projectionVersion # b
  BY DEF IInv, CurrentJobKnows, RebuildDerived, Fenced
<1>2. b \in Builds /\ b # None
  BY StoreAssumption
<1>3. row'.present /\ row'.indexVersion = b /\ row'.projectionVersion = b /\ blocks' = blocks
  BY <1>1 DEF IInv, Typed, Rows, RebuildDerived
<1>4. postings' = PostingsOf(Index[b], InOrder(blocks))
  BY <1>1, <1>2 DEF RebuildDerived, DerivedMatchesRecords
<1>5. projection'.version = b /\ projection'.body = ProjectionFor(b, InOrder(blocks))
  BY <1>1, <1>2 DEF RebuildDerived, DerivedMatchesRecords
<1> QED
  BY <1>3, <1>4, <1>5 DEF DerivedMatchesRecords

LEMMA NextDerived ==
  ASSUME LayoutAgrees, IInv, DerivedMatchesRecords, [Next]_vars
  PROVE  DerivedMatchesRecords'
<1>1. ASSUME NEW p \in Pods, Sync(p)
      PROVE  DerivedMatchesRecords'
  <2>1. CASE WriteEntity(p)
    BY <2>1, WriteMatches
  <2>2. CASE RebuildDerived(p)
    BY <2>2, RebuildMatches
  <2>3. CASE PruneEntity(p)
    BY <2>3 DEF PruneEntity, NoRow, DerivedMatchesRecords
  <2>4. CASE UNCHANGED stored
    BY <2>4 DEF stored, DerivedMatchesRecords
  <2> QED
    BY <1>1, <2>1, <2>2, <2>3, <2>4
       DEF Sync, Claim, FencedOut, StoreEntityFile, EnsureDerived, LoadForDerived, DropEntity
<1>2. CASE UNCHANGED stored
  BY <1>2 DEF stored, DerivedMatchesRecords
<1> QED
  BY <1>1, <1>2, ReadChangesNothing DEF Next

\* The postings and the projection of an entity are those of the stored
\* records for the build its row names, with any number of pods on any
\* builds: EnsureDerivedEntityData may read outside its transaction.
THEOREM DerivedDataMatches ==
  ASSUME RepeatsAgree
  PROVE  Spec => []DerivedMatchesRecords
<1>0. LayoutAgrees
  BY LayoutFollows
<1>1. Init => DerivedMatchesRecords
  BY DEF Init, NoRow, DerivedMatchesRecords
<1>2. IInv /\ DerivedMatchesRecords /\ [Next]_vars => DerivedMatchesRecords'
  BY <1>0, NextDerived
<1> QED
  BY <1>1, <1>2, Invariance, PTL DEF Spec

-----------------------------------------------------------------------------
\* The row orders the keys of its file and names the builds of its derived
\* data.
RowMatchesFile ==
  /\ row.order = KeysOf(row.revision)
  /\ row.present => row.indexVersion \in Builds /\ row.projectionVersion \in Builds
  /\ ~row.present => row.revision = <<>>

LEMMA NextRowMatchesFile ==
  ASSUME IInv, RowMatchesFile, [Next]_vars
  PROVE  RowMatchesFile'
<1> USE StoreAssumption DEF IInv, Typed, RowMatchesFile
<1>1. ASSUME NEW p \in Pods, Sync(p)
      PROVE  RowMatchesFile'
  <2>1. CASE WriteEntity(p)
    <3> DEFINE changed == job[p].force \/ ~row.present \/ row.revision # job[p].source
    <3>1. row' = WrittenRow(p, changed)
      BY <2>1 DEF WriteEntity
    <3> HIDE DEF changed
    <3>2. /\ row'.present /\ row'.indexVersion = Build[p] /\ row'.projectionVersion = Build[p]
          /\ row'.revision = IF changed THEN job[p].source ELSE row.revision
          /\ row'.order = IF changed THEN KeysOf(job[p].source) ELSE row.order
      BY <3>1 DEF WrittenRow
    <3> QED
      BY <3>2
  <2>2. CASE RebuildDerived(p)
    <3>1. CASE row.present
      <4>1. row' = [row EXCEPT !.indexVersion = Build[p], !.projectionVersion = Build[p]]
        BY <2>2, <3>1 DEF RebuildDerived
      <4>2. /\ row'.indexVersion = Build[p] /\ row'.projectionVersion = Build[p]
            /\ row'.present = row.present /\ row'.revision = row.revision /\ row'.order = row.order
        BY <4>1 DEF Rows
      <4> QED
        BY <3>1, <4>2
    <3>2. CASE ~row.present
      BY <2>2, <3>2 DEF RebuildDerived
    <3> QED
      BY <3>1, <3>2
  <2>3. CASE PruneEntity(p)
    BY <2>3, EmptyFile DEF PruneEntity, NoRow
  <2> QED
    BY <1>1, <2>1, <2>2, <2>3
       DEF Sync, Claim, FencedOut, StoreEntityFile, EnsureDerived, LoadForDerived, DropEntity, stored
<1>2. CASE UNCHANGED <<stored, lease, job>>
  BY <1>2 DEF stored
<1> QED
  BY <1>1, <1>2, ReadChangesNothing DEF Next

\* What is stored is the file of the row, cut into blocks; no row is the
\* empty file.
LEMMA StoreHoldsTheFile ==
  ASSUME IInv, RowMatchesFile
  PROVE  WellFormed(row.revision) /\ blocks = BlocksOf(row.revision)
<1>1. CASE row.present
  BY <1>1, FilesAssumption DEF IInv, BlocksMatchRow
<1>2. CASE ~row.present
  BY <1>2, EmptyFile DEF IInv, BlocksMatchRow, RowMatchesFile
<1> QED
  BY <1>1, <1>2

LEMMA RowInvariance == Spec => [](IInv /\ RowMatchesFile)
<1>1. Init => RowMatchesFile
  BY EmptyFile DEF Init, NoRow, RowMatchesFile
<1>2. IInv /\ RowMatchesFile /\ [Next]_vars => RowMatchesFile'
  BY NextRowMatchesFile
<1> QED
  BY <1>1, <1>2, Invariance, PTL DEF Spec

\* Every key an entity's row orders is found by the probe of fetchRecords,
\* wherever the blocks were cut, with the record the file has last under it,
\* and loadEntityInOrder gives back the file.
THEOREM BlocksAlwaysHoldTheOrder == Spec => []BlocksHoldTheOrder
<1>1. IInv /\ RowMatchesFile => BlocksHoldTheOrder
  <2> SUFFICES ASSUME IInv, RowMatchesFile
               PROVE  BlocksHoldTheOrder
    OBVIOUS
  <2> DEFINE src == row.revision
  <2>1. WellFormed(src) /\ blocks = BlocksOf(src)
    BY StoreHoldsTheFile
  <2>2. DOMAIN row.order = DOMAIN src /\ \A i \in DOMAIN src : row.order[i] = KeyAt(src, i)
    BY DEF RowMatchesFile, KeysOf
  <2> HIDE DEF src
  <2>3. \A i \in DOMAIN src : Located(blocks, KeyAt(src, i)) = StoredForm(src)[i].record
    BY <2>1, LocatedStoredForm
  <2>4. InOrder(blocks) = StoredForm(src)
    BY <2>1, InOrderIsStoredForm
  <2> QED
    BY <2>2, <2>3, <2>4 DEF BlocksHoldTheOrder, src
<1> QED
  BY <1>1, RowInvariance, PTL

-----------------------------------------------------------------------------
\* The answers of the reads, of an entity whose store is the file src.
Stores(src) ==
  /\ WellFormed(src) /\ blocks = BlocksOf(src)
  /\ row.order = KeysOf(src) /\ Content.source = src
  /\ row.order = <<>> => src = <<>>

LEMMA StoresTheRevision ==
  ASSUME IInv, RowMatchesFile
  PROVE  Stores(row.revision)
<1> DEFINE src == row.revision
<1>1. WellFormed(src) /\ blocks = BlocksOf(src)
  BY StoreHoldsTheFile
<1>2. row.order = KeysOf(src) /\ Content.source = src
  BY DEF RowMatchesFile, Content
<1>3. ASSUME row.order = <<>>
      PROVE  src = <<>>
  <2>1. DOMAIN src = {}
    BY <1>2, <1>3 DEF KeysOf
  <2> HIDE DEF src
  <2>2. src \in Seq(Range(src))
    BY <1>1 DEF WellFormed
  <2> QED
    BY <2>1, <2>2
<1> QED
  BY <1>1, <1>2, <1>3 DEF Stores

\* A key names the record stored last under it, or none.
LEMMA GetAnswer ==
  ASSUME NEW src, Stores(src), NEW r, r.kind = "get"
  PROVE  (IF Matches(r.lookup) THEN Located(blocks, r.lookup) ELSE None) = Expected(r, Content)
<1> DEFINE k == r.lookup
           s == StoredForm(src)
           under == {i \in DOMAIN s : s[i].key = k}
<1>1. /\ DOMAIN s = DOMAIN src
      /\ \A i \in DOMAIN src : s[i].key = KeyAt(src, i)
      /\ \A i \in DOMAIN src : s[i].record = Located(blocks, KeyAt(src, i))
  BY StoredFormShows, LocatedStoredForm DEF Stores
<1>2. Expected(r, Content) = IF under = {} \/ ~Matches(k) THEN None
                             ELSE s[CHOOSE i \in under : TRUE].record
  BY DEF Expected, Stores
<1> HIDE DEF s
<1>3. CASE under = {}
  <2>1. \A e \in EntrySet(src) : e.key # k
    BY <1>1, <1>3, EntriesOfKeys, EntryTyped DEF Stores
  <2>2. Located(blocks, k) = None
    BY <2>1, LocatedNothing DEF Stores
  <2> QED
    BY <1>2, <1>3, <2>2
<1>4. CASE under # {}
  <2>1. PICK i \in under : i = CHOOSE j \in under : TRUE
    BY <1>4
  <2>2. s[i].record = Located(blocks, k)
    BY <1>1
  <2> HIDE DEF under, k
  <2> QED
    BY <1>2, <1>4, <2>1, <2>2 DEF k
<1> QED
  BY <1>3, <1>4

LEMMA AllAnswer ==
  ASSUME NEW src, Stores(src), NEW r, r.kind = "all"
  PROVE  Records(InOrder(blocks)) = Expected(r, Content)
BY InOrderIsStoredForm DEF Expected, Stores

\* Keys that all have a record are all fetched.
LEMMA FetchedAll ==
  ASSUME NEW N \in Nat, NEW keys, DOMAIN keys = 1..N,
         \A n \in 1..N : Located(blocks, keys[n]) # None
  PROVE  Fetched(keys) = [n \in 1..N |-> Located(blocks, keys[n])]
<1> DEFINE P == {i \in DOMAIN keys : Located(blocks, keys[i]) # None}
           hits == Picked(keys, P)
<1>1. P = 1..N
  OBVIOUS
<1>2. Cardinality(1..N) = N
  BY FS_Interval
<1>3. hits = [n \in 1..N |-> keys[Nth(1..N, n)]]
  BY <1>1, <1>2 DEF Picked
<1>4. \A n \in 1..N : Nth(1..N, n) = n
  BY NthOfAll
<1>5. DOMAIN hits = 1..N /\ \A n \in 1..N : hits[n] = keys[n]
  BY <1>3, <1>4
<1>6. Fetched(keys) = [n \in DOMAIN hits |-> Located(blocks, hits[n])]
  BY DEF Fetched
<1> HIDE DEF hits
<1> QED
  BY <1>5, <1>6

\* The postings of the stored form are those records that match.
LEMMA IndexAnswer ==
  ASSUME NEW src, Stores(src), NEW b, NEW l,
         postings = PostingsOf(Index[b], InOrder(blocks))
  PROVE  Posted(l) = Matching(b, l, StoredForm(src))
<1> DEFINE s == StoredForm(src)
           H == Hits(Index[b], s, l)
           M == Cardinality(H)
           keys == KeysAt(s, H)
<1>1. postings = PostingsOf(Index[b], s)
  BY InOrderIsStoredForm DEF Stores
<1>2. DOMAIN s = 1..Len(src) /\ Len(src) \in Nat /\ DOMAIN src = 1..Len(src)
  BY StoredFormShows DEF Stores
<1>3. IsFiniteSet(H) /\ M \in Nat
  <2>1. IsFiniteSet(1..Len(src)) /\ H \in SUBSET (1..Len(src))
    BY <1>2, FS_Interval DEF Hits
  <2> HIDE DEF H
  <2> QED
    BY <2>1, FS_Subset, FS_CardinalityType
<1>4. \A n \in 1..M : Nth(H, n) \in DOMAIN src
  BY <1>2, HitsAreThere DEF Hits
<1>5. \A i \in DOMAIN src : Located(blocks, s[i].key) = s[i].record /\ s[i].record # None
  BY StoredFormShows, LocatedStoredForm DEF Stores
<1>6. Matching(b, l, s) = [n \in 1..M |-> s[Nth(H, n)].record]
  <2>1. Picked(s, H) = [n \in 1..M |-> s[Nth(H, n)]]
    BY DEF Picked
  <2>2. Matching(b, l, s) = Records(Picked(s, H))
    BY DEF Matching, Hits
  <2> HIDE DEF H, s
  <2> QED
    BY <2>1, <2>2 DEF Records
<1>7. Posted(l) = Fetched(keys)
  <2>1. CASE l \in DOMAIN postings
    BY <1>1, <2>1, PostingsOfKey DEF Posted
  <2>2. CASE l \notin DOMAIN postings
    <3>1. H = {}
      BY <1>1, <2>2, PostingsOfKey
    <3>2. M = 0
      BY <3>1, FS_EmptySet
    <3>3. keys = <<>>
      BY <3>2 DEF KeysAt
    <3> QED
      BY <2>2, <3>3 DEF Posted
  <2> QED
    BY <2>1, <2>2
<1> HIDE DEF H, s
<1>8. DOMAIN keys = 1..M /\ \A n \in 1..M : keys[n] = s[Nth(H, n)].key
  BY DEF KeysAt
<1> HIDE DEF keys, M
<1>9. Fetched(keys) = [n \in 1..M |-> Located(blocks, keys[n])]
  BY <1>3, <1>4, <1>5, <1>8, FetchedAll
<1>10. [n \in 1..M |-> Located(blocks, keys[n])] = [n \in 1..M |-> s[Nth(H, n)].record]
  BY <1>4, <1>5, <1>8
<1> QED
  BY <1>6, <1>7, <1>9, <1>10 DEF s

\* The rows of a projection show the field of each record.
LEMMA ProjectionAnswer ==
  ASSUME NEW src, Stores(src), src \in Sources \cup {<<>>}, NEW b \in Builds
  PROVE  RowsOf(ProjectionFor(b, InOrder(blocks))) =
           [i \in DOMAIN StoredForm(src) |-> [key |-> StoredForm(src)[i].key,
                                              value |-> Field(b, StoredForm(src)[i].record)]]
<1> DEFINE s == StoredForm(src)
           keys == [i \in DOMAIN s |-> s[i].key]
           values == [i \in DOMAIN s |-> Field(b, s[i].record)]
<1>1. InOrder(blocks) = s
  BY InOrderIsStoredForm DEF Stores
<1>2. ASSUME NEW i \in DOMAIN s
      PROVE  values[i] = None \/ values[i].type \in ValueTypes
  <2>1. i \in DOMAIN src
    BY StoredFormShows DEF Stores
  <2>2. src \in Sources
    BY <2>1
  <2>3. PICK j \in DOMAIN src : s[i].record = src[j]
    BY <2>1, StoredFormShows DEF Stores
  <2> QED
    BY <2>2, <2>3, FilesAssumption
<1> HIDE DEF s
<1>3. DOMAIN keys = DOMAIN s /\ DOMAIN values = DOMAIN s
  OBVIOUS
<1>4. RowsOf(ProjectionOf(keys, values)) = [i \in DOMAIN keys |-> [key |-> keys[i], value |-> values[i]]]
  <2> HIDE DEF keys, values
  <2> QED
    BY <1>2, <1>3, RowsShowTheValues
<1>5. ProjectionFor(b, s) = ProjectionOf(keys, values)
  BY DEF ProjectionFor
<1> QED
  BY <1>1, <1>4, <1>5 DEF s

-----------------------------------------------------------------------------
\* The page of a list: what ListByPage cuts out of the order keys.
FirstOf(page) == (page - 1) * PageSize
EndOf(n, page) == IF page * PageSize < n THEN page * PageSize ELSE n
PageOf(s, page) == SubSeq(s, FirstOf(page) + 1, EndOf(Len(s), page))

LEMMA PageBounds ==
  ASSUME NEW page \in 1..2, NEW n \in Nat
  PROVE  /\ FirstOf(page) \in Nat /\ EndOf(n, page) \in 0..n
         /\ EndOf(n, page) = IF FirstOf(page) + PageSize < n THEN FirstOf(page) + PageSize ELSE n
<1>1. CASE page = 1
  BY <1>1, StoreAssumption DEF FirstOf, EndOf
<1>2. CASE page = 2
  BY <1>2, StoreAssumption DEF FirstOf, EndOf
<1> QED
  BY <1>1, <1>2

LEMMA PageElements ==
  ASSUME NEW T, NEW s \in Seq(T), NEW n \in Nat, Len(s) = n, NEW page \in 1..2
  PROVE  PageOf(s, page) = [i \in 1..(EndOf(n, page) - FirstOf(page)) |-> s[FirstOf(page) + i]]
<1>1. FirstOf(page) \in Nat /\ EndOf(n, page) \in 0..n
  BY PageBounds
<1>2. PICK first \in Int : first = FirstOf(page)
  BY <1>1
<1>3. PICK end \in Int : end = EndOf(n, page)
  BY <1>1
<1>4. SubSeq(s, first + 1, end) = [i \in 1..(end - first) |-> s[first + i]]
  OBVIOUS
<1>5. PageOf(s, page) = SubSeq(s, first + 1, end)
  BY <1>2, <1>3 DEF PageOf
<1> QED
  BY <1>2, <1>3, <1>4, <1>5

\* The keys of a page fetch the records of that page.
LEMMA PageAnswer ==
  ASSUME NEW src, Stores(src), NEW page \in 1..2
  PROVE  Fetched(PageOf(row.order, page)) = PageOf(Records(StoredForm(src)), page)
<1> DEFINE s == StoredForm(src)
           N == Len(src)
           keys == KeysOf(src)
           records == Records(s)
           M == EndOf(N, page) - FirstOf(page)
           cut == PageOf(keys, page)
<1>1. N \in Nat /\ DOMAIN src = 1..N /\ DOMAIN s = 1..N
  BY StoredFormShows DEF Stores
<1>2. ASSUME NEW i \in 1..N
      PROVE  /\ keys[i] = KeyAt(src, i)
             /\ s[i].record = Located(blocks, KeyAt(src, i))
             /\ s[i].record # None
  <2>1. WellFormed(src) /\ blocks = BlocksOf(src)
    BY DEF Stores
  <2>2. keys[i] = KeyAt(src, i)
    BY <1>1 DEF KeysOf
  <2> HIDE DEF s, keys, N
  <2>3. s[i].record = Located(blocks, KeyAt(src, i))
    BY <1>1, <2>1, LocatedStoredForm DEF s
  <2>4. s[i].record # None
    BY <1>1, <2>1, StoredFormShows DEF s
  <2> QED
    BY <2>2, <2>3, <2>4
<1> HIDE DEF s
<1>3. /\ keys \in Seq(Range(keys)) /\ Len(keys) = N
      /\ records \in Seq(Range(records)) /\ Len(records) = N
  <2>1. DOMAIN keys = 1..N /\ DOMAIN records = 1..N
    BY <1>1 DEF KeysOf, Records
  <2>2. keys = [i \in 1..N |-> KeyAt(src, i)] /\ records = [i \in 1..N |-> s[i].record]
    BY <1>1 DEF KeysOf, Records
  <2> HIDE DEF keys, records
  <2> QED
    BY <1>1, <2>1, <2>2 DEF Range
<1>4. \A i \in 1..N : records[i] = s[i].record
  BY <1>1 DEF Records
<1> HIDE DEF keys, records
<1>5. /\ cut = [i \in 1..M |-> keys[FirstOf(page) + i]]
      /\ PageOf(records, page) = [i \in 1..M |-> records[FirstOf(page) + i]]
  BY <1>3, PageElements
<1>6. FirstOf(page) \in Nat /\ EndOf(N, page) \in 0..N
  BY <1>1, PageBounds
<1>7. \A i \in 1..M : FirstOf(page) + i \in 1..N
  BY <1>1, <1>6
<1>8. \A i \in 1..M : Located(blocks, cut[i]) = records[FirstOf(page) + i] /\ Located(blocks, cut[i]) # None
  BY <1>2, <1>4, <1>5, <1>7
<1> DEFINE L == IF M > 0 THEN M ELSE 0
<1>9. L \in Nat /\ 1..M = 1..L
  BY <1>1, <1>6
<1>10. DOMAIN cut = 1..L
  BY <1>5, <1>9
<1> HIDE DEF cut, M, L
<1>11. Fetched(cut) = [i \in 1..L |-> Located(blocks, cut[i])]
  BY <1>8, <1>9, <1>10, FetchedAll
<1>12. Fetched(cut) = PageOf(records, page)
  BY <1>5, <1>8, <1>9, <1>11
<1> QED
  BY <1>12 DEF records, s, cut, keys, Stores

-----------------------------------------------------------------------------
\* What a read r knows of the versions: the current one c is among those it
\* has seen while it is open, the keys of a page are those of the only version
\* it has seen, and its answer is that of one of them.
ReadKnows(r, c, order) ==
  /\ r = [pc |-> r.pc, kind |-> r.kind, build |-> r.build, lookup |-> r.lookup,
          keys |-> r.keys, seen |-> r.seen, answer |-> r.answer]
  /\ r.pc \in {"idle", "open", "scan", "fetch", "done"}
  /\ IsFiniteSet(r.seen)
  /\ r.pc \in {"open", "scan", "fetch"} => c \in r.seen
  /\ r.pc \in {"open", "scan"} /\ r.kind \in {"index", "projection"} => r.build \in Builds
  /\ r.pc = "fetch" =>
       /\ r.kind = "page" /\ r.lookup \in 1..2
       /\ Cardinality(r.seen) = 1 => r.keys = PageOf(order, r.lookup)
  /\ r.pc = "done" /\ (r.kind = "page" => Cardinality(r.seen) = 1)
       => \E d \in r.seen : r.answer = Expected(r, d)

ReadersKnow ==
  /\ read = [q \in Readers |-> read[q]]
  /\ \A q \in Readers : ReadKnows(read[q], Content, row.order)

\* An answer that is right of the current version.
LEMMA AnswerKnows ==
  ASSUME NEW r, NEW c, NEW order, ReadKnows(r, c, order), r.pc \in {"open", "scan", "fetch"},
         NEW a, (r.kind = "page" => Cardinality(r.seen) = 1) => a = Expected(r, c)
  PROVE  ReadKnows([r EXCEPT !.pc = "done", !.keys = <<>>, !.answer = a], c, order)
<1>5. PICK x : x = [r EXCEPT !.pc = "done", !.keys = <<>>, !.answer = a]
  OBVIOUS
<1>1. /\ x.pc = "done" /\ x.kind = r.kind /\ x.build = r.build /\ x.lookup = r.lookup
      /\ x.seen = r.seen /\ x.answer = a
      /\ x = [pc |-> x.pc, kind |-> x.kind, build |-> x.build, lookup |-> x.lookup,
              keys |-> x.keys, seen |-> x.seen, answer |-> x.answer]
  BY <1>5 DEF ReadKnows
<1>2. c \in r.seen /\ IsFiniteSet(r.seen)
  BY DEF ReadKnows
<1>3. Expected(x, c) = Expected(r, c)
  BY <1>1 DEF Expected
<1>4. ReadKnows(x, c, order)
  BY <1>1, <1>2, <1>3 DEF ReadKnows
<1> QED
  BY <1>4, <1>5

\* A read that goes on to a scan.
LEMMA ScanKnows ==
  ASSUME NEW r, NEW c, NEW order, ReadKnows(r, c, order), r.pc = "open"
  PROVE  ReadKnows([r EXCEPT !.pc = "scan"], c, order)
<1>5. PICK x : x = [r EXCEPT !.pc = "scan"]
  OBVIOUS
<1>1. /\ x.pc = "scan" /\ x.kind = r.kind /\ x.build = r.build /\ x.seen = r.seen
      /\ x = [pc |-> x.pc, kind |-> x.kind, build |-> x.build, lookup |-> x.lookup,
              keys |-> x.keys, seen |-> x.seen, answer |-> x.answer]
  BY <1>5 DEF ReadKnows
<1>2. ReadKnows(x, c, order)
  BY <1>1 DEF ReadKnows
<1> QED
  BY <1>2, <1>5

\* A page that has its keys.
LEMMA PageKnows ==
  ASSUME NEW r, NEW c, NEW order, ReadKnows(r, c, order), r.pc = "open", r.kind = "page",
         NEW page \in 1..2
  PROVE  ReadKnows([r EXCEPT !.pc = "fetch", !.keys = PageOf(order, page), !.lookup = page], c, order)
<1>5. PICK x : x = [r EXCEPT !.pc = "fetch", !.keys = PageOf(order, page), !.lookup = page]
  OBVIOUS
<1>1. /\ x.pc = "fetch" /\ x.kind = "page" /\ x.seen = r.seen /\ x.lookup = page
      /\ x.keys = PageOf(order, page)
      /\ x = [pc |-> x.pc, kind |-> x.kind, build |-> x.build, lookup |-> x.lookup,
              keys |-> x.keys, seen |-> x.seen, answer |-> x.answer]
  BY <1>5 DEF ReadKnows
<1>2. ReadKnows(x, c, order)
  BY <1>1 DEF ReadKnows
<1> QED
  BY <1>2, <1>5

\* An empty page.
LEMMA EmptyPageKnows ==
  ASSUME NEW r, NEW c, NEW order, ReadKnows(r, c, order), r.pc = "open", r.kind = "page",
         NEW page \in 1..2, PageOf(Records(StoredForm(c.source)), page) = <<>>,
         Len(Records(StoredForm(c.source))) = Len(StoredForm(c.source))
  PROVE  ReadKnows([[r EXCEPT !.pc = "done", !.keys = <<>>, !.answer = <<>>] EXCEPT !.lookup = page],
                   c, order)
<1>5. PICK x : x = [[r EXCEPT !.pc = "done", !.keys = <<>>, !.answer = <<>>] EXCEPT !.lookup = page]
  OBVIOUS
<1>1. /\ x.pc = "done" /\ x.kind = "page" /\ x.seen = r.seen /\ x.lookup = page
      /\ x.answer = <<>>
      /\ x = [pc |-> x.pc, kind |-> x.kind, build |-> x.build, lookup |-> x.lookup,
              keys |-> x.keys, seen |-> x.seen, answer |-> x.answer]
  BY <1>5 DEF ReadKnows
<1>2. c \in r.seen /\ IsFiniteSet(r.seen)
  BY DEF ReadKnows
<1>3. Expected(x, c) = PageOf(Records(StoredForm(c.source)), page)
  BY <1>1 DEF Expected, PageOf, FirstOf, EndOf
<1>4. ReadKnows(x, c, order)
  BY <1>1, <1>2, <1>3 DEF ReadKnows
<1> QED
  BY <1>4, <1>5

\* One more version, the new current one.
LEMMA SeenKnows ==
  ASSUME NEW r, NEW c, NEW order, ReadKnows(r, c, order),
         NEW d, NEW new, d = c => new = order
  PROVE  ReadKnows(IF r.pc \in {"idle", "done"} THEN r
                   ELSE [r EXCEPT !.seen = @ \cup {d}], d, new)
<1>1. CASE r.pc \in {"idle", "done"}
  BY <1>1 DEF ReadKnows
<1>2. CASE r.pc \notin {"idle", "done"}
  <2> DEFINE x == [r EXCEPT !.seen = @ \cup {d}]
  <2>1. /\ x.pc = r.pc /\ x.kind = r.kind /\ x.build = r.build /\ x.lookup = r.lookup
        /\ x.keys = r.keys /\ x.seen = r.seen \cup {d}
        /\ x = [pc |-> x.pc, kind |-> x.kind, build |-> x.build, lookup |-> x.lookup,
                keys |-> x.keys, seen |-> x.seen, answer |-> x.answer]
    BY DEF ReadKnows
  <2>2. r.pc \in {"open", "scan", "fetch"} /\ c \in r.seen /\ IsFiniteSet(r.seen)
    BY <1>2 DEF ReadKnows
  <2>3. IsFiniteSet(x.seen)
    BY <2>1, <2>2, FS_AddElement
  <2>4. ASSUME Cardinality(x.seen) = 1
        PROVE  c = d /\ r.seen = {c}
    <3>1. PICK e : x.seen = {e}
      BY <2>3, <2>4, FS_Singleton
    <3> QED
      BY <2>1, <2>2, <3>1
  <2>5. Cardinality(x.seen) = 1 => Cardinality(r.seen) = 1 /\ new = order
    BY <2>4, FS_Singleton
  <2> HIDE DEF x
  <2>6. ReadKnows(x, d, new)
    BY <2>1, <2>2, <2>3, <2>5 DEF ReadKnows
  <2> QED
    BY <1>2, <2>6 DEF x
<1> QED
  BY <1>1, <1>2

\* The step of one reader.
LEMMA OwnRead ==
  ASSUME ReadersKnow, NEW q \in Readers, NEW x, read' = [read EXCEPT ![q] = x],
         UNCHANGED row, ReadKnows(x, Content, row.order)
  PROVE  ReadersKnow'
<1>1. Content' = Content
  BY DEF Content
<1> QED
  BY <1>1 DEF ReadersKnow

\* Nothing is matched, fetched or cut out of nothing.
LEMMA NothingMatches ==
  ASSUME NEW b, NEW l
  PROVE  Matching(b, l, <<>>) = <<>>
<1> DEFINE P == {i \in DOMAIN <<>> : l \in IndexKeys(Index[b], <<>>[i].record)}
<1>1. P = {} /\ Cardinality({}) = 0
  BY FS_EmptySet
<1>2. Matching(b, l, <<>>) = Records(Picked(<<>>, P))
  BY DEF Matching
<1> HIDE DEF P
<1>3. Picked(<<>>, P) = <<>>
  BY <1>1 DEF Picked
<1> QED
  BY <1>2, <1>3 DEF Records

LEMMA NothingFetched == Fetched(<<>>) = <<>>
<1>1. DOMAIN <<>> = 1..0
  OBVIOUS
<1>2. Fetched(<<>>) = [n \in 1..0 |-> Located(blocks, <<>>[n])]
  BY <1>1, FetchedAll
<1> QED
  BY <1>2

LEMMA RecordsLength ==
  ASSUME NEW src, Stores(src)
  PROVE  Len(Records(StoredForm(src))) = Len(StoredForm(src))
<1> DEFINE s == StoredForm(src)
<1>1. Len(src) \in Nat /\ DOMAIN s = 1..Len(src)
  BY StoredFormShows DEF Stores
<1>2. s = [i \in 1..Len(src) |-> s[i]]
  BY <1>1 DEF StoredForm
<1> HIDE DEF s
<1>3. Records(s) = [i \in 1..Len(src) |-> s[i].record]
  BY <1>1 DEF Records
<1>4. Len(s) = Len(src) /\ Len(Records(s)) = Len(src)
  BY <1>1, <1>2, <1>3
<1> QED
  BY <1>4 DEF s

LEMMA PageExpected ==
  ASSUME NEW r, NEW c, r.kind = "page",
         Len(Records(StoredForm(c.source))) = Len(StoredForm(c.source))
  PROVE  Expected(r, c) = PageOf(Records(StoredForm(c.source)), r.lookup)
BY DEF Expected, PageOf, FirstOf, EndOf

LEMMA OrderIsList ==
  ASSUME NEW src, Stores(src)
  PROVE  Len(row.order) \in Nat
<1>1. Len(src) \in Nat /\ DOMAIN src = 1..Len(src)
  BY StoredFormShows DEF Stores
<1>2. row.order = [i \in 1..Len(src) |-> KeyAt(src, i)]
  BY <1>1 DEF Stores, KeysOf
<1> QED
  BY <1>1, <1>2

\* A read that opens.
Opened(kind, build, lookup, seen) ==
  [NoRead EXCEPT !.pc = "open", !.kind = kind, !.build = build, !.lookup = lookup, !.seen = seen]

LEMMA OpenedRead ==
  ASSUME NEW kind, NEW build, NEW lookup, NEW seen, NEW x, x = Opened(kind, build, lookup, seen)
  PROVE  /\ x.pc = "open" /\ x.kind = kind /\ x.build = build /\ x.seen = seen
         /\ x = [pc |-> x.pc, kind |-> x.kind, build |-> x.build, lookup |-> x.lookup,
                 keys |-> x.keys, seen |-> x.seen, answer |-> x.answer]
BY DEF NoRead, Opened

\* A step of a read keeps what the reads know.
LEMMA NextReadKnows ==
  ASSUME IInv, RowMatchesFile, DerivedMatchesRecords, ReadersKnow, NEW q \in Readers, Read(q)
  PROVE  ReadersKnow'
<1> DEFINE r == read[q]
           src == row.revision
<1>0. ReadKnows(r, Content, row.order) /\ Stores(src) /\ UNCHANGED row
  BY StoresTheRevision DEF ReadersKnow, Read, Ask, GetByKey, ListAll, ListByIndex, ScanByIndex,
     LoadProjection, BuildFromRecords, ListByPage, FetchPage, Finish, stored
<1>13. Content.source = src /\ (row.order = <<>> => src = <<>>)
  BY <1>0 DEF Stores
<1> SUFFICES \E x : read' = [read EXCEPT ![q] = x] /\ ReadKnows(x, Content, row.order)
  BY <1>0, OwnRead
<1> HIDE DEF src
<1>12. ASSUME src = <<>>
      PROVE  StoredForm(src) = <<>> /\ Records(StoredForm(src)) = <<>>
  <2>1. StoredForm(src) = <<>>
    BY <1>12 DEF StoredForm
  <2> QED
    BY <2>1 DEF Records
<1>1. CASE Ask(q)
  <2> DEFINE Opens(kind, build, lookup) ==
               read' = [read EXCEPT ![q] = Opened(kind, build, lookup, {Content})]
  <2>1. \/ \E k \in {"all", "page"} : Opens(k, None, None)
        \/ \E k \in Wanted : Opens("get", None, k)
        \/ \E b \in Builds : Opens("projection", b, None)
        \/ \E b \in Builds, l \in Lookups : Opens("index", b, l)
    BY <1>1, Zenon DEF Ask, Opened
  <2> HIDE DEF Opens
  <2>2. PICK kind, build, lookup :
          Opens(kind, build, lookup) /\ (kind \in {"index", "projection"} => build \in Builds)
    BY <2>1
  <2>3. PICK x : x = Opened(kind, build, lookup, {Content})
    OBVIOUS
  <2>4. /\ x.pc = "open" /\ x.kind = kind /\ x.build = build /\ x.seen = {Content}
        /\ x = [pc |-> x.pc, kind |-> x.kind, build |-> x.build, lookup |-> x.lookup,
                keys |-> x.keys, seen |-> x.seen, answer |-> x.answer]
    BY <2>3, OpenedRead
  <2>5. IsFiniteSet({Content})
    BY FS_Singleton
  <2>6. ReadKnows(x, Content, row.order)
    BY <2>2, <2>4, <2>5 DEF ReadKnows
  <2> QED
    BY <2>2, <2>3, <2>6 DEF Opens
<1>2. CASE GetByKey(q)
  <2>1. (IF Matches(r.lookup) THEN Located(blocks, r.lookup) ELSE None) = Expected(r, Content)
    BY <1>0, <1>2, GetAnswer DEF GetByKey
  <2> QED
    BY <1>0, <1>2, <2>1, AnswerKnows DEF GetByKey, Answer
<1>3. CASE ListAll(q)
  <2>1. Records(InOrder(blocks)) = Expected(r, Content)
    BY <1>0, <1>3, AllAnswer DEF ListAll
  <2> QED
    BY <1>0, <1>3, <2>1, AnswerKnows DEF ListAll, Answer
<1>4. CASE ListByIndex(q)
  <2>0. r.pc = "open" /\ r.kind = "index" /\ r.build \in Builds
    BY <1>0, <1>4 DEF ListByIndex, ReadKnows
  <2>1. Expected(r, Content) = Matching(r.build, r.lookup, StoredForm(src))
    BY <1>13, <2>0 DEF Expected
  <2>2. CASE ~row.present \/ row.order = <<>>
    <3>1. src = <<>>
      BY <1>13, <2>2 DEF RowMatchesFile, src
    <3>2. Expected(r, Content) = <<>>
      BY <1>12, <2>1, <3>1, NothingMatches
    <3> QED
      BY <1>0, <1>4, <2>0, <2>2, <3>2, AnswerKnows DEF ListByIndex, Answer
  <2>3. CASE ~(~row.present \/ row.order = <<>>) /\ row.indexVersion # r.build
    BY <1>0, <1>4, <2>0, <2>3, ScanKnows DEF ListByIndex
  <2>4. CASE ~(~row.present \/ row.order = <<>>) /\ row.indexVersion = r.build
    <3>1. postings = PostingsOf(Index[r.build], InOrder(blocks))
      BY <2>0, <2>4, StoreAssumption DEF DerivedMatchesRecords
    <3>2. Posted(r.lookup) = Expected(r, Content)
      BY <1>0, <2>1, <3>1, IndexAnswer
    <3> QED
      BY <1>0, <1>4, <2>0, <2>4, <3>2, AnswerKnows DEF ListByIndex, Answer
  <2> QED
    BY <2>2, <2>3, <2>4
<1>5. CASE ScanByIndex(q)
  <2>0. r.pc = "scan" /\ r.kind = "index"
    BY <1>5 DEF ScanByIndex
  <2>1. Expected(r, Content) = Matching(r.build, r.lookup, InOrder(blocks))
    BY <1>0, <1>13, <2>0, InOrderIsStoredForm DEF Expected, Stores
  <2> QED
    BY <1>0, <1>5, <2>0, <2>1, AnswerKnows DEF ScanByIndex, Answer
<1>6. ASSUME r.kind = "projection", r.build \in Builds
      PROVE  RowsOf(ProjectionFor(r.build, InOrder(blocks))) = Expected(r, Content)
  <2>1. src \in Sources \cup {<<>>}
    BY DEF IInv, Typed, Rows, src
  <2>2. RowsOf(ProjectionFor(r.build, InOrder(blocks))) =
          [i \in DOMAIN StoredForm(src) |-> [key |-> StoredForm(src)[i].key,
                                             value |-> Field(r.build, StoredForm(src)[i].record)]]
    BY <1>0, <1>6, <2>1, ProjectionAnswer
  <2> QED
    BY <1>13, <1>6, <2>2 DEF Expected
<1>7. CASE LoadProjection(q)
  <2>0. r.pc = "open" /\ r.kind = "projection" /\ r.build \in Builds
    BY <1>0, <1>7 DEF LoadProjection, ReadKnows
  <2>2. CASE ~row.present \/ row.order = <<>>
    <3>1. src = <<>>
      BY <1>13, <2>2 DEF RowMatchesFile, src
    <3>2. Expected(r, Content) = <<>>
      BY <1>12, <1>13, <2>0, <3>1 DEF Expected
    <3> QED
      BY <1>0, <1>7, <2>0, <2>2, <3>2, AnswerKnows DEF LoadProjection, Answer
  <2>3. CASE ~(~row.present \/ row.order = <<>>) /\ projection.version # r.build
    BY <1>0, <1>7, <2>0, <2>3, ScanKnows DEF LoadProjection
  <2>4. CASE ~(~row.present \/ row.order = <<>>) /\ projection.version = r.build
    <3>1. /\ row.projectionVersion = r.build
          /\ projection.body = ProjectionFor(r.build, InOrder(blocks))
      BY <2>0, <2>4, StoreAssumption DEF DerivedMatchesRecords, RowMatchesFile
    <3> QED
      BY <1>0, <1>6, <1>7, <2>0, <2>4, <3>1, AnswerKnows DEF LoadProjection, Answer
  <2> QED
    BY <2>2, <2>3, <2>4
<1>8. CASE BuildFromRecords(q)
  <2>0. r.pc = "scan" /\ r.kind = "projection" /\ r.build \in Builds
    BY <1>0, <1>8 DEF BuildFromRecords, ReadKnows
  <2> QED
    BY <1>0, <1>6, <1>8, <2>0, AnswerKnows DEF BuildFromRecords, Answer
<1>9. CASE ListByPage(q)
  <2>0. r.pc = "open" /\ r.kind = "page"
    BY <1>9 DEF ListByPage
  <2>1. Len(row.order) \in Nat
    BY <1>0, OrderIsList
  <2>2. PICK page \in 1..2 :
          read' = [read EXCEPT ![q] =
                     IF PageOf(row.order, page) = <<>> THEN [Answer(q, <<>>) EXCEPT !.lookup = page]
                     ELSE [@ EXCEPT !.pc = "fetch", !.keys = PageOf(row.order, page), !.lookup = page]]
    <3>1. PICK page \in 1..2 :
            LET start == (page - 1) * PageSize
                keys  == SubSeq(row.order, start + 1,
                                IF start + PageSize < Len(row.order) THEN start + PageSize
                                ELSE Len(row.order))
            IN  read' = [read EXCEPT ![q] =
                           IF keys = <<>> THEN [Answer(q, <<>>) EXCEPT !.lookup = page]
                           ELSE [@ EXCEPT !.pc = "fetch", !.keys = keys, !.lookup = page]]
      BY <1>9 DEF ListByPage
    <3>2. PageOf(row.order, page) =
            SubSeq(row.order, (page - 1) * PageSize + 1,
                   IF (page - 1) * PageSize + PageSize < Len(row.order)
                     THEN (page - 1) * PageSize + PageSize ELSE Len(row.order))
      BY <2>1, PageBounds DEF PageOf, FirstOf
    <3> QED
      BY <3>1, <3>2
  <2>3. CASE PageOf(row.order, page) = <<>>
    <3>1. /\ PageOf(Records(StoredForm(src)), page) = <<>>
          /\ Len(Records(StoredForm(src))) = Len(StoredForm(src))
      BY <1>0, <2>3, PageAnswer, NothingFetched, RecordsLength
    <3> QED
      BY <1>0, <1>13, <2>0, <2>2, <2>3, <3>1, EmptyPageKnows DEF Answer
  <2>4. CASE PageOf(row.order, page) # <<>>
    BY <1>0, <2>0, <2>2, <2>4, PageKnows
  <2> QED
    BY <2>3, <2>4
<1>10. CASE FetchPage(q)
  <2>0. r.pc = "fetch" /\ r.kind = "page" /\ r.lookup \in 1..2
    BY <1>0, <1>10 DEF FetchPage, ReadKnows
  <2>1. ASSUME Cardinality(r.seen) = 1
        PROVE  Fetched(r.keys) = Expected(r, Content)
    <3>1. r.keys = PageOf(row.order, r.lookup)
      BY <1>0, <2>0, <2>1 DEF ReadKnows
    <3>2. Fetched(r.keys) = PageOf(Records(StoredForm(src)), r.lookup)
      BY <1>0, <2>0, <3>1, PageAnswer
    <3>3. Expected(r, Content) = PageOf(Records(StoredForm(src)), r.lookup)
      BY <1>0, <1>13, <2>0, RecordsLength, PageExpected
    <3> QED
      BY <3>2, <3>3
  <2> QED
    BY <1>0, <1>10, <2>0, <2>1, AnswerKnows DEF FetchPage, Answer
<1>11. CASE Finish(q)
  <2>1. ReadKnows(NoRead, Content, row.order)
    BY FS_EmptySet DEF NoRead, ReadKnows
  <2> QED
    BY <1>11, <2>1 DEF Finish
<1> QED
  BY <1>1, <1>2, <1>3, <1>4, <1>5, <1>7, <1>8, <1>9, <1>10, <1>11 DEF Read

-----------------------------------------------------------------------------
\* A step of a sync adds the version it leaves to those the open reads have
\* seen, or leaves the version alone.
LEMMA NextSyncKnows ==
  ASSUME IInv, RowMatchesFile, RowMatchesFile', ReadersKnow, NEW p \in Pods, Sync(p)
  PROVE  ReadersKnow'
<1>1. ASSUME Publish(row')
      PROVE  ReadersKnow'
  <2> DEFINE d == ContentAfter(row')
  <2>1. Content' = d
    BY DEF Content, ContentAfter
  <2>2. d = Content => row'.order = row.order
    BY DEF Content, ContentAfter, RowMatchesFile
  <2>3. \A q \in Readers :
          read'[q] = IF read[q].pc \in {"idle", "done"} THEN read[q]
                     ELSE [read[q] EXCEPT !.seen = @ \cup {d}]
    BY <1>1 DEF Publish
  <2>4. read' = [q \in Readers |-> read'[q]]
    BY <1>1 DEF Publish
  <2> HIDE DEF d
  <2>5. ASSUME NEW q \in Readers
        PROVE  ReadKnows(read'[q], d, row'.order)
    <3>1. ReadKnows(read[q], Content, row.order)
      BY DEF ReadersKnow
    <3>2. ReadKnows(IF read[q].pc \in {"idle", "done"} THEN read[q]
                    ELSE [read[q] EXCEPT !.seen = @ \cup {d}], d, row'.order)
      BY <2>2, <3>1, SeenKnows
    <3> QED
      BY <2>3, <3>2
  <2> QED
    BY <2>1, <2>4, <2>5 DEF ReadersKnow
<1>2. ASSUME Content' = Content, row'.order = row.order, read' = read
      PROVE  ReadersKnow'
  BY <1>2 DEF ReadersKnow
<1>3. CASE WriteEntity(p)
  BY <1>1, <1>3 DEF WriteEntity
<1>4. CASE PruneEntity(p)
  BY <1>1, <1>4 DEF PruneEntity
<1>5. CASE RebuildDerived(p)
  BY <1>2, <1>5 DEF RebuildDerived, Content, IInv, Typed, Rows
<1>6. CASE UNCHANGED <<row, read>>
  BY <1>2, <1>6 DEF Content
<1> QED
  BY <1>3, <1>4, <1>5, <1>6
     DEF Sync, Claim, FencedOut, StoreEntityFile, EnsureDerived, LoadForDerived, DropEntity, stored

\* Every answer of a read is that of one version of the entity that was
\* current while the request ran, for any number of pods, builds, readers and
\* files: the probes of the blocks, the postings and the projection of any
\* build, and the scans that replace those of another build.
THEOREM AnswersAreOfOneVersion ==
  ASSUME RepeatsAgree
  PROVE  Spec => []AnswersComeFromOneVersion
<1> DEFINE Known == IInv /\ RowMatchesFile /\ DerivedMatchesRecords /\ ReadersKnow
<1>0. LayoutAgrees
  BY LayoutFollows
<1>1. Init => Known
  <2> SUFFICES ASSUME Init
               PROVE  Known
    OBVIOUS
  <2>1. IInv /\ RowMatchesFile /\ DerivedMatchesRecords
    BY InitIInv, EmptyFile DEF Init, NoRow, RowMatchesFile, DerivedMatchesRecords
  <2>2. ReadKnows(NoRead, Content, row.order)
    BY FS_EmptySet DEF NoRead, ReadKnows
  <2> HIDE DEF Known
  <2>3. read = [q \in Readers |-> NoRead]
    BY DEF Init
  <2>4. ReadersKnow
    BY <2>2, <2>3 DEF ReadersKnow
  <2> QED
    BY <2>1, <2>4 DEF Known
<1>2. Known /\ [Next]_vars => Known'
  <2> SUFFICES ASSUME Known, [Next]_vars
               PROVE  Known'
    OBVIOUS
  <2>1. IInv' /\ RowMatchesFile' /\ DerivedMatchesRecords'
    BY <1>0, NextIInv, NextRowMatchesFile, NextDerived
  <2>2. ASSUME NEW p \in Pods, Sync(p)
        PROVE  ReadersKnow'
    BY <2>1, <2>2, NextSyncKnows
  <2>3. ASSUME NEW q \in Readers, Read(q)
        PROVE  ReadersKnow'
    BY <2>3, NextReadKnows
  <2>4. ASSUME UNCHANGED vars
        PROVE  ReadersKnow'
    <3>1. read' = read /\ row'.order = row.order /\ Content' = Content
      BY <2>4 DEF vars, Content
    <3> QED
      BY <3>1 DEF ReadersKnow
  <2> QED
    BY <2>1, <2>2, <2>3, <2>4 DEF Next
<1>3. Known => AnswersComeFromOneVersion
  BY DEF ReadersKnow, ReadKnows, AnswersComeFromOneVersion
<1> QED
  BY <1>1, <1>2, <1>3, PTL DEF Spec

=============================================================================
