-------------------------- MODULE FreeModelsProofs --------------------------
(***************************************************************************)
(* Proofs about FreeModels: what the two rankings keep, of any listing.    *)
(***************************************************************************)
EXTENDS FreeModels, FiniteSetTheorems, TLAPS

(***************************************************************************)
(* IsOrder                                                                  *)
(***************************************************************************)
IsOrder(before, S) ==
    /\ \A x \in S : <<x, x>> \notin before
    /\ \A x, y, z \in S : <<x, y>> \in before /\ <<y, z>> \in before => <<x, z>> \in before
    /\ \A x, y \in S : x = y \/ <<x, y>> \in before \/ <<y, x>> \in before

\* The ranks of the members of a finite set are the numbers below its size.
LEMMA RanksAreTaken ==
    ASSUME NEW S, IsFiniteSet(S), NEW before, IsOrder(before, S)
    PROVE  /\ Cardinality(S) \in Nat
           /\ \A p \in 1..Cardinality(S) :
                 \E x \in S : Cardinality({y \in S : <<y, x>> \in before}) = p - 1
           /\ \A x, y \in S : Cardinality({z \in S : <<z, x>> \in before}) <
                                 Cardinality({z \in S : <<z, y>> \in before})
                              <=> <<x, y>> \in before
           /\ \A x \in S : Cardinality({y \in S : <<y, x>> \in before}) + 1 \in 1..Cardinality(S)
<1> DEFINE Below(x) == {y \in S : <<y, x>> \in before}
           rank == [x \in S |-> Cardinality(Below(x)) + 1]
           N == Cardinality(S)
<1>1. N \in Nat
  BY FS_CardinalityType
<1>2. \A x \in S : Below(x) \in SUBSET S /\ x \notin Below(x)
  BY DEF IsOrder
<1>3. \A x \in S : IsFiniteSet(Below(x)) /\ Cardinality(Below(x)) \in Nat
                   /\ Cardinality(Below(x)) < N
  <2> TAKE x \in S
  <2>1. Below(x) \in SUBSET S /\ x \notin Below(x)
    BY <1>2
  <2> HIDE DEF Below
  <2>2. IsFiniteSet(Below(x)) /\ Cardinality(Below(x)) <= N /\ (Cardinality(Below(x)) = N => Below(x) = S)
    BY <2>1, FS_Subset
  <2>3. Cardinality(Below(x)) \in Nat /\ Cardinality(Below(x)) # N
    BY <2>1, <2>2, FS_CardinalityType
  <2> QED
    BY <1>1, <2>2, <2>3
<1>4. \A x, y \in S : <<x, y>> \in before => Cardinality(Below(x)) < Cardinality(Below(y))
  <2> SUFFICES ASSUME NEW x \in S, NEW y \in S, <<x, y>> \in before
               PROVE  Cardinality(Below(x)) < Cardinality(Below(y))
    OBVIOUS
  <2>1. Below(x) \in SUBSET Below(y) /\ x \in Below(y) /\ x \notin Below(x)
    BY DEF IsOrder
  <2>2. IsFiniteSet(Below(y)) /\ Cardinality(Below(x)) \in Nat /\ Cardinality(Below(y)) \in Nat
    BY <1>3
  <2> HIDE DEF Below
  <2>3. Cardinality(Below(x)) <= Cardinality(Below(y)) /\ Cardinality(Below(x)) # Cardinality(Below(y))
    BY <2>1, <2>2, FS_Subset
  <2> QED
    BY <2>2, <2>3
<1>5. \A x, y \in S : Cardinality(Below(x)) < Cardinality(Below(y)) => <<x, y>> \in before
  <2> SUFFICES ASSUME NEW x \in S, NEW y \in S,
                      Cardinality(Below(x)) < Cardinality(Below(y)), <<x, y>> \notin before
               PROVE  FALSE
    OBVIOUS
  <2>1. x = y \/ <<y, x>> \in before
    BY DEF IsOrder
  <2> HIDE DEF Below
  <2> QED
    BY <1>3, <1>4, <2>1
<1>6. \A x, y \in S : rank[x] = rank[y] => x = y
  <2> TAKE x, y \in S
  <2> HAVE rank[x] = rank[y]
  <2>1. x = y \/ <<x, y>> \in before \/ <<y, x>> \in before
    BY DEF IsOrder
  <2> HIDE DEF Below
  <2> QED
    BY <1>3, <1>4, <2>1
<1>7. rank \in [S -> 1..N]
  <2> HIDE DEF Below
  <2> QED
    BY <1>1, <1>3
<1>8. rank \in Injection(S, 1..N)
  BY <1>6, <1>7 DEF Injection, IsInjective
<1>9. IsFiniteSet(1..N) /\ Cardinality(1..N) = N
  BY <1>1, FS_Interval
<1>10. rank \in Surjection(S, 1..N)
  <2> HIDE DEF rank
  <2> QED
    BY <1>8, <1>9, FS_Injection
<1>11. \A p \in 1..N : \E x \in S : Cardinality(Below(x)) = p - 1
  <2> TAKE p \in 1..N
  <2>1. PICK x \in S : rank[x] = p
    BY <1>10 DEF Surjection
  <2> HIDE DEF Below
  <2> QED
    BY <1>3, <2>1
<1>12. \A x \in S : Cardinality(Below(x)) + 1 \in 1..N
  <2> HIDE DEF Below
  <2> QED
    BY <1>1, <1>3
<1> QED
  BY <1>1, <1>4, <1>5, <1>11, <1>12

\* A sequence of the members of a finite set, each of them once.
Enumerates(s, S) ==
    /\ Cardinality(S) \in Nat
    /\ s \in Seq(S) /\ Len(s) = Cardinality(S) /\ DOMAIN s = 1..Cardinality(S)
    /\ \A p \in 1..Cardinality(S) : s[p] \in S
    /\ \A x \in S : \E p \in 1..Cardinality(S) : s[p] = x
    /\ \A p, q \in 1..Cardinality(S) : s[p] = s[q] => p = q

Follows(s, S, before) ==
    \A p, q \in 1..Cardinality(S) : <<s[p], s[q]>> \in before <=> p < q

LEMMA InOrderLists ==
    ASSUME NEW S, IsFiniteSet(S), NEW before, IsOrder(before, S)
    PROVE  /\ Enumerates(InOrder(S, before), S)
           /\ Follows(InOrder(S, before), S, before)
           /\ \A p \in 1..Cardinality(S) :
                 Cardinality({y \in S : <<y, InOrder(S, before)[p]>> \in before}) = p - 1
<1> DEFINE s == InOrder(S, before)
           N == Cardinality(S)
           Rank(x) == Cardinality({y \in S : <<y, x>> \in before})
<1>1. /\ N \in Nat
      /\ \A p \in 1..N : \E x \in S : Rank(x) = p - 1
      /\ \A x, y \in S : Rank(x) < Rank(y) <=> <<x, y>> \in before
      /\ \A x \in S : Rank(x) + 1 \in 1..N
  BY RanksAreTaken, Zenon
<1>2. s = [p \in 1..N |-> CHOOSE x \in S : Rank(x) = p - 1]
  BY DEF InOrder
<1>f. \A x \in S : Rank(x) \in Nat
  BY FS_Subset, FS_CardinalityType
<1> HIDE DEF s, Rank
<1>3. \A p \in 1..N : s[p] \in S /\ Rank(s[p]) = p - 1
  BY <1>1, <1>2
<1>4. s \in Seq(S) /\ Len(s) = N /\ DOMAIN s = 1..N
  <2>1. s \in [1..N -> S]
    BY <1>2, <1>3
  <2> HIDE DEF N
  <2>2. s \in Seq(S) /\ Len(s) = N
    BY <1>1, <2>1
  <2> QED
    BY <2>1, <2>2
<1>5. \A p, q \in 1..N : <<s[p], s[q]>> \in before <=> p < q
  BY <1>1, <1>3
<1>6. \A p, q \in 1..N : s[p] = s[q] => p = q
  BY <1>1, <1>3
<1>7. \A x \in S : \E p \in 1..N : s[p] = x
  <2> TAKE x \in S
  <2>1. Rank(x) + 1 \in 1..N /\ Rank(s[Rank(x) + 1]) = Rank(x) /\ s[Rank(x) + 1] \in S
    BY <1>1, <1>3, <1>f
  <2>2. s[Rank(x) + 1] = x
    <3>1. ~(<<x, s[Rank(x) + 1]>> \in before) /\ ~(<<s[Rank(x) + 1], x>> \in before)
      BY <1>1, <1>f, <2>1
    <3> QED
      BY <2>1, <3>1 DEF IsOrder
  <2> QED
    BY <2>1, <2>2
<1> QED
  <2>1. \A p \in 1..N : Cardinality({y \in S : <<y, s[p]>> \in before}) = p - 1
    BY <1>3 DEF Rank
  <2> QED
    BY <1>1, <1>3, <1>4, <1>5, <1>6, <1>7, <2>1 DEF s, Enumerates, Follows

LEMMA FirstNumbers ==
    ASSUME NEW n \in Nat
    PROVE  IsFiniteSet(1..n) /\ Cardinality(1..n) = n
<1>1. 1 \in Int /\ n \in Int
  OBVIOUS
<1>2. IsFiniteSet(1..n) /\ Cardinality(1..n) = IF 1 > n THEN 0 ELSE n - 1 + 1
  BY <1>1, FS_Interval
<1> QED
  BY <1>2

\* As many values as places, when no two places have the same value.
LEMMA SameSize ==
    ASSUME NEW P, IsFiniteSet(P), NEW s,
           \A p, q \in P : s[p] = s[q] => p = q
    PROVE  LET T == {s[p] : p \in P}
           IN IsFiniteSet(T) /\ Cardinality(T) = Cardinality(P)
<1> DEFINE T == {s[p] : p \in P}
           f == [p \in P |-> s[p]]
<1>1. f \in [P -> T] /\ \A p, q \in P : f[p] = f[q] => p = q
  OBVIOUS
<1>2. \A y \in T : \E p \in P : f[p] = y
  OBVIOUS
<1> HIDE DEF f, T
<1>3. f \in Bijection(P, T)
  BY <1>1, <1>2 DEF Bijection, Injection, Surjection, IsInjective
<1>4. ExistsBijection(P, T)
  BY <1>3 DEF ExistsBijection
<1>5. IsFiniteSet(T) /\ Cardinality(T) = Cardinality(P)
  BY <1>4, FS_Bijection
<1> QED
  BY <1>5 DEF T

LEMMA MinOfNaturals ==
    ASSUME NEW S \in SUBSET Nat, S # {}
    PROVE  Min(S) \in S /\ \A y \in S : Min(S) <= y
<1> DEFINE R == OpToRel(<, Nat)
<1>1. \E x \in S : \A y \in S : <<y, x>> \notin R
  <2>1. IsWellFoundedOn(R, Nat)
    BY NatLessThanWellFounded, Zenon
  <2> QED
    BY <2>1, WFMin, Zenon
<1>2. PICK x \in S : \A y \in S : ~(y < x)
  BY <1>1 DEF OpToRel
<1>3. \A y \in S : x =< y
  BY <1>2
<1> QED
  BY <1>3 DEF Min

LEMMA LesserOfTwo ==
    ASSUME NEW m \in Nat, NEW n \in Nat
    PROVE  Min({m, n}) = IF m <= n THEN m ELSE n
<1>1. Min({m, n}) \in {m, n} /\ \A y \in {m, n} : Min({m, n}) <= y
  BY MinOfNaturals
<1> QED
  BY <1>1

\* A set of numbers in its order.
LEMMA AscendingLists ==
    ASSUME NEW S \in SUBSET Nat, IsFiniteSet(S)
    PROVE  /\ Enumerates(Ascending(S), S)
           /\ \A p, q \in 1..Cardinality(S) : Ascending(S)[p] < Ascending(S)[q] <=> p < q
<1> DEFINE before == {e \in S \X S : e[1] < e[2]}
<1>1. \A x, y \in S : <<x, y>> \in before <=> x < y
  OBVIOUS
<1> HIDE DEF before
<1>2. IsOrder(before, S)
  BY <1>1 DEF IsOrder
<1>3. Ascending(S) = InOrder(S, before)
  BY DEF Ascending, before
<1>4. Enumerates(Ascending(S), S) /\ Follows(Ascending(S), S, before)
  BY <1>2, <1>3, InOrderLists
<1> QED
  BY <1>1, <1>4 DEF Enumerates, Follows

(***************************************************************************)
(* Rankings                                                                *)
(***************************************************************************)
LEMMA ItemsOf ==
    ASSUME NEW answer, IsListing(answer)
    PROVE  /\ Named(answer) \in SUBSET Nat /\ IsFiniteSet(Named(answer))
           /\ Named(answer) \subseteq DOMAIN answer
           /\ Cardinality(Named(answer)) \in Nat
<1>1. Len(answer) \in Nat /\ DOMAIN answer = 1..Len(answer)
  <2> DEFINE T == ToSet(answer)
  <2>1. answer \in Seq(T)
    BY DEF IsListing
  <2> HIDE DEF T
  <2> QED
    BY <2>1
<1>2. Named(answer) \subseteq 1..Len(answer)
  BY <1>1 DEF Named, FreeItems
<1>3. IsFiniteSet(1..Len(answer))
  BY <1>1, FS_Interval
<1> QED
  BY <1>1, <1>2, <1>3, FS_Subset, FS_CardinalityType

LEMMA RankedLists ==
    ASSUME NEW S \in SUBSET Nat, IsFiniteSet(S), NEW score \in [S -> Nat]
    PROVE  /\ Enumerates(Ranked(S, score), S)
           /\ \A p, q \in 1..Cardinality(S) :
                 p < q => score[Ranked(S, score)[p]] >= score[Ranked(S, score)[q]]
<1> DEFINE before == Higher(S, score)
           s == Ranked(S, score)
<1>1. \A x, y \in S : <<x, y>> \in before <=>
          score[x] > score[y] \/ (score[x] = score[y] /\ x < y)
  BY DEF Higher
<1>2. s = InOrder(S, before)
  BY DEF Ranked
<1>3. \A x \in S : x \in Nat /\ score[x] \in Nat
  OBVIOUS
<1> HIDE DEF before, s
<1>4. IsOrder(before, S)
  <2>1. \A x \in S : <<x, x>> \notin before
    BY <1>1, <1>3
  <2>2. \A x, y, z \in S : <<x, y>> \in before /\ <<y, z>> \in before => <<x, z>> \in before
    BY <1>1, <1>3
  <2>3. \A x, y \in S : x = y \/ <<x, y>> \in before \/ <<y, x>> \in before
    <3> TAKE x, y \in S
    <3>1. score[x] \in Nat /\ score[y] \in Nat /\ x \in Nat /\ y \in Nat
      BY <1>3
    <3> QED
      BY <1>1, <3>1
  <2> QED
    BY <2>1, <2>2, <2>3 DEF IsOrder
<1>5. Enumerates(s, S) /\ Follows(s, S, before)
  BY <1>2, <1>4, InOrderLists
<1>6. \A p, q \in 1..Cardinality(S) : p < q => score[s[p]] >= score[s[q]]
  <2> TAKE p, q \in 1..Cardinality(S)
  <2> HAVE p < q
  <2>1. s[p] \in S /\ s[q] \in S /\ <<s[p], s[q]>> \in before
    BY <1>5 DEF Enumerates, Follows
  <2>2. score[s[p]] > score[s[q]] \/ score[s[p]] = score[s[q]]
    BY <1>1, <2>1
  <2>3. score[s[p]] \in Nat /\ score[s[q]] \in Nat
    BY <1>3, <2>1
  <2> QED
    BY <2>2, <2>3
<1> QED
  BY <1>5, <1>6 DEF s

LEMMA PointsAreNatural ==
    ASSUME NEW v, NEW ladder \in Seq(Nat \X Nat)
    PROVE  Points(v, ladder) \in Nat
<1> DEFINE reached == {k \in DOMAIN ladder : v >= ladder[k][1]}
<1>1. reached \in SUBSET Nat /\ reached \subseteq DOMAIN ladder
  OBVIOUS
<1>2. \A k \in DOMAIN ladder : ladder[k][2] \in Nat
  OBVIOUS
<1>3. Points(v, ladder) = IF reached = {} THEN 0 ELSE ladder[Min(reached)][2]
  BY DEF Points
<1> HIDE DEF reached
<1>4. reached # {} => Min(reached) \in DOMAIN ladder
  BY <1>1, MinOfNaturals
<1> QED
  BY <1>2, <1>3, <1>4

LEMMA ScoresAreNatural == \A i : Score(i) \in Nat /\ LegacyScore(i) \in Nat
<1> TAKE i
<1>1. \A b : \A n \in Nat : If(b, n) \in Nat
  BY DEF If
<1>2. Points(i.context, <<<<200, 15>>, <<128, 12>>, <<64, 8>>, <<32, 4>>>>) \in Nat
  <2>1. <<<<200, 15>>, <<128, 12>>, <<64, 8>>, <<32, 4>>>> \in Seq(Nat \X Nat)
    OBVIOUS
  <2> QED
    BY <2>1, PointsAreNatural
<1>3. Points(i.params, <<<<100, 8>>, <<30, 5>>, <<10, 2>>>>) \in Nat
  <2>1. <<<<100, 8>>, <<30, 5>>, <<10, 2>>>> \in Seq(Nat \X Nat)
    OBVIOUS
  <2> QED
    BY <2>1, PointsAreNatural
<1>4. Points(i.context, <<<<128, 30>>, <<32, 20>>, <<8, 10>>>>) \in Nat
  <2>1. <<<<128, 30>>, <<32, 20>>, <<8, 10>>>> \in Seq(Nat \X Nat)
    OBVIOUS
  <2> QED
    BY <2>1, PointsAreNatural
<1>5. Points(i.params, <<<<100, 10>>, <<30, 5>>>>) \in Nat
  <2>1. <<<<100, 10>>, <<30, 5>>>> \in Seq(Nat \X Nat)
    OBVIOUS
  <2> QED
    BY <2>1, PointsAreNatural
<1>6. Score(i) \in Nat
  BY <1>1, <1>2, <1>3 DEF Score, VendorBonus
<1>7. LegacyScore(i) \in Nat
  BY <1>1, <1>4, <1>5 DEF LegacyScore
<1> QED
  BY <1>6, <1>7

(***************************************************************************)
(* The console keeps the best                                              *)
(***************************************************************************)
LEMMA RankingLists ==
    ASSUME NEW answer, IsListing(answer)
    PROVE  /\ Enumerates(Ranking(answer), Named(answer))
           /\ \A p, q \in 1..Cardinality(Named(answer)) : p < q =>
                 Score(answer[Ranking(answer)[p]]) >= Score(answer[Ranking(answer)[q]])
<1> DEFINE S == Named(answer)
           score == [k \in S |-> Score(answer[k])]
<1>1. S \in SUBSET Nat /\ IsFiniteSet(S)
  BY ItemsOf
<1>2. score \in [S -> Nat]
  BY ScoresAreNatural
<1>3. Ranking(answer) = Ranked(S, score)
  BY DEF Ranking
<1>4. \A k \in S : score[k] = Score(answer[k])
  OBVIOUS
<1> HIDE DEF S, score
<1>5. /\ Enumerates(Ranking(answer), S)
      /\ \A p, q \in 1..Cardinality(S) :
            p < q => score[Ranking(answer)[p]] >= score[Ranking(answer)[q]]
  BY <1>1, <1>2, <1>3, RankedLists
<1>6. \A p \in 1..Cardinality(S) : Ranking(answer)[p] \in S
  BY <1>5 DEF Enumerates
<1>7. \A p, q \in 1..Cardinality(S) : p < q =>
          Score(answer[Ranking(answer)[p]]) >= Score(answer[Ranking(answer)[q]])
  BY <1>4, <1>5, <1>6
<1> QED
  BY <1>5, <1>7 DEF S

\* The places of the ranking that are kept are the first n, or the first n-1
\* and the first one that takes images, when it is further down.
KeptAt(answer, n, N, ranked, P) ==
    /\ ToSet(SelectTop(answer, n)) = {ranked[p] : p \in P}
    /\ \/ /\ P = 1..(IF n <= N THEN n ELSE N)
          /\ \A p \in 1..N : Multimodal(answer[ranked[p]]) =>
               \E q \in P : Multimodal(answer[ranked[q]])
       \/ \E x \in (n + 1)..N :
            /\ P = (1..(n - 1)) \cup {x}
            /\ Multimodal(answer[ranked[x]])
            /\ \A p \in 1..(x - 1) : ~Multimodal(answer[ranked[p]])

LEMMA KeptPlaces ==
    ASSUME NEW answer, IsListing(answer), NEW n \in Nat \ {0},
           NEW N \in Nat, N = Cardinality(Named(answer)),
           NEW ranked, ranked = Ranking(answer)
    PROVE  \E P \in SUBSET (1..N) : KeptAt(answer, n, N, ranked, P)
<1> DEFINE m == IF n <= N THEN n ELSE N
           top == Take(ranked, n)
           seeing == {p \in DOMAIN ranked : Multimodal(answer[ranked[p]])}
           least == Min(seeing)
<1>1. /\ ranked \in Seq(Named(answer)) /\ Len(ranked) = N /\ DOMAIN ranked = 1..N
      /\ \A p \in 1..N : ranked[p] \in Named(answer)
  BY RankingLists DEF Enumerates
<1>2. /\ top \in Seq(Named(answer)) /\ DOMAIN top = 1..m
      /\ \A p \in 1..m : top[p] = ranked[p]
  <2>1. top = SubSeq(ranked, 1, m)
    <3>1. Min({n, N}) = m
      BY LesserOfTwo
    <3> QED
      BY <1>1, <3>1 DEF Take
  <2>2. m \in 0..N
    OBVIOUS
  <2> HIDE DEF m, top
  <2> QED
    BY <1>1, <2>1, <2>2
<1>3. seeing \in SUBSET Nat /\ \A p \in 1..N : p \in seeing <=> Multimodal(answer[ranked[p]])
  BY <1>1
<1>4. seeing # {} => least \in 1..N /\ least \in seeing /\ \A p \in seeing : least <= p
  <2>1. seeing \subseteq 1..N
    BY <1>1
  <2> HIDE DEF seeing
  <2> QED
    BY <1>3, <2>1, MinOfNaturals
<1>5. SelectTop(answer, n) = IF seeing # {} /\ least > n
                            THEN [top EXCEPT ![n] = ranked[least]] ELSE top
  BY DEF SelectTop
<1> HIDE DEF seeing, least, top
<1>6. CASE seeing # {} /\ least > n
  <2> DEFINE P == (1..(n - 1)) \cup {least}
             s == SelectTop(answer, n)
  <2>1. least \in (n + 1)..N /\ m = n
    BY <1>4, <1>6
  <2>2. DOMAIN s = 1..n /\ s[n] = ranked[least] /\ \A p \in 1..(n - 1) : s[p] = ranked[p]
    BY <1>2, <1>5, <1>6, <2>1
  <2> HIDE DEF s, m
  <2>3. ToSet(s) = {s[p] : p \in 1..n}
    BY <2>2 DEF ToSet
  <2>4. {s[p] : p \in 1..n} = {ranked[p] : p \in P}
    <3>1. \A p \in 1..n : \E q \in P : s[p] = ranked[q]
      <4> TAKE p \in 1..n
      <4>1. CASE p \in 1..(n - 1)
        BY <2>2, <4>1
      <4>2. CASE p = n
        BY <2>2, <4>2
      <4> QED
        BY <4>1, <4>2
    <3>2. \A q \in P : \E p \in 1..n : s[p] = ranked[q]
      <4> TAKE q \in P
      <4>1. CASE q \in 1..(n - 1)
        BY <2>2, <4>1
      <4>2. CASE q = least
        BY <2>2, <4>2
      <4> QED
        BY <4>1, <4>2
    <3> QED
      BY <3>1, <3>2
  <2>5. \A p \in 1..(least - 1) : ~Multimodal(answer[ranked[p]])
    BY <1>3, <1>4, <1>6
  <2>6. P \in SUBSET (1..N) /\ Multimodal(answer[ranked[least]])
    BY <1>3, <1>4, <1>6, <2>1
  <2>7. ToSet(s) = {ranked[p] : p \in P}
    BY <2>3, <2>4, Zenon
  <2>8. KeptAt(answer, n, N, ranked, P)
    BY <2>1, <2>5, <2>6, <2>7 DEF s, KeptAt
  <2> HIDE DEF P
  <2> QED
    BY <2>6, <2>8
<1>7. CASE ~(seeing # {} /\ least > n)
  <2> DEFINE P == 1..m
  <2>1. SelectTop(answer, n) = top
    BY <1>5, <1>7
  <2>2. ToSet(top) = {ranked[p] : p \in P}
    BY <1>2 DEF ToSet
  <2>3. P \in SUBSET (1..N)
    OBVIOUS
  <2>4. \A p \in 1..N : Multimodal(answer[ranked[p]]) =>
            \E q \in P : Multimodal(answer[ranked[q]])
    <3> SUFFICES ASSUME NEW p \in 1..N, Multimodal(answer[ranked[p]])
                 PROVE  least \in P /\ Multimodal(answer[ranked[least]])
      OBVIOUS
    <3>1. seeing # {} /\ least \in 1..N /\ least \in seeing /\ ~(least > n)
      BY <1>3, <1>4, <1>7
    <3> QED
      BY <1>3, <3>1
  <2> WITNESS P \in SUBSET (1..N)
  <2> QED
    BY <2>1, <2>2, <2>4 DEF KeptAt
<1> QED
  BY <1>6, <1>7

\* What the console keeps of a listing is the best n of its named free models,
\* or the best n-1 and the best that takes images
\* (ModelService.sync_openrouter_free), for any listing and any n.
THEOREM SelectionIsRight ==
    ASSUME NEW answer, IsListing(answer), NEW n \in Nat \ {0}
    PROVE  TopIsRight(answer, n)
<1> DEFINE all == Named(answer)
           N == Cardinality(all)
           ranked == Ranking(answer)
           kept == ToSet(SelectTop(answer, n))
           Sees(k) == Multimodal(answer[k])
           seen == {k \in kept : Sees(k)}
           Beats(j, k) == Score(answer[j]) >= Score(answer[k])
           m == IF n <= N THEN n ELSE N
<1>1. /\ N \in Nat
      /\ \A p \in 1..N : ranked[p] \in all
      /\ \A x \in all : \E p \in 1..N : ranked[p] = x
      /\ \A p, q \in 1..N : ranked[p] = ranked[q] => p = q
  BY RankingLists DEF Enumerates
<1>2. \A p, q \in 1..N : p < q => Beats(ranked[p], ranked[q])
  BY RankingLists
<1>3. PICK P \in SUBSET (1..N) :
        /\ kept = {ranked[p] : p \in P}
        /\ \/ /\ P = 1..m
              /\ \A p \in 1..N : Sees(ranked[p]) => \E q \in P : Sees(ranked[q])
           \/ \E x \in (n + 1)..N :
                /\ P = (1..(n - 1)) \cup {x}
                /\ Sees(ranked[x])
                /\ \A p \in 1..(x - 1) : ~Sees(ranked[p])
  <2>1. N = Cardinality(Named(answer)) /\ ranked = Ranking(answer)
    OBVIOUS
  <2> HIDE DEF N, ranked
  <2>2. PICK P \in SUBSET (1..N) : KeptAt(answer, n, N, ranked, P)
    BY <1>1, <2>1, KeptPlaces
  <2> QED
    BY <2>2 DEF KeptAt
<1>4. Min({n, Cardinality(all)}) = m
  BY <1>1, LesserOfTwo
<1> HIDE DEF all, ranked, kept, N
<1>5. Cardinality(P) = m /\ IsFiniteSet(P)
  <2>1. CASE P = 1..m
    <3>1. m \in Nat
      BY <1>1
    <3> HIDE DEF m
    <3> QED
      BY <2>1, <3>1, FirstNumbers
  <2>2. ASSUME NEW x \in (n + 1)..N, P = (1..(n - 1)) \cup {x}
        PROVE  Cardinality(P) = m /\ IsFiniteSet(P)
    <3>1. IsFiniteSet(1..(n - 1)) /\ Cardinality(1..(n - 1)) = n - 1
      <4>1. n - 1 \in Nat
        OBVIOUS
      <4> QED
        BY <4>1, FirstNumbers
    <3>2. x \notin 1..(n - 1) /\ m = n
      BY <1>1, <2>2
    <3> DEFINE Q == 1..(n - 1)
    <3> HIDE DEF m, Q
    <3>3. IsFiniteSet(Q \cup {x}) /\ Cardinality(Q \cup {x}) = n - 1 + 1
      BY <3>1, <3>2, FS_AddElement DEF Q
    <3> QED
      BY <2>2, <3>2, <3>3 DEF Q
  <2> QED
    BY <1>3, <2>1, <2>2
<1>6. Cardinality(kept) = m
  <2>1. \A p, q \in P : ranked[p] = ranked[q] => p = q
    BY <1>1, <1>3
  <2> QED
    <3>1. Cardinality({ranked[p] : p \in P}) = Cardinality(P)
      BY <1>5, <2>1, SameSize, Zenon
    <3> QED
      BY <1>3, <1>5, <3>1, Zenon
<1>7. kept \subseteq all
  BY <1>1, <1>3
<1>8. \A k \in all \ kept : \E q \in (1..N) \ P : k = ranked[q]
  BY <1>1, <1>3
<1>9. (seen = {}) => \A k \in all : ~Sees(k)
  <2> SUFFICES ASSUME NEW k \in all, Sees(k)
               PROVE  \E j \in kept : Sees(j)
    OBVIOUS
  <2>1. PICK p \in 1..N : ranked[p] = k
    BY <1>1
  <2>2. \E q \in P : Sees(ranked[q])
    BY <1>3, <2>1
  <2> HIDE DEF Sees
  <2> QED
    BY <1>3, <2>2
<1>10. \E swapped \in SUBSET seen :
         /\ Cardinality(swapped) <= 1
         /\ swapped # {} => swapped = seen
         /\ \A j \in kept \ swapped, k \in all \ kept : Beats(j, k)
         /\ \A j \in swapped, k \in all \ kept : Sees(k) => Beats(j, k)
  <2>1. CASE P = 1..m
    <3>1. \A j \in kept, k \in all \ kept : Beats(j, k)
      <4> TAKE j \in kept, k \in all \ kept
      <4>1. PICK p \in P : j = ranked[p]
        BY <1>3
      <4>2. PICK q \in (1..N) \ P : k = ranked[q]
        BY <1>8
      <4>3. p < q
        BY <1>1, <2>1, <4>1, <4>2
      <4> HIDE DEF Beats
      <4> QED
        BY <1>2, <4>1, <4>2, <4>3
    <3>2. {} \in SUBSET seen /\ Cardinality({}) <= 1
      BY FS_EmptySet
    <3> WITNESS {} \in SUBSET seen
    <3> QED
      BY <3>1, <3>2
  <2>2. ASSUME NEW x \in (n + 1)..N, P = (1..(n - 1)) \cup {x}, Sees(ranked[x]),
               \A p \in 1..(x - 1) : ~Sees(ranked[p])
        PROVE  \E swapped \in SUBSET seen :
                 /\ Cardinality(swapped) <= 1
                 /\ swapped # {} => swapped = seen
                 /\ \A j \in kept \ swapped, k \in all \ kept : Beats(j, k)
                 /\ \A j \in swapped, k \in all \ kept : Sees(k) => Beats(j, k)
    <3> DEFINE swapped == {ranked[x]}
    <3> HIDE DEF Sees, Beats
    <3>1. seen = swapped
      <4>1. \A p \in P : Sees(ranked[p]) <=> p = x
        BY <2>2
      <4>2. \A k \in kept : Sees(k) <=> k = ranked[x]
        BY <1>1, <1>3, <2>2, <4>1
      <4>3. ranked[x] \in kept
        BY <1>3, <2>2
      <4> QED
        BY <4>2, <4>3
    <3>2. Cardinality(swapped) = 1
      BY FS_Singleton
    <3>3. \A j \in kept \ swapped, k \in all \ kept : Beats(j, k)
      <4> TAKE j \in kept \ swapped, k \in all \ kept
      <4>1. PICK p \in P : j = ranked[p]
        BY <1>3
      <4>2. PICK q \in (1..N) \ P : k = ranked[q]
        BY <1>8
      <4>3. p < q /\ p \in 1..N /\ q \in 1..N
        BY <1>1, <2>2, <4>1, <4>2
      <4> QED
        BY <1>2, <4>1, <4>2, <4>3
    <3>4. \A k \in all \ kept : Sees(k) => Beats(ranked[x], k)
      <4> TAKE k \in all \ kept
      <4> HAVE Sees(k)
      <4>1. PICK q \in (1..N) \ P : k = ranked[q]
        BY <1>8
      <4>2. x < q /\ x \in 1..N /\ q \in 1..N
        BY <1>1, <2>2, <4>1
      <4> QED
        BY <1>2, <4>1, <4>2
    <3> WITNESS swapped \in SUBSET seen
    <3> QED
      BY <3>1, <3>2, <3>3, <3>4
  <2> QED
    BY <1>3, <2>1, <2>2
<1> QED
  BY <1>4, <1>6, <1>7, <1>9, <1>10 DEF TopIsRight, all, kept, N

(***************************************************************************)
(* The legacy control plane fills the slots                                *)
(***************************************************************************)
LEMMA LegacyRankingLists ==
    ASSUME NEW answer, IsListing(answer)
    PROVE  \E order :
             /\ Enumerates(order, Named(answer))
             /\ \A p, q \in 1..Cardinality(Named(answer)) : p < q =>
                   LegacyScore(answer[order[p]]) >= LegacyScore(answer[order[q]])
             /\ LegacyRanking(answer) =
                   [p \in 1..Cardinality(Named(answer)) |-> answer[order[p]]]
<1> DEFINE S == Named(answer)
           score == [k \in S |-> LegacyScore(answer[k])]
           order == Ranked(S, score)
<1>1. S \in SUBSET Nat /\ IsFiniteSet(S)
  BY ItemsOf
<1>2. score \in [S -> Nat]
  BY ScoresAreNatural
<1>3. LegacyRanking(answer) = [p \in DOMAIN order |-> answer[order[p]]]
  BY DEF LegacyRanking
<1>4. \A k \in S : score[k] = LegacyScore(answer[k])
  OBVIOUS
<1>5. /\ Enumerates(order, S)
      /\ \A p, q \in 1..Cardinality(S) : p < q => score[order[p]] >= score[order[q]]
  <2> HIDE DEF S, score
  <2> QED
    BY <1>1, <1>2, RankedLists
<1> HIDE DEF S, score, order
<1>6. DOMAIN order = 1..Cardinality(S) /\ \A p \in 1..Cardinality(S) : order[p] \in S
  BY <1>5 DEF Enumerates
<1>7. \A p, q \in 1..Cardinality(S) : p < q =>
          LegacyScore(answer[order[p]]) >= LegacyScore(answer[order[q]])
  BY <1>4, <1>5, <1>6
<1> QED
  BY <1>3, <1>5, <1>6, <1>7 DEF S

\* Where the loop and what follows it leave each slot: 0 is nowhere.
WellPlaced(ranked, N) ==
    /\ \A slot \in Slots : FilledBy(ranked, slot) \in 0..N /\ Filled(ranked, slot) \in 0..N
    /\ FilledBy(ranked, "best") = IF N = 0 THEN 0 ELSE 1
    /\ FilledBy(ranked, "general") = IF N < 2 THEN 0 ELSE 2
    /\ \A slot \in {"code", "fast"} :
          (\E p \in 1..N : slot \in Tags(ranked[p])) =>
             /\ FilledBy(ranked, slot) \in 1..N
             /\ slot \in Tags(ranked[FilledBy(ranked, slot)])
             /\ \A p \in 1..N : slot \in Tags(ranked[p]) => FilledBy(ranked, slot) <= p
    /\ (\A p \in 1..N : "code" \notin Tags(ranked[p])) =>
          FilledBy(ranked, "code") = IF N > 2 THEN 3 ELSE 0
    /\ (\A p \in 1..N : "fast" \notin Tags(ranked[p])) => FilledBy(ranked, "fast") = N

LEMMA PlacesOfSlots ==
    ASSUME NEW ranked, NEW N \in Nat, NEW T, ranked \in Seq(T), Len(ranked) = N
    PROVE  WellPlaced(ranked, N)
<1> DEFINE fit(slot) == IF slot = "best" THEN DOMAIN ranked
                        ELSE {p \in DOMAIN ranked : /\ slot \in Tags(ranked[p])
                                                    /\ slot = "general" => p > 1}
<1>1. DOMAIN ranked = 1..N
  OBVIOUS
<1>2. \A slot : /\ fit(slot) \in SUBSET (1..N)
                /\ Filled(ranked, slot) = IF fit(slot) = {} THEN 0 ELSE Min(fit(slot))
  BY <1>1 DEF Filled
<1>3. /\ fit("best") = 1..N
      /\ fit("general") = {p \in 1..N : p > 1}
      /\ fit("code") = {p \in 1..N : "code" \in Tags(ranked[p])}
      /\ fit("fast") = {p \in 1..N : "fast" \in Tags(ranked[p])}
  BY <1>1 DEF Tags
<1> HIDE DEF fit
<1>4. \A slot : fit(slot) # {} => /\ Filled(ranked, slot) \in fit(slot)
                                 /\ \A p \in fit(slot) : Filled(ranked, slot) <= p
  <2> TAKE slot
  <2> HAVE fit(slot) # {}
  <2>1. fit(slot) \in SUBSET Nat
    BY <1>2
  <2>2. Min(fit(slot)) \in fit(slot) /\ \A p \in fit(slot) : Min(fit(slot)) <= p
    BY <2>1, MinOfNaturals
  <2> QED
    BY <1>2, <2>2
<1>5. \A slot : fit(slot) = {} => Filled(ranked, slot) = 0
  BY <1>2
<1>6. FilledBy(ranked, "best") = IF N = 0 THEN 0 ELSE 1
  <2>1. Fallback(ranked, "best") = 0
    BY DEF Fallback
  <2>2. N = 0 => fit("best") = {}
    BY <1>3
  <2>3. N # 0 => 1 \in fit("best")
    BY <1>3
  <2>4. N # 0 => Filled(ranked, "best") = 1
    <3> HAVE N # 0
    <3>1. Filled(ranked, "best") \in 1..N /\ Filled(ranked, "best") <= 1
      BY <1>3, <1>4, <2>3
    <3> QED
      BY <3>1
  <2> QED
    BY <1>5, <2>1, <2>2, <2>4 DEF FilledBy
<1>7. FilledBy(ranked, "general") = IF N < 2 THEN 0 ELSE 2
  <2>1. Fallback(ranked, "general") = 0
    BY DEF Fallback
  <2>2. N < 2 => fit("general") = {}
    BY <1>3
  <2>3. ~(N < 2) => 2 \in fit("general")
    BY <1>3
  <2>4. ~(N < 2) => Filled(ranked, "general") = 2
    <3> HAVE ~(N < 2)
    <3>1. Filled(ranked, "general") \in 1..N /\ Filled(ranked, "general") > 1
          /\ Filled(ranked, "general") <= 2
      BY <1>3, <1>4, <2>3
    <3> QED
      BY <3>1
  <2> QED
    BY <1>5, <2>1, <2>2, <2>4 DEF FilledBy
<1>8. /\ Fallback(ranked, "code") = IF N > 2 THEN 3 ELSE 0
      /\ Fallback(ranked, "fast") = N
  BY DEF Fallback
<1>9. ASSUME NEW slot \in {"code", "fast"}, \E p \in 1..N : slot \in Tags(ranked[p])
      PROVE  /\ FilledBy(ranked, slot) \in 1..N
             /\ slot \in Tags(ranked[FilledBy(ranked, slot)])
             /\ \A p \in 1..N : slot \in Tags(ranked[p]) => FilledBy(ranked, slot) <= p
  <2>1. fit(slot) = {p \in 1..N : slot \in Tags(ranked[p])}
    BY <1>3
  <2>2. fit(slot) # {}
    BY <1>9, <2>1
  <2>3. /\ Filled(ranked, slot) \in fit(slot)
        /\ \A p \in fit(slot) : Filled(ranked, slot) <= p
    BY <1>4, <2>2
  <2>4. Filled(ranked, slot) # 0
    BY <2>1, <2>3
  <2> QED
    BY <2>1, <2>3, <2>4 DEF FilledBy
<1>10. ASSUME NEW slot \in {"code", "fast"}, \A p \in 1..N : slot \notin Tags(ranked[p])
       PROVE  FilledBy(ranked, slot) = Fallback(ranked, slot)
  <2>1. fit(slot) = {}
    BY <1>3, <1>10
  <2> QED
    BY <1>5, <2>1 DEF FilledBy
<1>11. ASSUME NEW slot \in {"code", "fast"}
       PROVE  FilledBy(ranked, slot) \in 0..N
  <2>1. CASE \E p \in 1..N : slot \in Tags(ranked[p])
    BY <1>9, <2>1
  <2>2. CASE \A p \in 1..N : slot \notin Tags(ranked[p])
    BY <1>8, <1>10, <2>2
  <2> QED
    BY <2>1, <2>2
<1>12. \A slot \in Slots : FilledBy(ranked, slot) \in 0..N
  BY <1>6, <1>7, <1>11 DEF Slots
<1>13. \A slot \in {"code", "fast"} :
         (\E p \in 1..N : slot \in Tags(ranked[p])) =>
            /\ FilledBy(ranked, slot) \in 1..N
            /\ slot \in Tags(ranked[FilledBy(ranked, slot)])
            /\ \A p \in 1..N : slot \in Tags(ranked[p]) => FilledBy(ranked, slot) <= p
  BY <1>9
<1>14. \A slot \in Slots : Filled(ranked, slot) \in 0..N
  BY <1>2, <1>4, <1>5
<1> QED
  BY <1>6, <1>7, <1>8, <1>10, <1>12, <1>13, <1>14 DEF WellPlaced

\* The aliases of a listing, by the place each slot has in the ranking.
LEMMA AliasPlaces ==
    ASSUME NEW ranked, NEW answer, ranked = LegacyRanking(answer)
    PROVE  /\ DOMAIN AliasMap(answer) = {slot \in Slots : FilledBy(ranked, slot) # 0}
           /\ \A slot \in DOMAIN AliasMap(answer) :
                 AliasMap(answer)[slot] = ranked[FilledBy(ranked, slot)].id
BY DEF AliasMap

\* The slots of a listing are those that the ranking calls for
\* (_run_openrouter_free_sync), for any listing.
THEOREM AliasesAreRight ==
    ASSUME NEW answer, IsListing(answer)
    PROVE  MapIsRight(answer)
<1> DEFINE all == Named(answer)
           N == Cardinality(all)
           map == AliasMap(answer)
           ranked == LegacyRanking(answer)
           At(slot) == FilledBy(ranked, slot)
           Of(slot) == CHOOSE k \in all : answer[k].id = map[slot]
           Beats(j, k) == LegacyScore(answer[j]) >= LegacyScore(answer[k])
           Fits(slot) == {k \in all : slot \in Tags(answer[k])}
<1>1. PICK order :
        /\ Enumerates(order, all)
        /\ \A p, q \in 1..N : p < q => Beats(order[p], order[q])
        /\ ranked = [p \in 1..N |-> answer[order[p]]]
  BY LegacyRankingLists
<1>2. /\ N \in Nat
      /\ \A p \in 1..N : order[p] \in all
      /\ \A x \in all : \E p \in 1..N : order[p] = x
      /\ \A p, q \in 1..N : order[p] = order[q] => p = q
  BY <1>1 DEF Enumerates
<1>3. \A j, k \in all : answer[j].id = answer[k].id => j = k
  BY DEF IsListing
<1>4. /\ DOMAIN map = {slot \in Slots : At(slot) # 0}
      /\ \A slot \in DOMAIN map : map[slot] = ranked[At(slot)].id
  BY AliasPlaces
<1>5. \A k \in all : Beats(k, k)
  BY ScoresAreNatural
<1> HIDE DEF all, N, map, ranked, Beats
<1>6. /\ \A slot \in Slots : At(slot) \in 0..N
      /\ At("best") = IF N = 0 THEN 0 ELSE 1
      /\ At("general") = IF N < 2 THEN 0 ELSE 2
      /\ \A slot \in {"code", "fast"} :
            (\E p \in 1..N : slot \in Tags(ranked[p])) =>
               /\ At(slot) \in 1..N
               /\ slot \in Tags(ranked[At(slot)])
               /\ \A p \in 1..N : slot \in Tags(ranked[p]) => At(slot) <= p
      /\ (\A p \in 1..N : "code" \notin Tags(ranked[p])) => At("code") = IF N > 2 THEN 3 ELSE 0
      /\ (\A p \in 1..N : "fast" \notin Tags(ranked[p])) => At("fast") = N
  <2>1. ranked \in Seq({answer[k] : k \in all}) /\ Len(ranked) = N
    BY <1>1, <1>2
  <2>2. WellPlaced(ranked, N)
    BY <1>2, <2>1, PlacesOfSlots
  <2> QED
    BY <2>2 DEF WellPlaced
<1> HIDE DEF At
<1>7. \A p \in 1..N : ranked[p] = answer[order[p]]
  BY <1>1
<1>8. \A slot \in DOMAIN map : /\ At(slot) \in 1..N
                               /\ map[slot] = answer[order[At(slot)]].id
                               /\ Of(slot) = order[At(slot)]
  <2> TAKE slot \in DOMAIN map
  <2>1. At(slot) \in 1..N
    BY <1>2, <1>4, <1>6
  <2>2. map[slot] = answer[order[At(slot)]].id /\ order[At(slot)] \in all
    BY <1>2, <1>4, <1>7, <2>1
  <2>3. Of(slot) = order[At(slot)]
    BY <1>3, <2>2
  <2> QED
    BY <2>1, <2>2, <2>3
<1> HIDE DEF Of
<1>9. \A slot \in {"code", "fast"} : Fits(slot) # {} <=> \E p \in 1..N : slot \in Tags(ranked[p])
  BY <1>2, <1>7
<1>10. \A slot \in DOMAIN map : \E k \in all : answer[k].id = map[slot]
  BY <1>2, <1>8
<1>11. DOMAIN map = {slot \in Slots :
              CASE slot \in {"best", "fast"} -> all # {}
                [] slot = "general" -> N > 1
                [] slot = "code" -> Fits("code") # {} \/ N > 2}
  <2>1. N # 0 <=> all # {}
    BY <1>2
  <2>2. At("best") # 0 <=> all # {}
    BY <1>6, <2>1
  <2>3. At("general") # 0 <=> N > 1
    BY <1>2, <1>6
  <2>4. At("fast") # 0 <=> all # {}
    <3>1. CASE \E p \in 1..N : "fast" \in Tags(ranked[p])
      BY <1>2, <1>6, <2>1, <3>1
    <3>2. CASE \A p \in 1..N : "fast" \notin Tags(ranked[p])
      BY <1>6, <2>1, <3>2
    <3> QED
      BY <3>1, <3>2
  <2>5. At("code") # 0 <=> Fits("code") # {} \/ N > 2
    <3>1. CASE \E p \in 1..N : "code" \in Tags(ranked[p])
      BY <1>2, <1>6, <1>9, <3>1
    <3>2. CASE \A p \in 1..N : "code" \notin Tags(ranked[p])
      BY <1>6, <1>9, <3>2
    <3> QED
      BY <3>1, <3>2
  <2> HIDE DEF Fits
  <2> QED
    BY <1>4, <2>2, <2>3, <2>4, <2>5 DEF Slots
<1>12. "best" \in DOMAIN map => \A k \in all : Beats(Of("best"), k)
  <2> SUFFICES ASSUME "best" \in DOMAIN map, NEW k \in all
               PROVE  Beats(Of("best"), k)
    OBVIOUS
  <2>1. Of("best") = order[1] /\ 1 \in 1..N
    BY <1>2, <1>6, <1>8
  <2>2. PICK q \in 1..N : k = order[q]
    BY <1>2
  <2>3. q = 1 \/ 1 < q
    BY <1>2
  <2> QED
    BY <1>1, <1>5, <2>1, <2>2, <2>3
<1>13. "general" \in DOMAIN map =>
         /\ map["general"] # map["best"]
         /\ \A k \in all \ {Of("best")} : Beats(Of("general"), k)
  <2> SUFFICES ASSUME "general" \in DOMAIN map
               PROVE  /\ map["general"] # map["best"]
                      /\ \A k \in all \ {Of("best")} : Beats(Of("general"), k)
    OBVIOUS
  <2>1. At("general") = 2 /\ At("best") = 1 /\ 1 \in 1..N /\ 2 \in 1..N
    BY <1>2, <1>4, <1>6
  <2>2. "best" \in DOMAIN map
    BY <1>4, <2>1 DEF Slots
  <2>3. /\ map["general"] = answer[order[2]].id /\ Of("general") = order[2]
        /\ map["best"] = answer[order[1]].id /\ Of("best") = order[1]
    BY <1>8, <2>1, <2>2
  <2>4. order[1] # order[2] /\ order[1] \in all /\ order[2] \in all
    BY <1>2, <2>1
  <2>5. map["general"] # map["best"]
    BY <1>3, <2>3, <2>4
  <2>6. ASSUME NEW k \in all \ {Of("best")}
        PROVE  Beats(Of("general"), k)
    <3>1. PICK q \in 1..N : k = order[q]
      BY <1>2
    <3>2. q = 2 \/ 2 < q
      BY <1>2, <2>3, <2>6, <3>1
    <3> QED
      BY <1>1, <1>5, <2>1, <2>3, <3>1, <3>2
  <2> QED
    BY <2>5, <2>6
<1>14. ASSUME NEW slot \in {"code", "fast"}, Fits(slot) # {}
       PROVE  /\ Of(slot) \in Fits(slot)
              /\ \A k \in Fits(slot) : Beats(Of(slot), k)
  <2>1. /\ At(slot) \in 1..N /\ slot \in Tags(ranked[At(slot)])
        /\ \A p \in 1..N : slot \in Tags(ranked[p]) => At(slot) <= p
    BY <1>6, <1>9, <1>14
  <2>2. slot \in DOMAIN map
    BY <1>2, <1>4, <2>1 DEF Slots
  <2>3. Of(slot) = order[At(slot)]
    BY <1>8, <2>2
  <2>4. Of(slot) \in Fits(slot)
    BY <1>2, <1>7, <2>1, <2>3
  <2>5. ASSUME NEW k \in Fits(slot)
        PROVE  Beats(Of(slot), k)
    <3>1. PICK q \in 1..N : k = order[q]
      BY <1>2
    <3>2. slot \in Tags(ranked[q])
      BY <1>7, <3>1
    <3>3. At(slot) = q \/ At(slot) < q
      BY <1>2, <2>1, <3>1, <3>2
    <3> QED
      BY <1>1, <1>5, <2>1, <2>3, <3>1, <3>3
  <2> QED
    BY <2>4, <2>5
<1>15. Fits("fast") = {} /\ all # {} => \A k \in all : Beats(k, Of("fast"))
  <2> SUFFICES ASSUME Fits("fast") = {}, all # {}, NEW k \in all
               PROVE  Beats(k, Of("fast"))
    OBVIOUS
  <2>1. PICK q \in 1..N : k = order[q]
    BY <1>2
  <2>2. \A p \in 1..N : "fast" \notin Tags(ranked[p])
    BY <1>9
  <2>3. At("fast") = N /\ N \in 1..N
    BY <1>2, <1>6, <2>1, <2>2
  <2>4. "fast" \in DOMAIN map
    BY <1>2, <1>4, <2>3 DEF Slots
  <2>5. Of("fast") = order[N]
    BY <1>8, <2>3, <2>4
  <2>6. q = N \/ q < N
    BY <1>2
  <2> QED
    BY <1>1, <1>5, <2>1, <2>3, <2>5, <2>6
<1> QED
  BY <1>10, <1>11, <1>12, <1>13, <1>14, <1>15 DEF MapIsRight, all, map, N, Of, Beats

\* Each slot is written once.
\* Each slot of the map is written once.
LEMMA AliasesInOrder ==
    ASSUME NEW answer, IsListing(answer)
    PROVE  Enumerates(AliasOrder(answer), DOMAIN AliasMap(answer))
<1> DEFINE ranked == LegacyRanking(answer)
           slots == DOMAIN AliasMap(answer)
           turn == [s \in slots |-> Place[s] + 4 *
               IF Filled(ranked, s) # 0 THEN Filled(ranked, s) ELSE Len(ranked) + 1]
           before == {e \in slots \X slots : turn[e[1]] < turn[e[2]]}
<1>1. AliasOrder(answer) = InOrder(slots, before)
  BY DEF AliasOrder
<1>2. slots \subseteq Slots /\ IsFiniteSet(slots)
  <2>1. slots \subseteq Slots
    BY DEF AliasMap
  <2>2. IsFiniteSet(Slots)
    <3>0. IsFiniteSet({"best"})
      BY FS_Singleton
    <3>1. IsFiniteSet({"best"} \cup {"code"})
      BY <3>0, FS_AddElement
    <3>2. IsFiniteSet(({"best"} \cup {"code"}) \cup {"fast"})
      BY <3>1, FS_AddElement
    <3>3. IsFiniteSet((({"best"} \cup {"code"}) \cup {"fast"}) \cup {"general"})
      BY <3>2, FS_AddElement
    <3>4. Slots = (({"best"} \cup {"code"}) \cup {"fast"}) \cup {"general"}
      BY DEF Slots
    <3> QED
      BY <3>3, <3>4
  <2> HIDE DEF slots
  <2> QED
    BY <2>1, <2>2, FS_Subset
<1>3. Len(ranked) \in Nat /\ \A s \in Slots : Filled(ranked, s) \in Nat
  <2>1. PICK order :
          /\ Enumerates(order, Named(answer))
          /\ ranked = [p \in 1..Cardinality(Named(answer)) |-> answer[order[p]]]
    BY LegacyRankingLists
  <2>2. Cardinality(Named(answer)) \in Nat
    BY ItemsOf
  <2> DEFINE N == Cardinality(Named(answer))
             T == {answer[order[p]] : p \in 1..N}
  <2>3. ranked \in [1..N -> T] /\ N \in Nat
    BY <2>1, <2>2
  <2> HIDE DEF N, T, ranked
  <2>4. ranked \in Seq(T) /\ Len(ranked) = N
    BY <2>3
  <2>5. WellPlaced(ranked, N)
    BY <2>3, <2>4, PlacesOfSlots
  <2> QED
    BY <2>3, <2>4, <2>5 DEF WellPlaced
<1> HIDE DEF slots, ranked
<1>4. \A s \in slots : \E n \in Nat : turn[s] = Place[s] + 4 * n
  <2> TAKE s \in slots
  <2> DEFINE n == IF Filled(ranked, s) # 0 THEN Filled(ranked, s) ELSE Len(ranked) + 1
  <2>1. turn[s] = Place[s] + 4 * n
    OBVIOUS
  <2>2. n \in Nat
    BY <1>2, <1>3
  <2> HIDE DEF turn, n
  <2> QED
    BY <2>1, <2>2
<1>5. \A s, u \in slots : s # u => Place[s] # Place[u]
  BY <1>2 DEF Slots, Place
<1>6. \A s \in slots : Place[s] \in 0..3
  BY <1>2 DEF Slots, Place
<1> HIDE DEF turn
<1>7. \A s \in slots : turn[s] \in Nat
  BY <1>4, <1>6
<1>8. \A s, u \in slots : s # u => turn[s] # turn[u]
  <2> TAKE s, u \in slots
  <2> HAVE s # u
  <2>1. PICK m \in Nat : turn[s] = Place[s] + 4 * m
    BY <1>4
  <2>2. PICK n \in Nat : turn[u] = Place[u] + 4 * n
    BY <1>4
  <2>3. Place[s] # Place[u] /\ Place[s] \in 0..3 /\ Place[u] \in 0..3
    BY <1>5, <1>6
  <2> QED
    BY <2>1, <2>2, <2>3
<1>9. \A s, u \in slots : <<s, u>> \in before <=> turn[s] < turn[u]
  OBVIOUS
<1> HIDE DEF before
<1>10. IsOrder(before, slots)
  <2>1. \A s \in slots : <<s, s>> \notin before
    BY <1>7, <1>9
  <2>2. \A s, u, v \in slots : <<s, u>> \in before /\ <<u, v>> \in before => <<s, v>> \in before
    BY <1>7, <1>9
  <2>3. \A s, u \in slots : s = u \/ <<s, u>> \in before \/ <<u, s>> \in before
    <3> TAKE s, u \in slots
    <3>1. turn[s] \in Nat /\ turn[u] \in Nat /\ (s # u => turn[s] # turn[u])
      BY <1>7, <1>8
    <3> QED
      BY <1>9, <3>1
  <2> QED
    BY <2>1, <2>2, <2>3 DEF IsOrder
<1>11. Enumerates(AliasOrder(answer), slots)
  BY <1>1, <1>2, <1>10, InOrderLists
<1> QED
  BY <1>11 DEF slots

\* Two aliases at least, and general another than best, as soon as two models
\* are free.
LEMMA GeneralIsAnother ==
    ASSUME NEW answer, IsListing(answer), Cardinality(Named(answer)) > 1
    PROVE  /\ "best" \in DOMAIN AliasMap(answer) /\ "general" \in DOMAIN AliasMap(answer)
           /\ AliasMap(answer)["general"] # AliasMap(answer)["best"]
<1>1. Named(answer) # {}
  BY FS_EmptySet
<1>2. DOMAIN AliasMap(answer) = {slot \in Slots :
              CASE slot \in {"best", "fast"} -> Named(answer) # {}
                [] slot = "general" -> Cardinality(Named(answer)) > 1
                [] slot = "code" -> {k \in Named(answer) : "code" \in Tags(answer[k])} # {}
                                    \/ Cardinality(Named(answer)) > 2}
  BY AliasesAreRight DEF MapIsRight
<1>3. "general" \in DOMAIN AliasMap(answer) => AliasMap(answer)["general"] # AliasMap(answer)["best"]
  BY AliasesAreRight DEF MapIsRight
<1>4. "best" \in DOMAIN AliasMap(answer) /\ "general" \in DOMAIN AliasMap(answer)
  BY <1>1, <1>2 DEF Slots
<1> QED
  BY <1>3, <1>4
=============================================================================
