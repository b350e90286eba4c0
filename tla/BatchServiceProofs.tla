------------------------- MODULE BatchServiceProofs -------------------------
(***************************************************************************)
(* Proofs about BatchService, for any number of threads, ids, stages and   *)
(* items, and any bounds on crashes, faults and damage.                    *)
(***************************************************************************)
EXTENDS BatchService, FiniteSetTheorems, SequenceTheorems, TLAPS

-----------------------------------------------------------------------------
(* Ranks *)

\* R is a strict total order of S.
Orders(R, S) ==
    /\ \A k \in S : <<k, k>> \notin R
    /\ \A k, l, m \in S : <<k, l>> \in R /\ <<l, m>> \in R => <<k, m>> \in R
    /\ \A k, l \in S : k = l \/ <<k, l>> \in R \/ <<l, k>> \in R

\* The predecessors of an element, and how many they are,
Below(R, S) == [k \in S |-> {l \in S : <<l, k>> \in R}]

Rank(R, S) == [k \in S |-> Cardinality(Below(R, S)[k])]

\* ... which numbers the elements of S from 0.
RankNumbers(R, S) ==
    /\ Cardinality(S) \in Nat
    /\ Rank(R, S) \in [S -> 0..(Cardinality(S) - 1)]
    /\ \A k, l \in S : <<k, l>> \in R => Rank(R, S)[k] < Rank(R, S)[l]
    /\ \A k, l \in S : Rank(R, S)[k] = Rank(R, S)[l] => k = l
    /\ \A i \in 0..(Cardinality(S) - 1) : \E k \in S : Rank(R, S)[k] = i

\* The number of predecessors numbers a finite strict order.
LEMMA RanksNumber ==
    ASSUME NEW S, IsFiniteSet(S), NEW R, Orders(R, S)
    PROVE  RankNumbers(R, S)
<1> DEFINE n == Cardinality(S)
           B == Below(R, S)
           rank == Rank(R, S)
<1>1. n \in Nat
  BY FS_CardinalityType
<1>a. \A k \in S : \A l : l \in B[k] <=> l \in S /\ <<l, k>> \in R
  BY DEF Below
<1>b. \A k \in S : rank[k] = Cardinality(B[k])
  BY DEF Rank
<1>c. rank = [k \in S |-> rank[k]]
  BY DEF Rank
<1> HIDE DEF n, B, rank
<1>2. ASSUME NEW k \in S
      PROVE  /\ IsFiniteSet(B[k]) /\ B[k] \subseteq S
             /\ rank[k] = Cardinality(B[k]) /\ rank[k] \in 0..(n - 1) /\ rank[k] \in Int
  <2>1. IsFiniteSet(S \ {k}) /\ Cardinality(S \ {k}) = n - 1
    BY FS_RemoveElement DEF n
  <2>2. B[k] \in SUBSET (S \ {k})
    BY <1>a DEF Orders
  <2>3. IsFiniteSet(B[k]) /\ Cardinality(B[k]) <= n - 1
    BY <2>1, <2>2, FS_Subset
  <2>4. Cardinality(B[k]) \in Nat
    BY <2>3, FS_CardinalityType
  <2> QED BY <1>1, <1>b, <2>2, <2>3, <2>4
<1>3. ASSUME NEW k \in S, NEW l \in S, <<k, l>> \in R PROVE rank[k] < rank[l]
  <2>1. B[k] \in SUBSET B[l] /\ k \in B[l] /\ k \notin B[k]
    BY <1>a, <1>3 DEF Orders
  <2>2. Cardinality(B[k]) <= Cardinality(B[l]) /\ Cardinality(B[k]) # Cardinality(B[l])
    BY <2>1, <1>2, FS_Subset
  <2> QED BY <2>2, <1>2
<1>4. \A k, l \in S : rank[k] = rank[l] => k = l
  <2> SUFFICES ASSUME NEW k \in S, NEW l \in S, k # l PROVE rank[k] # rank[l]
    OBVIOUS
  <2>1. rank[k] \in Int /\ rank[l] \in Int
    BY <1>2
  <2>2. <<k, l>> \in R \/ <<l, k>> \in R
    BY DEF Orders
  <2>3. <<k, l>> \in R => rank[k] < rank[l]
    BY <1>3
  <2>4. <<l, k>> \in R => rank[l] < rank[k]
    BY <1>3
  <2> QED BY <2>1, <2>2, <2>3, <2>4
<1>5. rank \in Injection(S, 0..(n - 1))
  BY <1>c, <1>2, <1>4 DEF Injection, IsInjective
<1>6. IsFiniteSet(0..(n - 1)) /\ Cardinality(0..(n - 1)) = n
  <2>1. 0 \in Int /\ n - 1 \in Int
    BY <1>1
  <2>2. /\ IsFiniteSet(0..(n - 1))
        /\ Cardinality(0..(n - 1)) = IF 0 > n - 1 THEN 0 ELSE (n - 1) - 0 + 1
    BY <2>1, FS_Interval
  <2> QED BY <1>1, <2>2
<1>7. rank \in Surjection(S, 0..(n - 1))
  BY <1>5, <1>6, FS_Injection DEF n
<1>8. \A i \in 0..(n - 1) : \E k \in S : rank[k] = i
  BY <1>7 DEF Surjection
<1> QED
  BY <1>1, <1>2, <1>3, <1>4, <1>5, <1>8 DEF n, rank, Injection, RankNumbers

\* Ranked lists each element once, in order: sorted() of the code.
LEMMA RankedLists ==
    ASSUME NEW S, IsFiniteSet(S), NEW R, Orders(R, S)
    PROVE  /\ Cardinality(S) \in Nat
           /\ Ranked(S, R) \in [1..Cardinality(S) -> S]
           /\ \A k \in S : \E i \in 1..Cardinality(S) : Ranked(S, R)[i] = k
           /\ \A i, j \in 1..Cardinality(S) :
                i < j => <<Ranked(S, R)[i], Ranked(S, R)[j]>> \in R
<1> DEFINE n == Cardinality(S)
           rank == Rank(R, S)
           f == Ranked(S, R)
<1>1. /\ n \in Nat
      /\ rank \in [S -> 0..(n - 1)]
      /\ \A k, l \in S : <<k, l>> \in R => rank[k] < rank[l]
      /\ \A k, l \in S : rank[k] = rank[l] => k = l
      /\ \A i \in 0..(n - 1) : \E k \in S : rank[k] = i
  <2>1. RankNumbers(R, S)
    BY RanksNumber
  <2> QED BY <2>1 DEF RankNumbers
<1>a. \A k \in S : rank[k] = Cardinality({l \in S : <<l, k>> \in R})
  BY DEF Rank, Below
<1> HIDE DEF n, rank
<1>2. ASSUME NEW i \in 1..n PROVE f[i] \in S /\ rank[f[i]] = i - 1
  <2>1. i - 1 \in 0..(n - 1)
    BY <1>1
  <2>2. \E k \in S : Cardinality({l \in S : <<l, k>> \in R}) = i - 1
    BY <2>1, <1>1, <1>a
  <2>3. f[i] = CHOOSE k \in S : Cardinality({l \in S : <<l, k>> \in R}) = i - 1
    BY DEF Ranked, n
  <2>4. f[i] \in S /\ Cardinality({l \in S : <<l, f[i]>> \in R}) = i - 1
    <3> HIDE DEF f
    <3> QED BY <2>2, <2>3
  <2> QED BY <2>4, <1>a
<1>3. f \in [1..n -> S]
  BY <1>2 DEF Ranked, n
<1> HIDE DEF f
<1>4. ASSUME NEW k \in S PROVE \E i \in 1..n : f[i] = k
  <2>1. rank[k] + 1 \in 1..n
    BY <1>1
  <2>2. rank[f[rank[k] + 1]] = rank[k] /\ f[rank[k] + 1] \in S
    BY <2>1, <1>1, <1>2
  <2> QED BY <2>1, <2>2, <1>1
<1>5. ASSUME NEW i \in 1..n, NEW j \in 1..n, i < j PROVE <<f[i], f[j]>> \in R
  <2>1. f[i] \in S /\ f[j] \in S /\ rank[f[i]] = i - 1 /\ rank[f[j]] = j - 1
    BY <1>2
  <2>2. i \in Int /\ j \in Int
    BY <1>1
  <2>3. ~(rank[f[j]] < rank[f[i]]) /\ rank[f[i]] # rank[f[j]]
    BY <2>1, <2>2, <1>5
  <2> QED BY <2>1, <2>3, <1>1 DEF Orders
<1> QED
  BY <1>1, <1>3, <1>4, <1>5 DEF f, n

\* The same for counting up to a number: fresh ids are drawn without a gap.
LEMMA CountsNumber ==
    ASSUME NEW S, IsFiniteSet(S), S \subseteq Int
    PROVE  /\ Cardinality(S) \in Nat
           /\ \A k \in S : Cardinality({l \in S : l <= k}) \in 1..Cardinality(S)
           /\ \A k, m \in S :
                Cardinality({l \in S : l <= k}) = Cardinality({l \in S : l <= m}) => k = m
           /\ \A i \in 1..Cardinality(S) :
                \E k \in S : Cardinality({l \in S : l <= k}) = i
<1> DEFINE R == {kl \in S \X S : kl[1] < kl[2]}
           n == Cardinality(S)
           c(k) == Cardinality({l \in S : l <= k})
<1>1. Orders(R, S)
  BY DEF Orders
<1>2. /\ n \in Nat
      /\ Rank(R, S) \in [S -> 0..(n - 1)]
      /\ \A k, l \in S : Rank(R, S)[k] = Rank(R, S)[l] => k = l
      /\ \A i \in 0..(n - 1) : \E k \in S : Rank(R, S)[k] = i
  <2>1. RankNumbers(R, S)
    <3> HIDE DEF R
    <3> QED BY <1>1, RanksNumber
  <2> QED BY <2>1 DEF RankNumbers
<1>3. ASSUME NEW k \in S PROVE c(k) = Rank(R, S)[k] + 1
  <2> DEFINE B == {l \in S : <<l, k>> \in R}
  <2>1. Rank(R, S)[k] = Cardinality(B)
    BY DEF Rank, Below
  <2>a. \A l \in S : <<l, k>> \in R <=> l < k
    OBVIOUS
  <2>b. \A l \in S : l <= k <=> l < k \/ l = k
    OBVIOUS
  <2>c. ~(k < k)
    OBVIOUS
  <2>2. {l \in S : l <= k} = B \cup {k} /\ k \notin B
    <3> HIDE DEF R
    <3> QED BY <2>a, <2>b, <2>c
  <2>3. B \in SUBSET S
    OBVIOUS
  <2> HIDE DEF B
  <2>4. Cardinality(B \cup {k}) = Cardinality(B) + 1
    BY <2>2, <2>3, FS_Subset, FS_AddElement
  <2> QED BY <2>1, <2>2, <2>4
<1> HIDE DEF R, n
<1>4. \A k \in S : Rank(R, S)[k] \in 0..(n - 1)
  BY <1>2
<1>5. \A k \in S : c(k) \in 1..n
  <2> SUFFICES ASSUME NEW k \in S PROVE c(k) \in 1..n
    OBVIOUS
  <2>1. c(k) = Rank(R, S)[k] + 1 /\ Rank(R, S)[k] \in 0..(n - 1)
    BY <1>3, <1>4
  <2> HIDE DEF c
  <2> QED BY <2>1, <1>2
<1>6. \A k, m \in S : c(k) = c(m) => k = m
  <2> SUFFICES ASSUME NEW k \in S, NEW m \in S, c(k) = c(m)
               PROVE  k = m
    OBVIOUS
  <2>1. /\ c(k) = Rank(R, S)[k] + 1 /\ Rank(R, S)[k] \in 0..(n - 1)
        /\ c(m) = Rank(R, S)[m] + 1 /\ Rank(R, S)[m] \in 0..(n - 1)
    BY <1>3, <1>4
  <2> HIDE DEF c
  <2>2. \A x, y \in 0..(n - 1) : x + 1 = y + 1 => x = y
    BY <1>2
  <2>3. Rank(R, S)[k] = Rank(R, S)[m]
    BY <2>1, <2>2
  <2> QED BY <2>3, <1>2
<1>7. \A i \in 1..n : \E k \in S : c(k) = i
  <2> SUFFICES ASSUME NEW i \in 1..n PROVE \E k \in S : c(k) = i
    OBVIOUS
  <2>1. i - 1 \in 0..(n - 1) /\ i \in Int
    BY <1>2
  <2>2. PICK k \in S : Rank(R, S)[k] = i - 1
    BY <2>1, <1>2
  <2>3. c(k) = Rank(R, S)[k] + 1
    BY <1>3
  <2> HIDE DEF c
  <2> QED BY <2>1, <2>2, <2>3
<1> QED
  BY <1>2, <1>5, <1>6, <1>7 DEF n

-----------------------------------------------------------------------------
(* What the operations make of a record *)

\* The positions of a record are a finite set of numbers.
LEMMA PositionsFinite ==
    ASSUME NEW b \in Batches
    PROVE  /\ Len(b.items) \in Nat /\ DOMAIN b.items = 1..Len(b.items)
           /\ b.items \in Seq(Items)
           /\ IsFiniteSet(1..Len(b.items)) /\ Cardinality(1..Len(b.items)) = Len(b.items)
           /\ \A k \in DOMAIN b.items :
                /\ b.items[k] \in Items
                /\ b.items[k].stage \in Nat /\ b.items[k].from \in Nat
                /\ b.items[k].job \in Jobs \cup {0}
                /\ b.items[k].status \in ITEM_STATUSES
<1>1. b.items \in Seq(Items)
  BY DEF Batches
<1>2. Len(b.items) \in Nat /\ DOMAIN b.items = 1..Len(b.items)
  BY <1>1
<1>3. \A k \in DOMAIN b.items : b.items[k] \in Items
  BY <1>1, <1>2
<1>4. /\ IsFiniteSet(1..Len(b.items))
      /\ Cardinality(1..Len(b.items)) = IF 1 > Len(b.items) THEN 0 ELSE Len(b.items) - 1 + 1
  BY <1>2, FS_Interval
<1> QED
  BY <1>1, <1>2, <1>3, <1>4 DEF Items

\* A finite sequence is known by its entries.
LEMMA IsSeq ==
    ASSUME NEW S, NEW n \in Nat, NEW f \in [1..n -> S]
    PROVE  f \in Seq(S) /\ Len(f) = n
  OBVIOUS

\* The children of a stage that are still open are children of the record.
LEMMA OpenJobsAreItems ==
    ASSUME NEW b \in Batches, NEW s
    PROVE  /\ OpenJobs(b, s) \in Seq(Jobs)
           /\ \A i \in DOMAIN OpenJobs(b, s) :
                \E k \in DOMAIN b.items : OpenJobs(b, s)[i] = b.items[k].job /\ b.items[k].job # 0
<1> DEFINE open == {k \in 1..Len(b.items) : /\ s = -1 \/ b.items[k].stage = s
                                           /\ b.items[k].job # 0
                                           /\ ~is_terminal_status(b.items[k].status)}
           R == {kl \in open \X open : kl[1] < kl[2]}
           order == Ranked(open, R)
<1>1. IsFiniteSet(open)
  <2>1. open \in SUBSET (1..Len(b.items))
    OBVIOUS
  <2> QED BY <2>1, PositionsFinite, FS_Subset
<1>2. Orders(R, open)
  <2>1. open \subseteq Int
    BY PositionsFinite
  <2> HIDE DEF open
  <2> QED BY <2>1 DEF Orders
<1>3. order \in [1..Cardinality(open) -> open] /\ Cardinality(open) \in Nat
  <2> HIDE DEF open, R
  <2> QED BY <1>1, <1>2, RankedLists
<1>4. order \in Seq(open) /\ Len(order) = Cardinality(open)
  <2> HIDE DEF open, order
  <2> QED BY <1>3, IsSeq
<1>5. OpenJobs(b, s) = [i \in 1..Len(order) |-> b.items[order[i]].job]
  BY DEF OpenJobs
<1>6. \A k \in open : b.items[k].job \in Jobs /\ k \in DOMAIN b.items /\ b.items[k].job # 0
  BY PositionsFinite
<1> HIDE DEF open, order
<1>7. [i \in 1..Len(order) |-> b.items[order[i]].job] \in [1..Len(order) -> Jobs]
  BY <1>3, <1>4, <1>6
<1>8. OpenJobs(b, s) \in Seq(Jobs)
  BY <1>3, <1>4, <1>5, <1>7, IsSeq
<1> QED
  BY <1>3, <1>4, <1>5, <1>6, <1>8

\* The items of a stage that succeeded.
Good(b, s) == {k \in Positions(b, s) : b.items[k].status = "succeeded"}

ItemScore(b, k) == Score[b.items[k].job]

\* rank_winners answers distinct successes of the stage: all of them, or as many
\* as are kept; no success that is left out scores higher.
RanksWinners(b) ==
    LET w == rank_winners(b)  good == Good(b, b.stage)  keep == KeepTopN[b.stage + 1] IN
    /\ w \in Seq(good) /\ Len(w) \in Nat /\ w \in [1..Len(w) -> good]
    /\ \A i, j \in 1..Len(w) : w[i] = w[j] => i = j
    /\ keep \in Nat
    /\ \/ keep > 0 /\ Len(w) = keep
       \/ \A g \in good : \E i \in 1..Len(w) : w[i] = g
    /\ \A i \in 1..Len(w) : \A g \in good :
          (\A j \in 1..Len(w) : w[j] # g) => ItemScore(b, w[i]) >= ItemScore(b, g)

LEMMA WinnersRanked ==
    ASSUME NEW b \in Batches, HasFurtherStage(b),
           \A k \in Good(b, b.stage) : b.items[k].job \in Jobs
    PROVE  RanksWinners(b)
<1> DEFINE good == Good(b, b.stage)
           R == {kl \in good \X good : Beats(b, kl[1], kl[2])}
           ranked == Ranked(good, R)
           keep == KeepTopN[b.stage + 1]
           n == Cardinality(good)
           w == rank_winners(b)
<1>1. IsFiniteSet(good) /\ good \subseteq Int
  <2>1. good \in SUBSET (1..Len(b.items))
    BY DEF Good, Positions
  <2>2. 1..Len(b.items) \subseteq Int
    OBVIOUS
  <2> HIDE DEF good
  <2> QED BY <2>1, <2>2, PositionsFinite, FS_Subset
<1>2. \A k \in good : ItemScore(b, k) \in Int
  BY BatchAssumption DEF ItemScore
<1>3. \A k, l \in good : <<k, l>> \in R <=> Beats(b, k, l)
  <2> HIDE DEF good
  <2> QED OBVIOUS
<1>4. Orders(R, good)
  <2> HIDE DEF good, R
  <2>1. \A k \in good : <<k, k>> \notin R
    BY <1>1, <1>2, <1>3 DEF Beats, ItemScore
  <2>2. ASSUME NEW k \in good, NEW l \in good, k # l PROVE <<k, l>> \in R \/ <<l, k>> \in R
    <3>1. \A x, y, p, q \in Int : x # y => \/ p > q \/ (p = q /\ x < y)
                                          \/ q > p \/ (q = p /\ y < x)
      OBVIOUS
    <3>2. k \in Int /\ l \in Int /\ ItemScore(b, k) \in Int /\ ItemScore(b, l) \in Int
      BY <1>1, <1>2
    <3>3. <<k, l>> \in R <=> \/ ItemScore(b, k) > ItemScore(b, l)
                             \/ ItemScore(b, k) = ItemScore(b, l) /\ k < l
      BY <1>3 DEF Beats, ItemScore
    <3>4. <<l, k>> \in R <=> \/ ItemScore(b, l) > ItemScore(b, k)
                             \/ ItemScore(b, l) = ItemScore(b, k) /\ l < k
      BY <1>3 DEF Beats, ItemScore
    <3> QED BY <2>2, <3>1, <3>2, <3>3, <3>4
  <2>3. ASSUME NEW k \in good, NEW l \in good, NEW m \in good, <<k, l>> \in R, <<l, m>> \in R
        PROVE  <<k, m>> \in R
    <3>1. \A x, y, z, p, q, r \in Int :
              /\ p > q \/ (p = q /\ x < y)
              /\ q > r \/ (q = r /\ y < z)
              => p > r \/ (p = r /\ x < z)
      OBVIOUS
    <3>2. k \in Int /\ l \in Int /\ m \in Int
      BY <1>1
    <3>3. ItemScore(b, k) \in Int /\ ItemScore(b, l) \in Int /\ ItemScore(b, m) \in Int
      BY <1>2
    <3>4. ItemScore(b, k) > ItemScore(b, l) \/ (ItemScore(b, k) = ItemScore(b, l) /\ k < l)
      BY <2>3, <1>3 DEF Beats, ItemScore
    <3>5. ItemScore(b, l) > ItemScore(b, m) \/ (ItemScore(b, l) = ItemScore(b, m) /\ l < m)
      BY <2>3, <1>3 DEF Beats, ItemScore
    <3>6. ItemScore(b, k) > ItemScore(b, m) \/ (ItemScore(b, k) = ItemScore(b, m) /\ k < m)
      BY <3>1, <3>2, <3>3, <3>4, <3>5
    <3>7. <<k, m>> \in R <=> \/ ItemScore(b, k) > ItemScore(b, m)
                             \/ ItemScore(b, k) = ItemScore(b, m) /\ k < m
      BY <1>3 DEF Beats, ItemScore
    <3> QED BY <3>6, <3>7
  <2> QED BY <2>1, <2>2, <2>3 DEF Orders
<1>5. /\ n \in Nat
      /\ ranked \in [1..n -> good]
      /\ \A k \in good : \E i \in 1..n : ranked[i] = k
      /\ \A i, j \in 1..n : i < j => <<ranked[i], ranked[j]>> \in R
  <2> HIDE DEF good, R
  <2> QED BY <1>1, <1>4, RankedLists
<1>6. ranked \in Seq(good) /\ Len(ranked) = n
  <2> HIDE DEF good, R, ranked, n
  <2> QED BY <1>5, IsSeq
<1>7. keep \in Nat
  <2>1. b.stage \in Nat /\ b.stage + 1 < Len(KeepTopN) /\ KeepTopN \in Seq(Nat)
    BY BatchAssumption DEF HasFurtherStage, Batches
  <2>2. b.stage + 1 \in 1..Len(KeepTopN)
    BY <2>1
  <2> QED BY <2>1, <2>2
<1>8. w = IF keep = 0 \/ keep >= n THEN ranked ELSE SubSeq(ranked, 1, keep)
  BY <1>6 DEF rank_winners, Good
<1> HIDE DEF good, R, ranked, keep, n, w
<1>9. \A i, j \in 1..n : ranked[i] = ranked[j] => i = j
  <2> SUFFICES ASSUME NEW i \in 1..n, NEW j \in 1..n, i # j PROVE ranked[i] # ranked[j]
    OBVIOUS
  <2>1. i < j \/ j < i
    BY <1>5
  <2> QED BY <2>1, <1>4, <1>5 DEF Orders
<1>10. \A i, j \in 1..n : i < j => ItemScore(b, ranked[i]) >= ItemScore(b, ranked[j])
  <2> SUFFICES ASSUME NEW i \in 1..n, NEW j \in 1..n, i < j
               PROVE  ItemScore(b, ranked[i]) >= ItemScore(b, ranked[j])
    OBVIOUS
  <2>1. ranked[i] \in good /\ ranked[j] \in good /\ <<ranked[i], ranked[j]>> \in R
    BY <1>5
  <2>2. \A p, q \in Int : p > q \/ p = q => p >= q
    OBVIOUS
  <2> QED BY <2>1, <2>2, <1>2, <1>3 DEF Beats, ItemScore
<1>11. CASE keep = 0 \/ keep >= n
  <2>1. w = ranked
    BY <1>8, <1>11
  <2> QED BY <2>1, <1>5, <1>6, <1>7, <1>9 DEF RanksWinners, good, keep, w
<1>12. CASE ~(keep = 0 \/ keep >= n)
  <2>1. w = SubSeq(ranked, 1, keep) /\ keep \in 1..n /\ keep > 0
    BY <1>8, <1>12, <1>7, <1>5
  <2>2. w = [i \in 1..keep |-> ranked[i]] /\ Len(w) = keep
    BY <2>1, <1>5, <1>6, <1>7
  <2>3. \A i \in 1..keep : i \in 1..n /\ w[i] = ranked[i] /\ ranked[i] \in good
    BY <2>1, <2>2, <1>5, <1>7
  <2>4. w \in [1..keep -> good]
    BY <2>2, <2>3
  <2>5. w \in Seq(good)
    BY <2>4, <1>7, IsSeq
  <2>6. ASSUME NEW i \in 1..keep, NEW g \in good, \A j \in 1..keep : w[j] # g
        PROVE  ItemScore(b, w[i]) >= ItemScore(b, g)
    <3>1. PICK j \in 1..n : ranked[j] = g
      BY <1>5
    <3>2. ~(j <= keep)
      BY <3>1, <2>3, <2>6, <1>5, <1>7
    <3>3. i < j /\ i \in 1..n
      BY <3>2, <2>3, <1>5, <1>7
    <3> QED BY <3>1, <3>3, <2>3, <1>10
  <2>7. \A i, j \in 1..keep : w[i] = w[j] => i = j
    BY <2>3, <1>9
  <2>8. /\ w \in Seq(good) /\ Len(w) \in Nat /\ w \in [1..Len(w) -> good]
        /\ \A i, j \in 1..Len(w) : w[i] = w[j] => i = j
        /\ keep > 0 /\ Len(w) = keep
        /\ \A i \in 1..Len(w) : \A g \in good :
              (\A j \in 1..Len(w) : w[j] # g) => ItemScore(b, w[i]) >= ItemScore(b, g)
    BY <2>1, <2>2, <2>4, <2>5, <2>6, <2>7, <1>7
  <2> QED BY <2>8, <1>7 DEF RanksWinners, good, keep, w
<1> QED
  BY <1>11, <1>12

RowsType == rows \in [Jobs -> JOB_STATUSES \cup {"absent"}]

\* The record c is b with the statuses of its items looked up again, or set by
\* a cancellation.
Restates(b, c) ==
    /\ b \in Batches /\ c \in Batches
    /\ c.stage = b.stage /\ DOMAIN c.items = DOMAIN b.items
    /\ b.cancelling => c.cancelling
    /\ \A k \in DOMAIN b.items :
          /\ c.items[k].stage = b.items[k].stage /\ c.items[k].from = b.items[k].from
          /\ c.items[k].job = b.items[k].job
          /\ \/ c.items[k].status = b.items[k].status
             \/ c.items[k].status = ItemStatus(b.items[k])
             \/ c.cancelling /\ c.items[k].status = IntentStatus(b.items[k])

\* _derive_status answers a status of a batch.
LEMMA DerivedStatus ==
    ASSUME NEW b PROVE derive_status(b) \in BATCH_STATUSES
<1> DEFINE total == Len(b.items)
           good  == CountStatus(b, {"succeeded"})
           done  == CountStatus(b, TERMINAL_JOB_STATUSES) = total
<1>1. CASE b.error # "none"
  BY <1>1 DEF derive_status, BATCH_STATUSES
<1>2. CASE b.error = "none"
  BY <1>2 DEF derive_status, BATCH_STATUSES
<1> QED BY <1>1, <1>2

\* ... and an item's own status is one of an item.
LEMMA ItemStatusType ==
    ASSUME RowsType, NEW item \in Items
    PROVE  ItemStatus(item) \in ITEM_STATUSES /\ IntentStatus(item) \in ITEM_STATUSES
  BY DEF RowsType, Items, ItemStatus, IntentStatus, ITEM_STATUSES, JOB_STATUSES

\* An update of the statuses of a record's items.
LEMMA Relabelled ==
    ASSUME NEW b \in Batches, NEW st, \A k \in DOMAIN b.items : st[k] \in ITEM_STATUSES,
           NEW its, its = [k \in DOMAIN b.items |-> [b.items[k] EXCEPT !.status = st[k]]]
    PROVE  /\ its \in Seq(Items) /\ DOMAIN its = DOMAIN b.items
           /\ \A k \in DOMAIN b.items :
                /\ its[k].stage = b.items[k].stage /\ its[k].from = b.items[k].from
                /\ its[k].job = b.items[k].job /\ its[k].status = st[k]
<1>1. /\ Len(b.items) \in Nat /\ DOMAIN b.items = 1..Len(b.items)
      /\ \A k \in DOMAIN b.items : b.items[k] \in Items
  BY PositionsFinite
<1>2. \A k \in DOMAIN b.items : [b.items[k] EXCEPT !.status = st[k]] \in Items
  BY <1>1 DEF Items
<1>3. its \in [1..Len(b.items) -> Items]
  BY <1>1, <1>2
<1>4. its \in Seq(Items) /\ DOMAIN its = DOMAIN b.items
  BY <1>1, <1>3, IsSeq
<1>5. \A k \in DOMAIN b.items :
          /\ its[k].stage = b.items[k].stage /\ its[k].from = b.items[k].from
          /\ its[k].job = b.items[k].job /\ its[k].status = st[k]
  BY <1>1 DEF Items
<1> QED BY <1>4, <1>5

\* _recompute looks the statuses up.
LEMMA RecomputeRestates ==
    ASSUME RowsType, NEW b \in Batches
    PROVE  /\ Restates(b, Recompute(b))
           /\ Recompute(b).cancelling = b.cancelling
           /\ \A k \in DOMAIN b.items : Recompute(b).items[k].status = ItemStatus(b.items[k])
<1> DEFINE st == [k \in DOMAIN b.items |-> ItemStatus(b.items[k])]
           its == [k \in DOMAIN b.items |-> [b.items[k] EXCEPT !.status = ItemStatus(b.items[k])]]
           seen == [b EXCEPT !.items = its]
           c == Recompute(b)
<1>1. \A k \in DOMAIN b.items : st[k] \in ITEM_STATUSES /\ st[k] = ItemStatus(b.items[k])
  BY PositionsFinite, ItemStatusType
<1>2. its = [k \in DOMAIN b.items |-> [b.items[k] EXCEPT !.status = st[k]]]
  OBVIOUS
<1>3. /\ its \in Seq(Items) /\ DOMAIN its = DOMAIN b.items
      /\ \A k \in DOMAIN b.items :
                /\ its[k].stage = b.items[k].stage /\ its[k].from = b.items[k].from
                /\ its[k].job = b.items[k].job /\ its[k].status = st[k]
  <2> HIDE DEF st, its
  <2> QED BY <1>1, <1>2, Relabelled
<1>4. c = [seen EXCEPT !.status = derive_status(seen)]
  BY DEF Recompute
<1> HIDE DEF its
<1>5. seen \in Batches
  BY <1>3 DEF Batches
<1>6. seen.items = its /\ seen.stage = b.stage /\ seen.cancelling = b.cancelling
  BY DEF Batches
<1> HIDE DEF seen
<1>7. c \in Batches /\ c.items = its /\ c.stage = b.stage /\ c.cancelling = b.cancelling
  BY <1>4, <1>5, <1>6, DerivedStatus DEF Batches
<1> HIDE DEF c, st
<1>8. Restates(b, c)
  BY <1>1, <1>3, <1>7 DEF Restates
<1> QED BY <1>1, <1>3, <1>7, <1>8 DEF c

\* A change of the record's own status and error is not seen in its items.
LEMMA RestatesWithError ==
    ASSUME NEW b, NEW c, Restates(b, c), NEW e \in {"none", "advance", "materialize"},
           NEW x \in BATCH_STATUSES
    PROVE  /\ Restates(b, [c EXCEPT !.error = e, !.status = x])
           /\ Restates(b, [c EXCEPT !.error = e])
<1>1. /\ [c EXCEPT !.error = e, !.status = x] \in Batches
      /\ [c EXCEPT !.error = e] \in Batches
  BY DEF Restates, Batches
<1>2. /\ [c EXCEPT !.error = e, !.status = x].items = c.items
      /\ [c EXCEPT !.error = e].items = c.items
      /\ [c EXCEPT !.error = e, !.status = x].stage = c.stage
      /\ [c EXCEPT !.error = e].stage = c.stage
      /\ [c EXCEPT !.error = e, !.status = x].cancelling = c.cancelling
      /\ [c EXCEPT !.error = e].cancelling = c.cancelling
  BY DEF Restates, Batches
<1> QED BY <1>1, <1>2 DEF Restates

\* A record restates itself.
LEMMA RestatesItself == ASSUME NEW b \in Batches PROVE Restates(b, b)
  BY DEF Restates

\* A user's promotion of an item, saved with looked-up statuses.
LEMMA PromotionRestates ==
    ASSUME RowsType, NEW b \in Batches, NEW i \in DOMAIN b.items
    PROVE  Restates(b, Recompute([b EXCEPT !.items[i].promoted = TRUE]))
<1> DEFINE d == [b EXCEPT !.items[i].promoted = TRUE]
<1>1. /\ Len(b.items) \in Nat /\ DOMAIN b.items = 1..Len(b.items)
      /\ \A k \in DOMAIN b.items : b.items[k] \in Items
      /\ b.items \in Seq(Items)
  BY PositionsFinite
<1>2. d.items = [b.items EXCEPT ![i].promoted = TRUE] /\ d.stage = b.stage
      /\ d.cancelling = b.cancelling
  BY DEF Batches
<1>3. \A k \in DOMAIN b.items :
          /\ d.items[k] \in Items
          /\ d.items[k].stage = b.items[k].stage /\ d.items[k].from = b.items[k].from
          /\ d.items[k].job = b.items[k].job /\ d.items[k].status = b.items[k].status
  <2> SUFFICES ASSUME NEW k \in DOMAIN b.items
               PROVE  /\ d.items[k] \in Items
                      /\ d.items[k].stage = b.items[k].stage /\ d.items[k].from = b.items[k].from
                      /\ d.items[k].job = b.items[k].job /\ d.items[k].status = b.items[k].status
    OBVIOUS
  <2>1. CASE k = i
    <3>1. d.items[k] = [b.items[k] EXCEPT !.promoted = TRUE]
      BY <1>1, <1>2, <2>1
    <3>2. b.items[k] \in Items
      BY <1>1
    <3> HIDE DEF d
    <3> QED BY <3>1, <3>2 DEF Items
  <2>2. CASE k # i
    <3>1. d.items[k] = b.items[k]
      BY <1>1, <1>2, <2>2
    <3> QED BY <1>1, <3>1
  <2> QED BY <2>1, <2>2
<1>4. d.items \in [1..Len(b.items) -> Items] /\ DOMAIN d.items = DOMAIN b.items
  BY <1>1, <1>2, <1>3
<1>5. d.items \in Seq(Items)
  BY <1>1, <1>4, IsSeq
<1>6. d \in Batches
  BY <1>2, <1>5 DEF Batches
<1>7. \A k \in DOMAIN b.items : ItemStatus(d.items[k]) = ItemStatus(b.items[k])
  BY <1>3 DEF ItemStatus
<1> HIDE DEF d
<1>8. Restates(d, Recompute(d)) /\ \A k \in DOMAIN d.items : Recompute(d).items[k].status = ItemStatus(d.items[k])
  BY <1>6, RecomputeRestates
<1> DEFINE c == Recompute(d)
<1>9. /\ c \in Batches /\ c.stage = d.stage /\ DOMAIN c.items = DOMAIN d.items
      /\ d.cancelling => c.cancelling
      /\ \A k \in DOMAIN d.items :
            /\ c.items[k].stage = d.items[k].stage /\ c.items[k].from = d.items[k].from
            /\ c.items[k].job = d.items[k].job
  BY <1>8 DEF Restates
<1>a. \A k \in DOMAIN d.items : c.items[k].status = ItemStatus(d.items[k])
  BY <1>8
<1>b. d.stage = b.stage /\ d.cancelling = b.cancelling
  BY <1>2
<1> HIDE DEF c
<1>10. Restates(b, c)
  <2>1. DOMAIN c.items = DOMAIN b.items
    BY <1>4, <1>9
  <2>2. \A k \in DOMAIN b.items :
          /\ c.items[k].stage = b.items[k].stage /\ c.items[k].from = b.items[k].from
          /\ c.items[k].job = b.items[k].job /\ c.items[k].status = ItemStatus(b.items[k])
    BY <1>3, <1>4, <1>7, <1>9, <1>a
  <2> QED BY <1>9, <1>b, <2>1, <2>2 DEF Restates
<1> QED
  BY <1>10 DEF c, d

\* What _apply_cancellation_intent saves.
LEMMA IntentRestates ==
    ASSUME RowsType, NEW b \in Batches, NEW c,
           c = [b EXCEPT !.cancelling = TRUE,
                         !.items = [k \in DOMAIN @ |->
                                      [@[k] EXCEPT !.status = IntentStatus(b.items[k])]]]
    PROVE  Restates(b, c)
<1> DEFINE st == [k \in DOMAIN b.items |-> IntentStatus(b.items[k])]
           its == [k \in DOMAIN b.items |-> [b.items[k] EXCEPT !.status = IntentStatus(b.items[k])]]
<1>1. \A k \in DOMAIN b.items : st[k] \in ITEM_STATUSES /\ st[k] = IntentStatus(b.items[k])
  BY PositionsFinite, ItemStatusType
<1>2. its = [k \in DOMAIN b.items |-> [b.items[k] EXCEPT !.status = st[k]]]
  OBVIOUS
<1>3. /\ its \in Seq(Items) /\ DOMAIN its = DOMAIN b.items
      /\ \A k \in DOMAIN b.items :
                /\ its[k].stage = b.items[k].stage /\ its[k].from = b.items[k].from
                /\ its[k].job = b.items[k].job /\ its[k].status = st[k]
  <2> HIDE DEF st, its
  <2> QED BY <1>1, <1>2, Relabelled
<1>4. c = [b EXCEPT !.cancelling = TRUE, !.items = its]
  OBVIOUS
<1> HIDE DEF its, st
<1>5. c \in Batches /\ c.items = its /\ c.stage = b.stage /\ c.cancelling
  BY <1>3, <1>4 DEF Batches
<1> QED
  BY <1>1, <1>3, <1>5 DEF Restates

\* The record c is b in its next stage, the open items of which follow b's winners.
Advances(b, c) ==
    /\ b \in Batches /\ c \in Batches
    /\ c.stage = b.stage + 1 /\ ~b.cancelling /\ ~c.cancelling
    /\ DOMAIN b.items \subseteq DOMAIN c.items
    /\ \A k \in DOMAIN b.items : c.items[k] = b.items[k]
    /\ \A k \in DOMAIN c.items \ DOMAIN b.items :
          c.items[k].job = 0 /\ c.items[k].status = "pending" /\ c.items[k].stage = c.stage
    /\ \A k \in Positions(b, b.stage) : is_terminal_status(b.items[k].status)
    /\ StageFollows(c, b.stage)

\* What _try_advance_in_place makes of a record whose stage is over.
LEMMA AdvancedAdvances ==
    ASSUME NEW b \in Batches, AdvanceDue(b),
           \A k \in Good(b, b.stage) : b.items[k].job \in Jobs,
           \A k \in DOMAIN b.items : b.items[k].stage <= b.stage
    PROVE  Advances(b, Advanced(b))
<1> DEFINE w == rank_winners(b)
           good == Good(b, b.stage)
           keep == KeepTopN[b.stage + 1]
           n == Len(w)
           L == Len(b.items)
           new == [i \in 1..n |-> NewItem(b.stage + 1, w[i])]
           c == Advanced(b)
<1>1. HasFurtherStage(b) /\ ~b.cancelling /\ w # <<>>
      /\ \A k \in Positions(b, b.stage) : is_terminal_status(b.items[k].status)
  BY DEF AdvanceDue
<1>2. RanksWinners(b)
  BY <1>1, WinnersRanked
<1>3. /\ w \in Seq(good) /\ n \in Nat /\ w \in [1..n -> good]
      /\ \A i, j \in 1..n : w[i] = w[j] => i = j
      /\ keep \in Nat
      /\ \/ keep > 0 /\ n = keep
         \/ \A g \in good : \E i \in 1..n : w[i] = g
      /\ \A i \in 1..n : \A g \in good :
            (\A j \in 1..n : w[j] # g) => ItemScore(b, w[i]) >= ItemScore(b, g)
  <2> HIDE DEF w, good
  <2> QED BY <1>2 DEF RanksWinners, w, good
<1>4. /\ L \in Nat /\ DOMAIN b.items = 1..L /\ b.items \in Seq(Items)
      /\ IsFiniteSet(1..L)
      /\ \A k \in DOMAIN b.items : b.items[k] \in Items /\ b.items[k].stage \in Nat
  BY PositionsFinite
<1>5. good \subseteq 1..L /\ good \subseteq Nat /\ good \subseteq DOMAIN b.items
  BY <1>4 DEF Good, Positions
<1>6. b.stage \in Nat
  BY DEF Batches
<1> HIDE DEF w, good, keep, n, L
<1>7. n > 0
  <2>1. n \in Nat \ {0}
    BY <1>1, <1>3, EmptySeq DEF n
  <2> QED BY <2>1
<1>8. new \in [1..n -> Items]
  <2>1. \A i \in 1..n : w[i] \in Nat
    BY <1>3, <1>5
  <2> QED BY <2>1, <1>6 DEF NewItem, Items, ITEM_STATUSES
<1>9. new \in Seq(Items) /\ Len(new) = n
  <2> HIDE DEF new
  <2> QED BY <1>3, <1>8, IsSeq
<1>10. c = [b EXCEPT !.error = "none", !.items = b.items \o new, !.stage = b.stage + 1]
  BY DEF Advanced, n, w
<1> HIDE DEF c
<1>11. /\ b.items \o new \in Seq(Items)
       /\ Len(b.items \o new) = L + n
       /\ \A k \in 1..L : (b.items \o new)[k] = b.items[k]
       /\ \A k \in (L + 1)..(L + n) : (b.items \o new)[k] = new[k - L]
  <2> DEFINE z == b.items \o new
  <2> HIDE DEF new
  <2>1. /\ z \in Seq(Items) /\ Len(z) = L + n
        /\ \A i \in 1..(L + n) : z[i] = IF i <= L THEN b.items[i] ELSE new[i - L]
    BY <1>4, <1>9, ConcatProperties DEF L
  <2> HIDE DEF z
  <2>2. \A k \in 1..L : k \in 1..(L + n) /\ k <= L
    BY <1>3, <1>4
  <2>3. \A k \in (L + 1)..(L + n) : k \in 1..(L + n) /\ ~(k <= L)
    BY <1>3, <1>4
  <2> QED BY <2>1, <2>2, <2>3 DEF z
<1>12. /\ c \in Batches
       /\ c.items = b.items \o new /\ c.stage = b.stage + 1 /\ c.cancelling = b.cancelling
  <2> DEFINE z == b.items \o new
  <2>1. c = [b EXCEPT !.error = "none", !.items = z, !.stage = b.stage + 1]
    BY <1>10
  <2>2. z \in Seq(Items) /\ b.stage + 1 \in Nat
    BY <1>6, <1>11
  <2> HIDE DEF z
  <2>3. c \in Batches /\ c.items = z /\ c.stage = b.stage + 1 /\ c.cancelling = b.cancelling
    BY <2>1, <2>2 DEF Batches
  <2> QED BY <2>3 DEF z
<1>13. /\ DOMAIN c.items = 1..(L + n) /\ DOMAIN b.items \subseteq DOMAIN c.items
       /\ \A k \in DOMAIN b.items : c.items[k] = b.items[k]
  <2> HIDE DEF new
  <2> QED BY <1>3, <1>4, <1>11, <1>12
<1>14. ASSUME NEW k \in DOMAIN c.items \ DOMAIN b.items
       PROVE  /\ c.items[k].job = 0 /\ c.items[k].status = "pending"
              /\ c.items[k].stage = b.stage + 1
              /\ k - L \in 1..n /\ c.items[k].from = w[k - L]
  <2>1. k - L \in 1..n /\ L + (k - L) = k
    BY <1>3, <1>4, <1>13
  <2>2. c.items[k] = new[k - L]
    <3>1. k \in (L + 1)..(L + n)
      BY <1>3, <1>4, <1>13
    <3> HIDE DEF new
    <3> QED BY <3>1, <1>11, <1>12
  <2> QED BY <2>1, <2>2 DEF NewItem
<1>15. Positions(b, b.stage) = Positions(c, b.stage)
  <2>1. ASSUME NEW k \in DOMAIN c.items \ DOMAIN b.items PROVE c.items[k].stage # b.stage
    BY <1>6, <1>14
  <2>2. 1..Len(c.items) = DOMAIN c.items /\ 1..Len(b.items) = DOMAIN b.items
    BY <1>4, <1>12, PositionsFinite DEF L
  <2> QED BY <2>1, <2>2, <1>13 DEF Positions
<1>16. Positions(c, b.stage + 1) = (L + 1)..(L + n)
  <2>1. \A k \in DOMAIN b.items : b.items[k].stage # b.stage + 1
    BY <1>4, <1>6
  <2>2. 1..Len(c.items) = DOMAIN c.items
    BY <1>12, PositionsFinite
  <2>3. Positions(c, b.stage + 1) = DOMAIN c.items \ DOMAIN b.items
    BY <2>1, <2>2, <1>13, <1>14 DEF Positions
  <2>4. (1..(L + n)) \ (1..L) = (L + 1)..(L + n)
    BY <1>3, <1>4
  <2> QED BY <2>3, <2>4, <1>4, <1>13
<1>17. StageFollows(c, b.stage)
  <2> DEFINE next == Positions(c, b.stage + 1)
             chosen == {c.items[k].from : k \in next}
  <2>1. chosen = {w[i] : i \in 1..n}
    <3>1. ASSUME NEW k \in next PROVE k - L \in 1..n /\ c.items[k].from = w[k - L]
      <4>1. k \in DOMAIN c.items \ DOMAIN b.items
        BY <1>3, <1>4, <1>13, <1>16
      <4> QED BY <4>1, <1>14
    <3>2. \A i \in 1..n : L + i \in next /\ (L + i) - L = i
      BY <1>3, <1>4, <1>16
    <3> HIDE DEF next
    <3>3. \A i \in 1..n : w[i] = c.items[L + i].from
      BY <3>1, <3>2
    <3> QED BY <3>1, <3>2, <3>3
  <2>2. Cardinality(next) = n
    <3>1. L + 1 \in Int /\ L + n \in Int
      BY <1>3, <1>4
    <3>2. Cardinality((L + 1)..(L + n)) = IF L + 1 > L + n THEN 0 ELSE (L + n) - (L + 1) + 1
      BY <3>1, FS_Interval
    <3> QED BY <3>2, <1>3, <1>4, <1>7, <1>16
  <2>3. Cardinality(chosen) = n
    <3>1. IsFiniteSet(1..n) /\ Cardinality(1..n) = n
      <4>1. 1 \in Int /\ n \in Int
        BY <1>3
      <4>2. IsFiniteSet(1..n) /\ Cardinality(1..n) = IF 1 > n THEN 0 ELSE n - 1 + 1
        BY <4>1, FS_Interval
      <4> QED BY <4>2, <1>3
    <3> HIDE DEF chosen
    <3>2. \A i \in 1..n : w[i] \in chosen
      BY <2>1
    <3>3. w \in [1..n -> chosen]
      BY <1>3, <3>2
    <3>4. \A x \in chosen : \E i \in 1..n : w[i] = x
      BY <2>1
    <3>5. w \in Surjection(1..n, chosen) /\ w \in Injection(1..n, chosen)
      BY <1>3, <3>3, <3>4 DEF Surjection, Injection, IsInjective
    <3> QED BY <3>1, <3>5, FS_Surjection
  <2>4. next # {}
    <3>1. L + 1 \in (L + 1)..(L + n)
      BY <1>3, <1>4, <1>7
    <3> QED BY <3>1, <1>16
  <2>5. chosen \subseteq good
    <3> HIDE DEF chosen
    <3>1. \A i \in 1..n : w[i] \in good
      BY <1>3
    <3> QED BY <2>1, <3>1
  <2>6. good = {k \in Positions(c, b.stage) : c.items[k].status = "succeeded"}
    BY <1>13, <1>15, <1>4 DEF Good, good, Positions, L
  <2>7. \A k \in Positions(c, b.stage) : is_terminal_status(c.items[k].status)
    BY <1>1, <1>4, <1>13, <1>15 DEF Positions, L
  <2>8. (\A g \in good : \E i \in 1..n : w[i] = g) => chosen = good
    BY <2>1, <2>5
  <2>9. /\ keep = 0 => chosen = good
        /\ keep > 0 => Cardinality(chosen) = keep \/ chosen = good
    BY <1>3, <2>3, <2>8
  <2>10. ASSUME NEW x \in chosen, NEW g \in good \ chosen
         PROVE  Score[c.items[x].job] >= Score[c.items[g].job]
    <3>1. PICK i \in 1..n : x = w[i]
      BY <2>1
    <3>2. \A j \in 1..n : w[j] # g
      BY <2>1
    <3>3. ItemScore(b, x) >= ItemScore(b, g)
      BY <3>1, <3>2, <1>3
    <3> QED BY <3>3, <2>5, <1>5, <1>13 DEF ItemScore
  <2> HIDE DEF next
  <2>11. Cardinality(chosen) = Cardinality(next)
    BY <2>2, <2>3
  <2> QED BY <2>4, <2>5, <2>6, <2>7, <2>9, <2>10, <2>11 DEF StageFollows, keep, next
<1> QED
  BY <1>1, <1>12, <1>13, <1>14, <1>17 DEF Advances, c

\* In c the items of b have the ids they had or fresh ones, m+1 to n, one each.
Assigns(b, c, m, n) ==
    /\ b \in Batches /\ c \in Batches
    /\ c.stage = b.stage /\ c.cancelling = b.cancelling
    /\ DOMAIN c.items = DOMAIN b.items
    /\ m \in Nat /\ n \in Nat /\ m <= n /\ n <= MaxJobs
    /\ \A k \in DOMAIN b.items :
          /\ c.items[k].stage = b.items[k].stage /\ c.items[k].from = b.items[k].from
          /\ c.items[k].status = b.items[k].status
          /\ \/ c.items[k].job = b.items[k].job
             \/ b.items[k].job = 0 /\ c.items[k].job \in (m + 1)..n
    /\ \A j \in (m + 1)..n : \E k \in DOMAIN b.items : c.items[k].job = j
    /\ \A k, l \in DOMAIN b.items :
          c.items[k].job = c.items[l].job /\ c.items[k].job \in (m + 1)..n => k = l

\* The ids _enqueue_stage draws.
LEMMA WithIdsAssigns ==
    ASSUME NEW b \in Batches, NEW s, minted \in Nat,
           \A k \in DOMAIN b.items : b.items[k].job \in 0..minted,
           minted + Cardinality(NeedsId(b, s)) <= MaxJobs
    PROVE  Assigns(b, WithIds(b, s), minted, minted + Cardinality(NeedsId(b, s)))
<1> DEFINE needy == NeedsId(b, s)
           count(k) == Cardinality({l \in needy : l <= k})
           n == minted + Cardinality(needy)
           its == [k \in DOMAIN b.items |->
                     IF k \in needy THEN [b.items[k] EXCEPT !.job = minted + count(k)]
                                    ELSE b.items[k]]
           c == WithIds(b, s)
<1>1. /\ Len(b.items) \in Nat /\ DOMAIN b.items = 1..Len(b.items)
      /\ \A k \in DOMAIN b.items : b.items[k] \in Items
      /\ IsFiniteSet(1..Len(b.items))
  BY PositionsFinite
<1>2. /\ needy \in SUBSET (1..Len(b.items)) /\ needy \subseteq Int
      /\ \A k \in needy : b.items[k].job = 0
  BY <1>1 DEF NeedsId, Positions
<1>3. IsFiniteSet(needy)
  <2> HIDE DEF needy
  <2> QED BY <1>1, <1>2, FS_Subset
<1>4. c = [b EXCEPT !.items = its]
  BY DEF WithIds
<1> HIDE DEF needy, c
<1>5. /\ Cardinality(needy) \in Nat
      /\ \A k \in needy : count(k) \in 1..Cardinality(needy)
      /\ \A k, l \in needy : count(k) = count(l) => k = l
      /\ \A i \in 1..Cardinality(needy) : \E k \in needy : count(k) = i
  BY <1>2, <1>3, CountsNumber
<1>6. n \in Nat /\ minted <= n /\ n <= MaxJobs /\ MaxJobs \in Nat
  BY <1>5, BatchAssumption DEF needy
<1> HIDE DEF count
<1>7. \A k \in needy : minted + count(k) \in (minted + 1)..n /\ minted + count(k) \in Jobs
  BY <1>5, <1>6 DEF Jobs
<1>8. \A k \in DOMAIN b.items :
          /\ its[k] \in Items
          /\ its[k].stage = b.items[k].stage /\ its[k].from = b.items[k].from
          /\ its[k].status = b.items[k].status
          /\ k \in needy => its[k].job = minted + count(k)
          /\ k \notin needy => its[k].job = b.items[k].job
  <2> SUFFICES ASSUME NEW k \in DOMAIN b.items
               PROVE  /\ its[k] \in Items
                      /\ its[k].stage = b.items[k].stage /\ its[k].from = b.items[k].from
                      /\ its[k].status = b.items[k].status
                      /\ k \in needy => its[k].job = minted + count(k)
                      /\ k \notin needy => its[k].job = b.items[k].job
    OBVIOUS
  <2>1. b.items[k] \in Items
    BY <1>1
  <2>2. CASE k \in needy
    <3>1. its[k] = [b.items[k] EXCEPT !.job = minted + count(k)]
      BY <2>2
    <3>2. minted + count(k) \in Jobs
      BY <2>2, <1>7
    <3> HIDE DEF its
    <3> QED BY <2>1, <2>2, <3>1, <3>2 DEF Items
  <2>3. CASE k \notin needy
    BY <2>1, <2>3
  <2> QED BY <2>2, <2>3
<1>9. its \in [1..Len(b.items) -> Items] /\ DOMAIN its = DOMAIN b.items
  BY <1>1, <1>8
<1> HIDE DEF its
<1>10. its \in Seq(Items)
  BY <1>1, <1>9, IsSeq
<1>11. c \in Batches /\ c.items = its /\ c.stage = b.stage /\ c.cancelling = b.cancelling
  BY <1>4, <1>10 DEF Batches
<1>12. \A k \in DOMAIN b.items :
           k \notin needy => its[k].job \notin (minted + 1)..n
  <2>1. \A j \in 0..minted : j \notin (minted + 1)..n
    BY <1>6
  <2> QED BY <2>1, <1>8
<1>13. \A j \in (minted + 1)..n : \E k \in DOMAIN b.items : its[k].job = j
  <2> SUFFICES ASSUME NEW j \in (minted + 1)..n PROVE \E k \in DOMAIN b.items : its[k].job = j
    OBVIOUS
  <2>1. j - minted \in 1..Cardinality(needy) /\ minted + (j - minted) = j
    BY <1>5, <1>6
  <2>2. PICK k \in needy : count(k) = j - minted
    BY <2>1, <1>5
  <2> QED BY <2>1, <2>2, <1>1, <1>2, <1>8
<1>14. ASSUME NEW k \in DOMAIN b.items, NEW l \in DOMAIN b.items,
              its[k].job = its[l].job, its[k].job \in (minted + 1)..n
       PROVE  k = l
  <2>1. k \in needy /\ l \in needy
    BY <1>12, <1>14
  <2>2. minted + count(k) = minted + count(l)
    BY <2>1, <1>8, <1>14
  <2>3. \A x, y \in 1..Cardinality(needy) : minted + x = minted + y => x = y
    BY <1>5
  <2>4. count(k) = count(l)
    BY <2>1, <2>2, <2>3, <1>5
  <2> QED BY <2>1, <2>4, <1>5
<1>15. Assigns(b, c, minted, n)
  BY <1>2, <1>6, <1>7, <1>8, <1>9, <1>11, <1>13, <1>14 DEF Assigns
<1> QED BY <1>15 DEF c, needy

-----------------------------------------------------------------------------
(* The invariant of a record, and what keeps it *)

OutcomesOf(b, r) ==
    \A k \in DOMAIN b.items :
        /\ is_terminal_status(b.items[k].status)
        /\ b.items[k].status = "cancelled" => ~b.cancelling \/ b.items[k].stage < b.stage
        => b.items[k].job # 0 /\ r[b.items[k].job] = b.items[k].status

OwnedOnce(b, n) ==
    /\ \A k \in DOMAIN b.items : b.items[k].job \in 0..n
    /\ \A j \in 1..n : \E k \in DOMAIN b.items : b.items[k].job = j
    /\ \A k, l \in DOMAIN b.items :
          b.items[k].job = b.items[l].job /\ b.items[k].job # 0 => k = l

OrderedOf(b)  == \A k \in DOMAIN b.items : b.items[k].stage <= b.stage
FollowedOf(b) == \A s \in 0..(b.stage - 1) : StageFollows(b, s)

\* The record b is sound when the rows are r and n ids were drawn.
Sound(b, r, n) ==
    /\ b \in Batches /\ n \in Nat
    /\ OutcomesOf(b, r) /\ OwnedOnce(b, n) /\ OrderedOf(b) /\ FollowedOf(b)

\* What follows from a finished stage does not depend on what is added later.
LEMMA FollowsKept ==
    ASSUME NEW b \in Batches, NEW c \in Batches, NEW s \in Nat, StageFollows(b, s),
           DOMAIN b.items \subseteq DOMAIN c.items,
           \A k \in DOMAIN b.items :
              /\ c.items[k].stage = b.items[k].stage /\ c.items[k].from = b.items[k].from
              /\ c.items[k].stage = s => /\ c.items[k].status = b.items[k].status
                                         /\ c.items[k].job = b.items[k].job,
           \A k \in DOMAIN c.items \ DOMAIN b.items :
              c.items[k].stage # s /\ c.items[k].stage # s + 1
    PROVE  StageFollows(c, s)
<1>1. /\ DOMAIN b.items = 1..Len(b.items) /\ DOMAIN c.items = 1..Len(c.items)
  BY PositionsFinite
<1>2. /\ Positions(c, s) = Positions(b, s) /\ Positions(c, s + 1) = Positions(b, s + 1)
      /\ Positions(b, s) \subseteq DOMAIN b.items /\ Positions(b, s + 1) \subseteq DOMAIN b.items
  BY <1>1 DEF Positions
<1>3. \A k \in Positions(b, s) : /\ c.items[k].status = b.items[k].status
                                /\ c.items[k].job = b.items[k].job
  BY <1>1 DEF Positions
<1>4. \A k \in Positions(b, s + 1) : c.items[k].from = b.items[k].from
  BY <1>2
<1> DEFINE P == Positions(b, s)
           N == Positions(b, s + 1)
<1>5. {k \in P : c.items[k].status = "succeeded"} = {k \in P : b.items[k].status = "succeeded"}
  BY <1>3
<1>6. {c.items[k].from : k \in N} = {b.items[k].from : k \in N}
  BY <1>4
<1> DEFINE good == {k \in P : b.items[k].status = "succeeded"}
           chosen == {b.items[k].from : k \in N}
<1>7. /\ \A k \in P : is_terminal_status(b.items[k].status)
      /\ N # {} /\ chosen \subseteq good
      /\ Cardinality(chosen) = Cardinality(N)
      /\ KeepTopN[s + 1] = 0 => chosen = good
      /\ KeepTopN[s + 1] > 0 => \/ Cardinality(chosen) = KeepTopN[s + 1]
                               \/ chosen = good
      /\ \A x \in chosen, g \in good \ chosen :
            Score[b.items[x].job] >= Score[b.items[g].job]
  BY DEF StageFollows
<1>8. \A x \in good : c.items[x].job = b.items[x].job
  BY <1>3
<1> HIDE DEF P, N
<1>9. /\ \A k \in P : is_terminal_status(c.items[k].status)
      /\ \A x \in chosen, g \in good \ chosen :
            Score[c.items[x].job] >= Score[c.items[g].job]
  <2>1. \A k \in P : is_terminal_status(c.items[k].status)
    BY <1>3, <1>7 DEF P
  <2> HIDE DEF good, chosen
  <2>2. ASSUME NEW x \in chosen, NEW g \in good \ chosen
        PROVE  Score[c.items[x].job] >= Score[c.items[g].job]
    BY <1>7, <1>8
  <2> QED BY <2>1, <2>2
<1> HIDE DEF good, chosen
<1> QED
  BY <1>2, <1>5, <1>6, <1>7, <1>9 DEF StageFollows, P, N, good, chosen

\* Rows that are finished stay as they are, and new ones have a drawn id.
RowMoves ==
    \A j \in Jobs :
        \/ rows'[j] = rows[j]
        \/ rows[j] = "absent" /\ rows'[j] = "queued" /\ j \in 1..minted
        \/ rows[j] \notin TERMINAL_JOB_STATUSES \cup {"absent"} /\ rows'[j] \in JOB_STATUSES

LEMMA RowsKeep ==
    ASSUME NEW b, NEW n, Sound(b, rows, n), RowMoves
    PROVE  Sound(b, rows', n)
<1>1. OutcomesOf(b, rows')
  <2> SUFFICES ASSUME NEW k \in DOMAIN b.items,
                      is_terminal_status(b.items[k].status),
                      b.items[k].status = "cancelled" => ~b.cancelling \/ b.items[k].stage < b.stage
               PROVE  b.items[k].job # 0 /\ rows'[b.items[k].job] = b.items[k].status
    BY DEF OutcomesOf
  <2>1. b.items[k].job # 0 /\ rows[b.items[k].job] = b.items[k].status
    BY DEF Sound, OutcomesOf
  <2>2. b.items[k].job \in Jobs
    BY <2>1, PositionsFinite DEF Sound
  <2> QED BY <2>1, <2>2 DEF RowMoves, is_terminal_status, TERMINAL_JOB_STATUSES
<1> QED BY <1>1 DEF Sound

\* A past item is over, and reads as its row does.
LEMMA PastIsOver ==
    ASSUME NEW b, NEW r, NEW n, Sound(b, r, n), NEW k \in DOMAIN b.items,
           b.items[k].stage < b.stage
    PROVE  /\ is_terminal_status(b.items[k].status)
           /\ b.items[k].job # 0 /\ r[b.items[k].job] = b.items[k].status
<1>1. b.items[k].stage \in 0..(b.stage - 1) /\ k \in 1..Len(b.items)
  BY PositionsFinite DEF Sound, Batches
<1>2. k \in Positions(b, b.items[k].stage)
  BY <1>1 DEF Positions
<1>3. is_terminal_status(b.items[k].status)
  BY <1>1, <1>2 DEF Sound, FollowedOf, StageFollows
<1> QED BY <1>3 DEF Sound, OutcomesOf

LEMMA RestatedKeeps ==
    ASSUME NEW b, NEW c, NEW n, Restates(b, c), Sound(b, rows, n)
    PROVE  /\ Sound(c, rows, n)
           /\ \A k \in DOMAIN b.items :
                b.items[k].status \in {"succeeded", "failed"} =>
                    c.items[k].status = b.items[k].status
<1>1. /\ b \in Batches /\ c \in Batches /\ b.stage \in Nat
      /\ c.stage = b.stage /\ DOMAIN c.items = DOMAIN b.items
      /\ b.cancelling => c.cancelling
      /\ \A k \in DOMAIN b.items :
          /\ c.items[k].stage = b.items[k].stage /\ c.items[k].from = b.items[k].from
          /\ c.items[k].job = b.items[k].job
  BY DEF Restates, Batches
<1>2. ASSUME NEW k \in DOMAIN b.items,
             is_terminal_status(b.items[k].status),
             b.items[k].status = "cancelled" => ~b.cancelling \/ b.items[k].stage < b.stage
      PROVE  c.items[k].status = b.items[k].status
  <2>1. b.items[k].job # 0 /\ rows[b.items[k].job] = b.items[k].status
    BY <1>2 DEF Sound, OutcomesOf
  <2>2. ItemStatus(b.items[k]) = b.items[k].status /\ IntentStatus(b.items[k]) = b.items[k].status
    BY <1>2, <2>1 DEF ItemStatus, IntentStatus
  <2> QED BY <2>2 DEF Restates
<1>3. OutcomesOf(c, rows)
  <2> SUFFICES ASSUME NEW k \in DOMAIN b.items,
                      is_terminal_status(c.items[k].status),
                      c.items[k].status = "cancelled" => ~c.cancelling \/ c.items[k].stage < c.stage
               PROVE  c.items[k].job # 0 /\ rows[c.items[k].job] = c.items[k].status
    BY <1>1 DEF OutcomesOf
  <2>1. CASE c.items[k].status = b.items[k].status
    BY <2>1, <1>1 DEF Sound, OutcomesOf
  <2>2. CASE c.items[k].status = ItemStatus(b.items[k]) /\ c.items[k].status # b.items[k].status
    BY <2>2, <1>1 DEF ItemStatus
  <2>3. CASE /\ c.cancelling /\ c.items[k].status = IntentStatus(b.items[k])
             /\ c.items[k].status # b.items[k].status
    <3>1. c.items[k].status = "cancelled"
      BY <2>3 DEF IntentStatus
    <3>2. b.items[k].stage < b.stage
      BY <1>1, <2>3, <3>1
    <3>3. is_terminal_status(b.items[k].status)
      BY <3>2, PastIsOver
    <3> QED BY <1>2, <2>3, <3>2, <3>3
  <2> QED BY <2>1, <2>2, <2>3 DEF Restates
<1>4. OwnedOnce(c, n) /\ OrderedOf(c)
  BY <1>1 DEF Sound, OwnedOnce, OrderedOf
<1>5. FollowedOf(c)
  <2> SUFFICES ASSUME NEW s \in 0..(b.stage - 1) PROVE StageFollows(c, s)
    BY <1>1 DEF FollowedOf
  <2>1. s \in Nat /\ s < b.stage /\ StageFollows(b, s)
    BY <1>1 DEF Sound, FollowedOf
  <2>2. \A k \in DOMAIN b.items : c.items[k].stage = s => c.items[k].status = b.items[k].status
    <3> SUFFICES ASSUME NEW k \in DOMAIN b.items, c.items[k].stage = s
                 PROVE  c.items[k].status = b.items[k].status
      OBVIOUS
    <3>1. b.items[k].stage < b.stage
      BY <1>1, <2>1
    <3>2. is_terminal_status(b.items[k].status)
      BY <3>1, PastIsOver
    <3> QED BY <3>1, <3>2, <1>2
  <2> QED BY <1>1, <2>1, <2>2, FollowsKept
<1>6. \A k \in DOMAIN b.items :
          b.items[k].status \in {"succeeded", "failed"} => c.items[k].status = b.items[k].status
  BY <1>2 DEF is_terminal_status, TERMINAL_JOB_STATUSES
<1> QED BY <1>1, <1>3, <1>4, <1>5, <1>6 DEF Sound

LEMMA AdvancedKeeps ==
    ASSUME NEW b, NEW c, NEW r, NEW n, Advances(b, c), Sound(b, r, n)
    PROVE  Sound(c, r, n)
<1>1. /\ b \in Batches /\ c \in Batches /\ b.stage \in Nat /\ n \in Nat
      /\ c.stage = b.stage + 1 /\ ~b.cancelling /\ ~c.cancelling
      /\ DOMAIN b.items \subseteq DOMAIN c.items
      /\ \A k \in DOMAIN b.items : c.items[k] = b.items[k]
      /\ \A k \in DOMAIN c.items \ DOMAIN b.items :
            c.items[k].job = 0 /\ c.items[k].status = "pending" /\ c.items[k].stage = c.stage
      /\ StageFollows(c, b.stage)
  BY DEF Advances, Batches, Sound
<1>2. OutcomesOf(c, r)
  <2> SUFFICES ASSUME NEW k \in DOMAIN c.items, is_terminal_status(c.items[k].status)
               PROVE  c.items[k].job # 0 /\ r[c.items[k].job] = c.items[k].status
    BY DEF OutcomesOf
  <2>1. k \in DOMAIN b.items
    BY <1>1 DEF is_terminal_status, TERMINAL_JOB_STATUSES
  <2> QED BY <1>1, <2>1 DEF Sound, OutcomesOf
<1>3. OwnedOnce(c, n)
  <2>1. \A k \in DOMAIN c.items : c.items[k].job # 0 => k \in DOMAIN b.items
    BY <1>1
  <2>2. /\ \A k \in DOMAIN b.items : b.items[k].job \in 0..n
        /\ \A j \in 1..n : \E k \in DOMAIN b.items : b.items[k].job = j
        /\ \A k, l \in DOMAIN b.items :
              b.items[k].job = b.items[l].job /\ b.items[k].job # 0 => k = l
    BY DEF Sound, OwnedOnce
  <2>3. \A k \in DOMAIN c.items : c.items[k].job \in 0..n
    BY <1>1, <2>2
  <2>4. \A j \in 1..n : \E k \in DOMAIN c.items : c.items[k].job = j
    BY <1>1, <2>2
  <2>5. ASSUME NEW k \in DOMAIN c.items, NEW l \in DOMAIN c.items,
               c.items[k].job = c.items[l].job, c.items[k].job # 0
        PROVE  k = l
    BY <1>1, <2>1, <2>2, <2>5
  <2> QED BY <2>3, <2>4, <2>5 DEF OwnedOnce
<1>4. OrderedOf(c)
  <2>1. \A k \in DOMAIN b.items : b.items[k].stage <= b.stage /\ b.items[k].stage \in Nat
    BY <1>1, PositionsFinite DEF Sound, OrderedOf
  <2>2. ASSUME NEW k \in DOMAIN c.items PROVE c.items[k].stage <= c.stage
    <3>1. CASE k \in DOMAIN b.items
      BY <1>1, <2>1, <3>1
    <3>2. CASE k \notin DOMAIN b.items
      BY <1>1, <3>2
    <3> QED BY <3>1, <3>2
  <2> QED BY <2>2 DEF OrderedOf
<1>5. FollowedOf(c)
  <2> SUFFICES ASSUME NEW s \in 0..b.stage PROVE StageFollows(c, s)
    BY <1>1 DEF FollowedOf
  <2>1. CASE s = b.stage
    BY <1>1, <2>1
  <2>2. CASE s # b.stage
    <3>1. s \in Nat /\ s \in 0..(b.stage - 1) /\ s # c.stage /\ s + 1 # c.stage
      BY <1>1, <2>2
    <3>2. StageFollows(b, s)
      BY <3>1 DEF Sound, FollowedOf
    <3>3. \A k \in DOMAIN c.items \ DOMAIN b.items :
              c.items[k].stage # s /\ c.items[k].stage # s + 1
      BY <1>1, <3>1
    <3> QED BY <1>1, <3>1, <3>2, <3>3, FollowsKept
  <2> QED BY <2>1, <2>2
<1> QED BY <1>1, <1>2, <1>3, <1>4, <1>5 DEF Sound

LEMMA AssignedKeeps ==
    ASSUME NEW b, NEW c, NEW r, NEW m, NEW n, Assigns(b, c, m, n), Sound(b, r, m)
    PROVE  Sound(c, r, n)
<1>1. /\ b \in Batches /\ c \in Batches /\ b.stage \in Nat
      /\ c.stage = b.stage /\ c.cancelling = b.cancelling
      /\ DOMAIN c.items = DOMAIN b.items
      /\ m \in Nat /\ n \in Nat /\ m <= n
      /\ \A k \in DOMAIN b.items :
          /\ c.items[k].stage = b.items[k].stage /\ c.items[k].from = b.items[k].from
          /\ c.items[k].status = b.items[k].status
          /\ \/ c.items[k].job = b.items[k].job
             \/ b.items[k].job = 0 /\ c.items[k].job \in (m + 1)..n
  BY DEF Assigns, Batches
<1>2. OutcomesOf(c, r)
  BY <1>1 DEF Sound, OutcomesOf
<1>3. OwnedOnce(c, n)
  <2>1. /\ \A k \in DOMAIN b.items : b.items[k].job \in 0..m
        /\ \A j \in 1..m : \E k \in DOMAIN b.items : b.items[k].job = j
        /\ \A k, l \in DOMAIN b.items :
              b.items[k].job = b.items[l].job /\ b.items[k].job # 0 => k = l
    BY DEF Sound, OwnedOnce
  <2>2. /\ \A j \in (m + 1)..n : \E k \in DOMAIN b.items : c.items[k].job = j
        /\ \A k, l \in DOMAIN b.items :
              c.items[k].job = c.items[l].job /\ c.items[k].job \in (m + 1)..n => k = l
    BY DEF Assigns
  <2>3. /\ 0..m \subseteq 0..n /\ (m + 1)..n \subseteq 0..n
        /\ \A j \in 1..n : j \in 1..m \/ j \in (m + 1)..n
        /\ \A j \in 1..m : j # 0
    BY <1>1
  <2>4. \A k \in DOMAIN b.items : c.items[k].job \in 0..n
    BY <1>1, <2>1, <2>3
  <2>5. ASSUME NEW j \in 1..n PROVE \E k \in DOMAIN b.items : c.items[k].job = j
    <3>1. CASE j \in (m + 1)..n
      BY <3>1, <2>2
    <3>2. CASE j \in 1..m
      <4>1. PICK k \in DOMAIN b.items : b.items[k].job = j
        BY <3>2, <2>1
      <4>2. c.items[k].job = j
        BY <4>1, <3>2, <2>3, <1>1
      <4> QED BY <4>2
    <3> QED BY <2>3, <3>1, <3>2
  <2>6. ASSUME NEW k \in DOMAIN b.items, NEW l \in DOMAIN b.items,
               c.items[k].job = c.items[l].job, c.items[k].job # 0
        PROVE  k = l
    <3>1. CASE c.items[k].job \in (m + 1)..n
      BY <2>2, <2>6, <3>1
    <3>2. CASE c.items[k].job \notin (m + 1)..n
      BY <1>1, <2>1, <2>6, <3>2
    <3> QED BY <3>1, <3>2
  <2> QED BY <1>1, <2>4, <2>5, <2>6 DEF OwnedOnce
<1>4. OrderedOf(c)
  BY <1>1 DEF Sound, OrderedOf
<1>5. FollowedOf(c)
  <2> SUFFICES ASSUME NEW s \in 0..(b.stage - 1) PROVE StageFollows(c, s)
    BY <1>1 DEF FollowedOf
  <2>1. s \in Nat /\ s < b.stage /\ StageFollows(b, s)
    BY <1>1 DEF Sound, FollowedOf
  <2>2. \A k \in DOMAIN b.items : c.items[k].stage = s => c.items[k].job = b.items[k].job
    <3> SUFFICES ASSUME NEW k \in DOMAIN b.items, c.items[k].stage = s
                 PROVE  c.items[k].job = b.items[k].job
      OBVIOUS
    <3>1. b.items[k].stage < b.stage
      BY <1>1, <2>1
    <3>2. b.items[k].job # 0
      BY <3>1, PastIsOver
    <3> QED BY <3>2, <1>1
  <2> QED BY <1>1, <2>1, <2>2, FollowsKept
<1> QED BY <1>1, <1>2, <1>3, <1>4, <1>5 DEF Sound


-----------------------------------------------------------------------------
(* The invariant again, with the record apart from the calls *)

\* One call, when n ids were drawn.
CallOk(p, c, n) ==
    /\ p \in Pcs \cup BootPcs /\ c \in Calls
    /\ p \in {"check", "create", "authorize", "revoke"} => c.todo # <<>>
    /\ \A i \in DOMAIN c.todo : c.todo[i] \in 1..n

CallsOk ==
    /\ pc \in [Threads -> Pcs \cup BootPcs] /\ call \in [Threads -> Calls]
    /\ \A t \in Threads : CallOk(pc[t], call[t], minted)
    /\ \A t \in Threads : pc[t] \in Pcs \ {"idle"} => Exists

RestOk ==
    /\ RowsType /\ reliable \in BOOLEAN
    /\ poison \subseteq Jobs /\ pending \subseteq Jobs /\ alerts \subseteq Jobs
    /\ suspects \subseteq Jobs /\ queue \subseteq Jobs

RecordOk ==
    /\ minted \in 0..MaxJobs
    /\ Exists => Sound(batch, rows, minted)
    /\ ~Exists => minted = 0
    /\ \A j \in Jobs : rows[j] # "absent" => j \in 1..minted

CoreInv == RestOk /\ CallsOk /\ RecordOk

\* A record with a status is not the absent one.
LEMMA BatchesExist == ASSUME NEW b \in Batches PROVE b # NoBatch
  BY DEF Batches, NoBatch, BATCH_STATUSES

\* A set has one element just when its elements are equal.
LEMMA OneElement ==
    ASSUME NEW S, IsFiniteSet(S)
    PROVE  Cardinality(S) = 1 <=> (\E k \in S : TRUE) /\ (\A k, l \in S : k = l)
<1>1. Cardinality(S) = 1 <=> \E x : S = {x}
  BY FS_Singleton
<1>2. (\E x : S = {x}) => (\E k \in S : TRUE) /\ (\A k, l \in S : k = l)
  OBVIOUS
<1>3. ASSUME NEW x \in S, \A k, l \in S : k = l PROVE S = {x}
  BY <1>3
<1> QED BY <1>1, <1>2, <1>3

\* Each id belongs to one item, said with the number of its items.
LEMMA OwnersCounted ==
    ASSUME batch \in Batches, minted \in Nat
    PROVE  OwnedOnce(batch, minted) <=>
              /\ \A k \in DOMAIN batch.items : batch.items[k].job \in 0..minted
              /\ \A j \in 1..minted : Cardinality(ItemOf(j)) = 1
<1>1. ASSUME NEW j
      PROVE  Cardinality(ItemOf(j)) = 1 <=>
                /\ \E k \in DOMAIN batch.items : batch.items[k].job = j
                /\ \A k, l \in DOMAIN batch.items :
                      batch.items[k].job = j /\ batch.items[l].job = j => k = l
  <2>1. ItemOf(j) \in SUBSET (1..Len(batch.items))
    BY PositionsFinite DEF ItemOf
  <2>2. IsFiniteSet(ItemOf(j))
    BY <2>1, PositionsFinite, FS_Subset
  <2>3. Cardinality(ItemOf(j)) = 1 <=> (\E k \in ItemOf(j) : TRUE) /\ (\A k, l \in ItemOf(j) : k = l)
    BY <2>2, OneElement
  <2> QED BY <2>3 DEF ItemOf
<1>2. \A j \in 0..minted : j # 0 <=> j \in 1..minted
  OBVIOUS
<1>3. ASSUME OwnedOnce(batch, minted), NEW j \in 1..minted PROVE Cardinality(ItemOf(j)) = 1
  <2>1. j # 0
    BY <1>2
  <2> QED BY <1>1, <1>3, <2>1 DEF OwnedOnce
<1>4. ASSUME \A k \in DOMAIN batch.items : batch.items[k].job \in 0..minted,
             \A j \in 1..minted : Cardinality(ItemOf(j)) = 1
      PROVE  OwnedOnce(batch, minted)
  <2>1. \A j \in 1..minted : \E k \in DOMAIN batch.items : batch.items[k].job = j
    BY <1>1, <1>4
  <2>2. ASSUME NEW k \in DOMAIN batch.items, NEW l \in DOMAIN batch.items,
               batch.items[k].job = batch.items[l].job, batch.items[k].job # 0
        PROVE  k = l
    <3>1. batch.items[k].job \in 1..minted
      BY <1>2, <1>4, <2>2
    <3> QED BY <1>1, <1>4, <2>2, <3>1
  <2> QED BY <1>4, <2>1, <2>2 DEF OwnedOnce
<1> QED BY <1>3, <1>4 DEF OwnedOnce

\* The two forms say the same.
LEMMA Bridge == IndInv <=> CoreInv
<1>a. MaxJobs \in Nat
  BY BatchAssumption
<1>1. ASSUME IndInv PROVE CoreInv
  <2>1. /\ TypeOK /\ CallsAreSound /\ IdsAreDrawn /\ ChildrenAreOwned
        /\ OutcomesAreRows /\ StagesInOrder /\ StagesFollowWinners
    BY <1>1 DEF IndInv, ChildrenAreAccounted
  <2>2. RestOk
    BY <2>1 DEF TypeOK, RestOk, RowsType
  <2>3. CallsOk
    BY <2>1 DEF TypeOK, CallsAreSound, CallsOk, CallOk
  <2>4. minted \in 0..MaxJobs /\ minted \in Nat
    BY <2>1, <1>a DEF TypeOK
  <2>5. ASSUME Exists PROVE Sound(batch, rows, minted)
    <3>1. batch \in Batches
      BY <2>1, <2>5 DEF TypeOK, Exists
    <3>2. OwnedOnce(batch, minted)
      BY <3>1, <2>1, <2>4, <2>5, OwnersCounted DEF ChildrenAreOwned, IdsAreDrawn
    <3>3. FollowedOf(batch)
      BY <2>1, <2>5 DEF StagesFollowWinners, FollowedOf
    <3>4. OutcomesOf(batch, rows) /\ OrderedOf(batch)
      BY <2>1 DEF OutcomesAreRows, StagesInOrder, OutcomesOf, OrderedOf
    <3> QED BY <3>1, <3>2, <3>3, <3>4, <2>4 DEF Sound
  <2>6. RecordOk
    BY <2>1, <2>4, <2>5 DEF RecordOk, IdsAreDrawn
  <2> QED BY <2>2, <2>3, <2>6 DEF CoreInv
<1>2. ASSUME CoreInv PROVE IndInv
  <2>1. minted \in 0..MaxJobs /\ minted \in Nat
    BY <1>2, <1>a DEF CoreInv, RecordOk
  <2>2. ASSUME ~Exists
        PROVE  /\ batch \in Batches \cup {NoBatch} /\ IdsAreDrawn /\ ChildrenAreOwned
               /\ OutcomesAreRows /\ StagesInOrder /\ StagesFollowWinners
    <3>1. DOMAIN batch.items = {} /\ batch = NoBatch
      BY <2>2 DEF Exists, NoBatch
    <3>2. minted = 0 /\ \A j \in Jobs : rows[j] # "absent" => j \in 1..minted
      BY <1>2, <2>2 DEF CoreInv, RecordOk
    <3> QED BY <2>2, <3>1, <3>2 DEF IdsAreDrawn, ChildrenAreOwned, OutcomesAreRows, StagesInOrder,
                          StagesFollowWinners
  <2>3. ASSUME Exists
        PROVE  /\ batch \in Batches \cup {NoBatch} /\ IdsAreDrawn /\ ChildrenAreOwned
               /\ OutcomesAreRows /\ StagesInOrder /\ StagesFollowWinners
    <3>1. /\ batch \in Batches /\ OutcomesOf(batch, rows) /\ OwnedOnce(batch, minted)
          /\ OrderedOf(batch) /\ FollowedOf(batch)
      BY <1>2, <2>3 DEF CoreInv, RecordOk, Sound
    <3>2. /\ \A k \in DOMAIN batch.items : batch.items[k].job \in 0..minted
          /\ \A j \in 1..minted : Cardinality(ItemOf(j)) = 1
      BY <3>1, <2>1, OwnersCounted
    <3>3. \A j \in Jobs : rows[j] # "absent" => j \in 1..minted
      BY <1>2 DEF CoreInv, RecordOk
    <3>4. IdsAreDrawn /\ ChildrenAreOwned
      BY <2>3, <3>2, <3>3 DEF IdsAreDrawn, ChildrenAreOwned
    <3>5. OutcomesAreRows /\ StagesInOrder
      BY <3>1 DEF OutcomesAreRows, StagesInOrder, OutcomesOf, OrderedOf
    <3>6. StagesFollowWinners
      BY <3>1 DEF StagesFollowWinners, FollowedOf
    <3> QED BY <3>1, <3>4, <3>5, <3>6
  <2>4. TypeOK
    BY <1>2, <2>1, <2>2, <2>3 DEF TypeOK, CoreInv, RestOk, RowsType, CallsOk
  <2>5. CallsAreSound
    BY <1>2 DEF CallsAreSound, CoreInv, CallsOk, CallOk
  <2> QED BY <2>2, <2>3, <2>4, <2>5 DEF IndInv, ChildrenAreAccounted
<1> QED BY <1>1, <1>2

-----------------------------------------------------------------------------
(* What a step may do *)

\* The first save of create_batch.
Created(b) ==
    /\ b \in Batches /\ b.stage = 0
    /\ \A k \in DOMAIN b.items :
          b.items[k].job = 0 /\ b.items[k].status = "pending" /\ b.items[k].stage = 0

\* The record is created, restated, advanced or given ids, or it stays.
RecordMove ==
    \/ batch' = batch /\ minted' = minted
    \/ ~Exists /\ Created(batch') /\ minted' = minted
    \/ Exists /\ Restates(batch, batch') /\ minted' = minted
    \/ /\ Exists /\ minted' = minted
       /\ \E b : Restates(batch, b) /\ Advances(b, batch')
    \/ Exists /\ Assigns(batch, batch', minted, minted')

\* Nothing enters the queue of the running service once a cancellation is saved.
QueueMove == Up /\ Exists /\ batch.cancelling => queue' \subseteq queue

\* What holds of every step.
Moves == RecordMove /\ RowMoves /\ QueueMove /\ RestOk' /\ CallsOk'

\* An item keeps the job it has, and its success or failure.
OutcomesKept ==
    Exists => \A k \in DOMAIN batch.items :
        /\ batch.items[k].job # 0 => batch'.items[k].job = batch.items[k].job
        /\ batch.items[k].status \in {"succeeded", "failed"} =>
              batch'.items[k].status = batch.items[k].status

\* The record's part of the invariant is kept.
LEMMA RecordMoved ==
    ASSUME CoreInv, RecordMove
    PROVE  /\ Exists => Exists' /\ batch' \in Batches
           /\ ~Exists => minted' = minted
           /\ minted \in Nat /\ minted' \in 0..MaxJobs /\ minted <= minted'
           /\ Exists' => Sound(batch', rows, minted')
           /\ OutcomesKept
<1>a. MaxJobs \in Nat
  BY BatchAssumption
<1>b. minted \in 0..MaxJobs /\ minted \in Nat
  BY <1>a DEF CoreInv, RecordOk
<1>c. Exists => batch \in Batches /\ Sound(batch, rows, minted)
  BY DEF CoreInv, RecordOk, Sound
<1>d. ~Exists => minted = 0 /\ batch = NoBatch
  BY DEF CoreInv, RecordOk, Exists
<1>e. \A b : Sound(b, rows, minted') => b \in Batches /\ b # NoBatch
  BY BatchesExist DEF Sound
<1>f. Exists' <=> batch' # NoBatch
  BY DEF Exists
<1>1. CASE batch' = batch /\ minted' = minted
  BY <1>1, <1>b, <1>c, <1>d, <1>f DEF OutcomesKept, Exists
<1>2. CASE ~Exists /\ Created(batch') /\ minted' = minted
  <2>1. PICK c : c = batch'
    OBVIOUS
  <2>2. c \in Batches /\ OwnedOnce(c, 0) /\ OutcomesOf(c, rows) /\ OrderedOf(c) /\ FollowedOf(c)
    BY <1>2, <2>1 DEF Created, OwnedOnce, OutcomesOf, OrderedOf, FollowedOf,
                      is_terminal_status, TERMINAL_JOB_STATUSES
  <2>3. Sound(c, rows, minted')
    BY <1>2, <1>d, <2>2 DEF Sound
  <2> QED BY <1>2, <1>b, <2>1, <2>3 DEF OutcomesKept
<1>3. CASE Exists /\ Restates(batch, batch') /\ minted' = minted
  <2>1. PICK c : c = batch'
    OBVIOUS
  <2>2. /\ Sound(c, rows, minted)
        /\ \A k \in DOMAIN batch.items : batch.items[k].status \in {"succeeded", "failed"} =>
              c.items[k].status = batch.items[k].status
    BY <1>3, <1>c, <2>1, RestatedKeeps
  <2>3. \A k \in DOMAIN batch.items : c.items[k].job = batch.items[k].job
    BY <1>3, <2>1 DEF Restates
  <2> QED BY <1>3, <1>b, <1>e, <1>f, <2>1, <2>2, <2>3 DEF OutcomesKept
<1>4. CASE Exists /\ minted' = minted /\ \E b : Restates(batch, b) /\ Advances(b, batch')
  <2>1. PICK c : c = batch'
    OBVIOUS
  <2>2. PICK b : Restates(batch, b) /\ Advances(b, c)
    BY <1>4, <2>1
  <2>3. /\ Sound(b, rows, minted)
        /\ \A k \in DOMAIN batch.items : batch.items[k].status \in {"succeeded", "failed"} =>
              b.items[k].status = batch.items[k].status
    BY <1>4, <1>c, <2>2, RestatedKeeps
  <2>4. Sound(c, rows, minted)
    BY <2>2, <2>3, AdvancedKeeps
  <2>5. \A k \in DOMAIN batch.items : k \in DOMAIN b.items /\ c.items[k] = b.items[k]
                                      /\ b.items[k].job = batch.items[k].job
    BY <2>2 DEF Restates, Advances
  <2> QED BY <1>4, <1>b, <1>e, <1>f, <2>1, <2>3, <2>4, <2>5 DEF OutcomesKept
<1>5. CASE Exists /\ Assigns(batch, batch', minted, minted')
  <2>1. PICK c, n : c = batch' /\ n = minted'
    OBVIOUS
  <2>2. Assigns(batch, c, minted, n)
    BY <1>5, <2>1
  <2>3. Sound(c, rows, n)
    BY <1>5, <1>c, <2>2, AssignedKeeps
  <2>4. \A k \in DOMAIN batch.items :
            /\ batch.items[k].job # 0 => c.items[k].job = batch.items[k].job
            /\ c.items[k].status = batch.items[k].status
    BY <2>2 DEF Assigns
  <2>5. n \in Nat /\ minted <= n /\ n <= MaxJobs
    BY <2>2 DEF Assigns
  <2> QED BY <1>5, <1>a, <1>b, <1>e, <1>f, <2>1, <2>3, <2>4, <2>5 DEF OutcomesKept
<1> QED
  BY <1>1, <1>2, <1>3, <1>4, <1>5 DEF RecordMove

\* Every such step keeps the invariant.
LEMMA MovesKeep ==
    ASSUME CoreInv, Moves
    PROVE  CoreInv' /\ OutcomesKept
<1>1. /\ Exists => Exists' /\ batch' \in Batches
      /\ ~Exists => minted' = minted
      /\ minted \in Nat /\ minted' \in 0..MaxJobs /\ minted <= minted'
      /\ Exists' => Sound(batch', rows, minted')
      /\ OutcomesKept
  BY RecordMoved DEF Moves
<1>2. ASSUME Exists' PROVE Sound(batch', rows', minted')
  <2>1. PICK c, n : c = batch' /\ n = minted'
    OBVIOUS
  <2>2. Sound(c, rows', n)
    BY <1>1, <1>2, <2>1, RowsKeep DEF Moves
  <2> QED BY <2>1, <2>2
<1>3. ~Exists' => minted' = 0
  BY <1>1 DEF CoreInv, RecordOk
<1>4. \A j \in Jobs : rows'[j] # "absent" => j \in 1..minted'
  <2>1. ASSUME NEW j \in Jobs, rows'[j] # "absent" PROVE j \in 1..minted
    <3>1. rows[j] # "absent" => j \in 1..minted
      BY DEF CoreInv, RecordOk
    <3>2. \/ rows'[j] = rows[j]
          \/ rows[j] = "absent" /\ rows'[j] = "queued" /\ j \in 1..minted
          \/ rows[j] \notin TERMINAL_JOB_STATUSES \cup {"absent"} /\ rows'[j] \in JOB_STATUSES
      BY DEF Moves, RowMoves
    <3> QED BY <2>1, <3>1, <3>2
  <2>2. 1..minted \subseteq 1..minted'
    BY <1>1
  <2> QED BY <2>1, <2>2
<1>5. RecordOk'
  BY <1>1, <1>2, <1>3, <1>4 DEF RecordOk
<1> QED
  BY <1>1, <1>5 DEF CoreInv, Moves

\* The thread t goes on with p and c, the others wait.
LEMMA CallMoved ==
    ASSUME CoreInv, RecordMove, NEW t \in Threads, NEW p, NEW c, With(t, p, c),
           CallOk(p, c, minted'), p \in Pcs \ {"idle"} => Exists'
    PROVE  CallsOk'
<1>1. /\ Exists => Exists'
      /\ minted \in Nat /\ minted' \in 0..MaxJobs /\ minted <= minted'
  BY RecordMoved
<1>2. /\ pc \in [Threads -> Pcs \cup BootPcs] /\ call \in [Threads -> Calls]
      /\ \A u \in Threads : CallOk(pc[u], call[u], minted)
      /\ \A u \in Threads : pc[u] \in Pcs \ {"idle"} => Exists
  BY DEF CoreInv, CallsOk
<1>3. /\ pc' \in [Threads -> Pcs \cup BootPcs] /\ call' \in [Threads -> Calls]
      /\ pc'[t] = p /\ call'[t] = c
      /\ \A u \in Threads \ {t} : pc'[u] = pc[u] /\ call'[u] = call[u]
  <2>1. p \in Pcs \cup BootPcs /\ c \in Calls
    BY DEF CallOk
  <2>2. pc' = [pc EXCEPT ![t] = p] /\ call' = [call EXCEPT ![t] = c]
    BY DEF With
  <2> QED BY <1>2, <2>1, <2>2
<1>4. 1..minted \subseteq 1..minted'
  BY <1>1
<1>5. \A u \in Threads : CallOk(pc'[u], call'[u], minted')
  <2> SUFFICES ASSUME NEW u \in Threads, u # t PROVE CallOk(pc[u], call[u], minted')
    BY <1>3
  <2> QED BY <1>2, <1>4 DEF CallOk
<1>6. \A u \in Threads : pc'[u] \in Pcs \ {"idle"} => Exists'
  BY <1>1, <1>2, <1>3
<1> QED
  BY <1>3, <1>5, <1>6 DEF CallsOk

\* No thread moves.
LEMMA CallsStay ==
    ASSUME CoreInv, RecordMove, UNCHANGED <<pc, call>>
    PROVE  CallsOk'
<1>1. /\ Exists => Exists'
      /\ minted \in Nat /\ minted' \in 0..MaxJobs /\ minted <= minted'
  BY RecordMoved
<1>2. 1..minted \subseteq 1..minted'
  BY <1>1
<1>3. \A u \in Threads : CallOk(pc[u], call[u], minted')
  BY <1>2 DEF CallOk, CoreInv, CallsOk
<1> QED
  BY <1>1, <1>3 DEF CoreInv, CallsOk

\* A call knows the ids it has yet to visit.
LEMMA CallHas ==
    ASSUME CoreInv, NEW t \in Threads
    PROVE  /\ CallOk(pc[t], call[t], minted) /\ call[t] \in Calls
           /\ pc[t] \in Pcs \ {"idle"} => Exists
           /\ call[t].todo \in Seq(Jobs)
           /\ call = [call EXCEPT ![t] = call[t]]
           /\ pc[t] \in {"check", "create", "authorize", "revoke"} =>
                 /\ Head(call[t].todo) \in Jobs /\ Head(call[t].todo) \in 1..minted
                 /\ Tail(call[t].todo) \in Seq(Jobs)
                 /\ \A i \in DOMAIN Tail(call[t].todo) : Tail(call[t].todo)[i] \in 1..minted
<1>1. CallOk(pc[t], call[t], minted) /\ call[t] \in Calls
  BY DEF CoreInv, CallsOk, CallOk
<1>2. pc[t] \in Pcs \ {"idle"} => Exists
  BY DEF CoreInv, CallsOk
<1>3. call[t].todo \in Seq(Jobs)
  BY <1>1 DEF Calls
<1>4. call = [call EXCEPT ![t] = call[t]]
  BY DEF CoreInv, CallsOk
<1>5. ASSUME call[t].todo # <<>>
      PROVE  /\ Head(call[t].todo) \in Jobs /\ Head(call[t].todo) \in 1..minted
             /\ Tail(call[t].todo) \in Seq(Jobs)
             /\ \A i \in DOMAIN Tail(call[t].todo) : Tail(call[t].todo)[i] \in 1..minted
  <2>1. PICK todo : todo = call[t].todo
    OBVIOUS
  <2>2. todo \in Seq(Jobs) /\ todo # <<>> /\ \A i \in DOMAIN todo : todo[i] \in 1..minted
    BY <1>1, <1>3, <1>5, <2>1 DEF CallOk
  <2>3. /\ Head(todo) \in Jobs /\ Tail(todo) \in Seq(Jobs)
        /\ Len(todo) \in Nat /\ Len(todo) # 0 /\ DOMAIN todo = 1..Len(todo)
        /\ Len(Tail(todo)) = Len(todo) - 1
        /\ \A i \in 1..Len(Tail(todo)) : Tail(todo)[i] = todo[i + 1]
        /\ Head(todo) = todo[1]
    BY <2>2, HeadTailProperties, EmptySeq, LenProperties
  <2>4. DOMAIN Tail(todo) = 1..Len(Tail(todo))
    BY <2>3
  <2>5. 1 \in DOMAIN todo /\ \A i \in 1..Len(Tail(todo)) : i + 1 \in DOMAIN todo
    BY <2>3
  <2>6. /\ Head(todo) \in 1..minted
        /\ \A i \in DOMAIN Tail(todo) : Tail(todo)[i] \in 1..minted
    BY <2>2, <2>3, <2>4, <2>5
  <2> QED BY <2>1, <2>3, <2>6
<1> QED
  BY <1>1, <1>2, <1>3, <1>4, <1>5 DEF CallOk

-----------------------------------------------------------------------------
(* The calls: their steps on the record and the rows *)

\* A step that leaves rows, queue and the lists of jobs alone.
LEMMA JobsStay ==
    ASSUME CoreInv, UNCHANGED jobvars, reliable' \in BOOLEAN
    PROVE  RowMoves /\ QueueMove /\ RestOk'
  BY DEF CoreInv, RestOk, RowsType, jobvars, RowMoves, QueueMove

\* Calls that have no child to visit.
LEMMA FreshCalls ==
    /\ NoCall \in Calls /\ NoCall.todo = <<>> /\ NoCall.stage = 0 /\ NoCall.tries = 0
    /\ \A o \in Ops : [NoCall EXCEPT !.op = o] \in Calls /\ [NoCall EXCEPT !.op = o].todo = <<>>
<1>1. NoCall \in Calls /\ NoCall.todo = <<>> /\ NoCall.stage = 0 /\ NoCall.tries = 0
  BY DEF NoCall, Calls, Ops, STARTUP_BATCH_SCAN_MAX_ATTEMPTS
<1>2. \A o \in Ops : [NoCall EXCEPT !.op = o] \in Calls /\ [NoCall EXCEPT !.op = o].todo = <<>>
  BY <1>1 DEF Calls
<1> QED BY <1>1, <1>2

LEMMA FreshCallOk ==
    ASSUME NEW c \in Calls, c.todo = <<>>, NEW n,
           NEW p \in Pcs \cup BootPcs, p \notin {"check", "create", "authorize", "revoke"}
    PROVE  CallOk(p, c, n)
  BY DEF CallOk

\* A call keeps its ids when it notes something else.
LEMMA NotedCalls ==
    ASSUME NEW c \in Calls
    PROVE  /\ \A s \in Nat : LET d == [c EXCEPT !.stage = s] IN d \in Calls /\ d.todo = c.todo
           /\ \A r \in {"none", "record", "raised", "error"} :
                LET d == [c EXCEPT !.result = r] IN d \in Calls /\ d.todo = c.todo
           /\ \A st \in JOB_STATUSES :
                LET d == [c EXCEPT !.seen = st] IN d \in Calls /\ d.todo = c.todo
           /\ LET d == [c EXCEPT !.broke = TRUE] IN d \in Calls /\ d.todo = c.todo
           /\ LET d == [c EXCEPT !.incomplete = TRUE, !.broke = TRUE] IN
                d \in Calls /\ d.todo = c.todo
           /\ \A todo \in Seq(Jobs) :
                /\ LET d == [c EXCEPT !.todo = todo] IN d \in Calls /\ d.todo = todo
                /\ LET d == [c EXCEPT !.todo = todo, !.seen = "none"] IN
                     d \in Calls /\ d.todo = todo
                /\ LET d == [c EXCEPT !.todo = todo, !.incomplete = FALSE, !.broke = FALSE] IN
                     d \in Calls /\ d.todo = todo
  BY DEF Calls

\* A call that ends with a result, or altogether.
LEMMA ReturnMoved ==
    ASSUME CoreInv, RecordMove, NEW t \in Threads, Exists,
           NEW r \in {"none", "record", "raised", "error"}, Return(t, r)
    PROVE  CallsOk'
<1> DEFINE c == [call[t] EXCEPT !.result = r]
<1>1. c \in Calls /\ c.todo = call[t].todo
  BY CallHas, NotedCalls
<1>2. Exists' /\ minted \in Nat /\ minted' \in Nat /\ minted <= minted'
  BY RecordMoved
<1>3. With(t, "returned", c)
  BY DEF Return
<1> HIDE DEF c
<1>4. CallOk(pc[t], call[t], minted) /\ 1..minted \subseteq 1..minted'
  BY <1>2, CallHas
<1>5. CallOk("returned", c, minted')
  BY <1>1, <1>4 DEF CallOk, Pcs
<1> QED BY <1>2, <1>3, <1>5, CallMoved

LEMMA FinishedMoved ==
    ASSUME CoreInv, RecordMove, NEW t \in Threads, Finished(t)
    PROVE  CallsOk'
<1>1. With(t, "idle", NoCall)
  BY DEF Finished
<1>2. CallOk("idle", NoCall, minted')
  BY FreshCalls, FreshCallOk DEF Pcs
<1> QED BY <1>1, <1>2, CallMoved

LEMMA CancelEndMoved ==
    ASSUME CoreInv, RecordMove, NEW t \in Threads, Exists, NEW r \in {"none", "record"},
           CancelEnds(t, r)
    PROVE  CallsOk'
  BY ReturnMoved, FinishedMoved DEF CancelEnds

\* A call that goes on with the ids it has, or to one that needs none.
LEMMA NotedMoved ==
    ASSUME CoreInv, RecordMove, NEW t \in Threads, Exists, NEW p \in Pcs \cup BootPcs,
           NEW c \in Calls, With(t, p, c), c.todo = call[t].todo,
           \/ p \notin {"check", "create", "authorize", "revoke"}
           \/ pc[t] \in {"check", "create", "authorize", "revoke"}
    PROVE  CallsOk'
<1>2. Exists' /\ minted \in Nat /\ minted' \in Nat /\ minted <= minted'
  BY RecordMoved
<1>4. CallOk(pc[t], call[t], minted) /\ 1..minted \subseteq 1..minted'
  BY <1>2, CallHas
<1>5. CallOk(p, c, minted')
  BY <1>4 DEF CallOk
<1> QED BY <1>2, <1>5, CallMoved

\* The next item of the loop of _enqueue_stage.
LEMMA NextItemMoved ==
    ASSUME CoreInv, RecordMove, NEW t \in Threads, Exists, NextItem(t),
           pc[t] \in {"check", "create", "authorize", "revoke"}
    PROVE  CallsOk'
<1> DEFINE rest == Tail(call[t].todo)
           c == [call[t] EXCEPT !.todo = rest, !.seen = "none"]
           p == IF rest = <<>> THEN "clear" ELSE "check"
<1>1. rest \in Seq(Jobs) /\ \A i \in DOMAIN rest : rest[i] \in 1..minted
  BY CallHas
<1>2. c \in Calls /\ c.todo = rest
  <2>1. \A d \in Calls : \A s \in Seq(Jobs) :
            /\ [d EXCEPT !.todo = s, !.seen = "none"] \in Calls
            /\ [d EXCEPT !.todo = s, !.seen = "none"].todo = s
    BY NotedCalls
  <2>2. call[t] \in Calls
    BY CallHas
  <2> HIDE DEF rest
  <2> QED BY <1>1, <2>1, <2>2
<1>3. With(t, p, c)
  BY DEF NextItem
<1>4. Exists' /\ minted \in Nat /\ minted' \in Nat /\ minted <= minted'
  BY RecordMoved
<1> HIDE DEF rest, c
<1>5. 1..minted \subseteq 1..minted'
  BY <1>4
<1>6. CallOk(p, c, minted')
  BY <1>1, <1>2, <1>5 DEF CallOk, Pcs
<1> HIDE DEF p
<1> QED BY <1>3, <1>4, <1>6, CallMoved

-----------------------------------------------------------------------------
(* _enqueue_stage *)

LEMMA CreateBatchMoves ==
    ASSUME CoreInv, NEW t \in Threads, CreateBatch(t)
    PROVE  Moves
<1>1. PICK width \in Widths :
          batch' = [status |-> "queued", stage |-> 0, items |-> [i \in 1..width |-> NewItem(0, 0)],
                    cancelling |-> FALSE, error |-> "none"]
  BY DEF CreateBatch
<1> DEFINE items == [i \in 1..width |-> NewItem(0, 0)]
<1>2. /\ items \in Seq(Items) /\ DOMAIN items = 1..width
      /\ \A k \in 1..width : items[k].job = 0 /\ items[k].status = "pending" /\ items[k].stage = 0
  <2>1. NewItem(0, 0) \in Items /\ NewItem(0, 0).job = 0 /\ NewItem(0, 0).status = "pending"
        /\ NewItem(0, 0).stage = 0
    BY DEF NewItem, Items, ITEM_STATUSES
  <2>2. width \in Nat
    BY BatchAssumption
  <2>3. items \in [1..width -> Items]
    BY <2>1
  <2>4. items \in Seq(Items)
    <3> HIDE DEF items
    <3> QED BY <2>2, <2>3, IsSeq
  <2> QED BY <2>1, <2>4
<1> HIDE DEF items
<1>3. Created(batch')
  BY <1>1, <1>2 DEF Created, Batches, BATCH_STATUSES, items
<1>4. RecordMove
  BY <1>3 DEF CreateBatch, RecordMove
<1>5. Exists'
  BY <1>3, BatchesExist DEF Created, Exists
<1>6. CallsOk'
  <2> DEFINE c == [NoCall EXCEPT !.op = "create"]
  <2>1. With(t, "assign", c)
    BY DEF CreateBatch
  <2>2. c \in Calls /\ c.todo = <<>>
    BY FreshCalls DEF Ops
  <2> HIDE DEF c
  <2>3. CallOk("assign", c, minted')
    BY <2>2, FreshCallOk DEF Pcs
  <2> QED BY <1>4, <1>5, <2>1, <2>3, CallMoved
<1>7. RowMoves /\ QueueMove /\ RestOk'
  BY JobsStay DEF CreateBatch, CoreInv, RestOk
<1> QED BY <1>4, <1>6, <1>7 DEF Moves

LEMMA AssignIdsMoves ==
    ASSUME CoreInv, NEW t \in Threads, AssignIds(t)
    PROVE  Moves
<1>1. pc[t] = "assign" /\ UNCHANGED <<jobvars, reliable, badrefs, bounds>>
  BY DEF AssignIds
<1>2. Exists /\ batch \in Batches /\ Sound(batch, rows, minted)
  BY <1>1, CallHas DEF CoreInv, RecordOk, Sound, Pcs
<1>3. CASE UNCHANGED <<batch, minted>> /\ \E r \in {"none", "record"} : Return(t, r)
  <2>1. RecordMove
    BY <1>3 DEF RecordMove
  <2>2. CallsOk'
    BY <1>2, <1>3, <2>1, ReturnMoved
  <2> QED BY <1>1, <2>1, <2>2, JobsStay DEF Moves, CoreInv, RestOk
<1>4. CASE LET b == WithIds(batch, call[t].stage)
               todo == OpenJobs(b, call[t].stage)
           IN  /\ batch' = b
               /\ minted' = minted + Cardinality(NeedsId(batch, call[t].stage))
               /\ minted' <= MaxJobs
               /\ With(t, IF todo = <<>> THEN "clear" ELSE "check",
                       [call[t] EXCEPT !.todo = todo, !.incomplete = FALSE, !.broke = FALSE])
  <2>1. PICK s, b, todo, n, p, c : /\ s = call[t].stage /\ b = WithIds(batch, s)
                       /\ todo = OpenJobs(b, s)
                       /\ n = minted + Cardinality(NeedsId(batch, s))
                       /\ p = (IF todo = <<>> THEN "clear" ELSE "check")
                       /\ c = [call[t] EXCEPT !.todo = todo, !.incomplete = FALSE, !.broke = FALSE]
    OBVIOUS
  <2>2. batch' = b /\ minted' = n /\ n <= MaxJobs /\ With(t, p, c)
    BY <1>4, <2>1
  <2>3. Assigns(batch, b, minted, n)
    <3>1. minted \in Nat /\ \A k \in DOMAIN batch.items : batch.items[k].job \in 0..minted
      BY <1>2 DEF Sound, OwnedOnce
    <3> QED BY <1>2, <2>1, <2>2, <3>1, WithIdsAssigns
  <2>4. RecordMove
    BY <1>2, <2>2, <2>3 DEF RecordMove
  <2>5. b \in Batches /\ \A k \in DOMAIN b.items : b.items[k].job \in 0..n
    <3>1. Sound(b, rows, n)
      BY <1>2, <2>3, AssignedKeeps
    <3> QED BY <3>1 DEF Sound, OwnedOnce
  <2>6. todo \in Seq(Jobs) /\ \A i \in DOMAIN todo : todo[i] \in 1..n
    <3>1. /\ todo \in Seq(Jobs)
          /\ \A i \in DOMAIN todo : \E k \in DOMAIN b.items : todo[i] = b.items[k].job
                                                            /\ b.items[k].job # 0
      BY <2>1, <2>5, OpenJobsAreItems
    <3>2. n \in Nat /\ \A j \in 0..n : j # 0 => j \in 1..n
      BY <2>3 DEF Assigns
    <3>3. ASSUME NEW i \in DOMAIN todo PROVE todo[i] \in 1..n
      <4>1. PICK k \in DOMAIN b.items : todo[i] = b.items[k].job /\ b.items[k].job # 0
        BY <3>1
      <4> QED BY <2>5, <3>2, <4>1
    <3> QED BY <3>1, <3>3
  <2>7. c \in Calls /\ c.todo = todo
    <3>1. \A d \in Calls : \A q \in Seq(Jobs) :
              LET e == [d EXCEPT !.todo = q, !.incomplete = FALSE, !.broke = FALSE] IN
              e \in Calls /\ e.todo = q
      BY NotedCalls
    <3>2. call[t] \in Calls
      BY CallHas
    <3> QED BY <2>1, <2>6, <3>1, <3>2
  <2>8. CallOk(p, c, n)
    BY <2>1, <2>6, <2>7 DEF CallOk, Pcs
  <2>9. Exists'
    BY <1>2, <2>4, RecordMoved
  <2>10. CallsOk'
    BY <2>2, <2>4, <2>8, <2>9, CallMoved
  <2> QED BY <1>1, <2>4, <2>10, JobsStay DEF Moves, CoreInv, RestOk
<1> QED
  BY <1>3, <1>4 DEF AssignIds

LEMMA CheckCancelledMoves ==
    ASSUME CoreInv, NEW t \in Threads, CheckCancelled(t)
    PROVE  Moves
<1>1. pc[t] = "check" /\ UNCHANGED <<batch, jobvars, minted, reliable, badrefs, bounds>>
  BY DEF CheckCancelled
<1>2. Exists /\ call[t] \in Calls
  BY <1>1, CallHas DEF Pcs
<1>3. RecordMove
  BY <1>1 DEF RecordMove
<1>4. PICK p \in {"settle", "create"} : \E c \in Calls : With(t, p, c) /\ c.todo = call[t].todo
  <2>1. \A c \in Calls :
          /\ LET d == [c EXCEPT !.broke = TRUE] IN d \in Calls /\ d.todo = c.todo
          /\ LET d == [c EXCEPT !.incomplete = TRUE, !.broke = TRUE] IN
               d \in Calls /\ d.todo = c.todo
    BY NotedCalls
  <2> QED BY <1>2, <2>1 DEF CheckCancelled
<1>5. PICK c \in Calls : With(t, p, c) /\ c.todo = call[t].todo
  BY <1>4
<1>6. CallsOk'
  <2>1. p \in Pcs \cup BootPcs
    BY DEF Pcs
  <2> QED BY <1>1, <1>2, <1>3, <1>5, <2>1, NotedMoved
<1> QED BY <1>1, <1>3, <1>6, JobsStay DEF Moves, CoreInv, RestOk

LEMMA CreateOrReuseJobMoves ==
    ASSUME CoreInv, NEW t \in Threads, CreateOrReuseJob(t)
    PROVE  Moves
<1>1. PICK j : j = Head(call[t].todo)
  OBVIOUS
<1>2. pc[t] = "create" /\ UNCHANGED <<batch, poison, pending, alerts, suspects, queue, minted,
                                      reliable, bounds>>
  BY DEF CreateOrReuseJob
<1>3. Exists /\ call[t] \in Calls /\ j \in Jobs /\ j \in 1..minted
  BY <1>1, <1>2, CallHas DEF Pcs
<1>4. RecordMove
  BY <1>2 DEF RecordMove
<1>5. rows' = rows \/ (rows[j] = "absent" /\ rows' = [rows EXCEPT ![j] = "queued"])
  BY <1>1 DEF CreateOrReuseJob, CreateIfAbsent
<1>6. RowsType /\ RowsType' /\ RowMoves
  <2>1. RowsType
    BY DEF CoreInv, RestOk
  <2>2. RowsType'
    BY <1>3, <1>5, <2>1 DEF RowsType, JOB_STATUSES
  <2>3. RowMoves
    BY <1>3, <1>5, <2>1 DEF RowsType, RowMoves
  <2> QED BY <2>1, <2>2, <2>3
<1>7. QueueMove /\ RestOk'
  BY <1>2, <1>6 DEF QueueMove, RestOk, CoreInv
<1>8. CallsOk'
  <2>1. CASE NextItem(t)
    BY <1>2, <1>3, <1>4, <2>1, NextItemMoved
  <2>2. CASE \E st \in JOB_STATUSES : With(t, "authorize", [call[t] EXCEPT !.seen = st])
    <3>1. PICK st \in JOB_STATUSES : With(t, "authorize", [call[t] EXCEPT !.seen = st])
      BY <2>2
    <3>2. PICK c : c = [call[t] EXCEPT !.seen = st]
      OBVIOUS
    <3>3. \A d \in Calls : LET e == [d EXCEPT !.seen = st] IN e \in Calls /\ e.todo = d.todo
      BY NotedCalls
    <3>4. c \in Calls /\ c.todo = call[t].todo /\ With(t, "authorize", c)
      BY <1>3, <3>1, <3>2, <3>3
    <3> QED BY <1>2, <1>3, <1>4, <3>4, NotedMoved DEF Pcs
  <2>3. CASE \E r \in {"raised", "error"} : Return(t, r)
    BY <1>3, <1>4, <2>3, ReturnMoved
  <2>4. rows[j] # "absent" => rows[j] \in JOB_STATUSES
    BY <1>3, <1>6 DEF RowsType
  <2> QED BY <1>1, <2>1, <2>2, <2>3, <2>4 DEF CreateOrReuseJob, JOB_STATUSES
<1> QED BY <1>4, <1>6, <1>7, <1>8 DEF Moves

LEMMA AuthorizeAndExposeMoves ==
    ASSUME CoreInv, NEW t \in Threads, AuthorizeAndExpose(t)
    PROVE  Moves
<1>1. PICK j : j = Head(call[t].todo)
  OBVIOUS
<1>2. pc[t] = "authorize" /\ UNCHANGED <<batch, rows, poison, pending, alerts, suspects, minted,
                                         reliable, badrefs, bounds>>
  BY DEF AuthorizeAndExpose
<1>3. Exists /\ call[t] \in Calls /\ j \in Jobs
  BY <1>1, <1>2, CallHas DEF Pcs
<1>4. RecordMove
  BY <1>2 DEF RecordMove
<1>5. queue' = queue \/ (~batch.cancelling /\ queue' = Pushed(j))
  BY <1>1 DEF AuthorizeAndExpose, Decision
<1>6. queue' \subseteq Jobs /\ QueueMove
  BY <1>3, <1>5 DEF QueueMove, CoreInv, RestOk, Pushed
<1>7. RowMoves /\ RestOk'
  BY <1>2, <1>6 DEF RowMoves, RestOk, RowsType, CoreInv
<1>8. CallsOk'
  <2>1. CASE NextItem(t)
    BY <1>2, <1>3, <1>4, <2>1, NextItemMoved
  <2>2. CASE Return(t, "error")
    BY <1>3, <1>4, <2>2, ReturnMoved
  <2>3. CASE \E p \in {"settle", "revoke"} : \E c \in Calls : With(t, p, c) /\ c.todo = call[t].todo
    <3>1. PICK p \in {"settle", "revoke"}, c \in Calls : With(t, p, c) /\ c.todo = call[t].todo
      BY <2>3
    <3>2. p \in Pcs \cup BootPcs
      BY DEF Pcs
    <3> QED BY <1>2, <1>3, <1>4, <3>1, <3>2, NotedMoved
  <2>4. \A c \in Calls :
          /\ LET d == [c EXCEPT !.broke = TRUE] IN d \in Calls /\ d.todo = c.todo
          /\ LET d == [c EXCEPT !.incomplete = TRUE, !.broke = TRUE] IN
               d \in Calls /\ d.todo = c.todo
    BY NotedCalls
  <2> QED BY <1>3, <2>1, <2>2, <2>3, <2>4 DEF AuthorizeAndExpose, Decision
<1> QED BY <1>4, <1>6, <1>7, <1>8 DEF Moves

\* cancel_job moves a row that is not over.
LEMMA CancelRowMoves ==
    ASSUME CoreInv, NEW j \in Jobs, CancelRow(j)
    PROVE  RowMoves /\ RowsType' /\ pending' \subseteq Jobs
<1>1. RowsType /\ pending \subseteq Jobs
  BY DEF CoreInv, RestOk
<1>2. CASE rows[j] \in {"queued"} \cup INTERRUPTED_JOB_STATUSES
  <2>1. /\ rows' = [rows EXCEPT ![j] = CancelTarget(rows[j])]
        /\ pending' = IF rows[j] = "queued" THEN pending \cup {j} ELSE pending
    BY <1>2 DEF CancelRow
  <2>2. CancelTarget(rows[j]) \in JOB_STATUSES
    BY DEF CancelTarget, JOB_STATUSES
  <2>3. rows[j] \notin TERMINAL_JOB_STATUSES \cup {"absent"}
    BY <1>2 DEF INTERRUPTED_JOB_STATUSES, TERMINAL_JOB_STATUSES
  <2> QED BY <1>1, <2>1, <2>2, <2>3 DEF RowsType, RowMoves
<1>3. CASE UNCHANGED <<rows, pending>>
  BY <1>1, <1>3 DEF RowsType, RowMoves
<1> QED BY <1>2, <1>3 DEF CancelRow

LEMMA RevokeChildMoves ==
    ASSUME CoreInv, NEW t \in Threads, RevokeChild(t)
    PROVE  Moves
<1>1. PICK j : j = Head(call[t].todo)
  OBVIOUS
<1>2. pc[t] = "revoke" /\ UNCHANGED <<batch, poison, alerts, suspects, queue, minted, reliable,
                                      faults, badrefs, bounds>>
  BY DEF RevokeChild
<1>3. Exists /\ call[t] \in Calls /\ j \in Jobs
  BY <1>1, <1>2, CallHas DEF Pcs
<1>4. RecordMove
  BY <1>2 DEF RecordMove
<1>5. CASE Return(t, "error") /\ UNCHANGED <<rows, pending>>
  <2>1. CallsOk'
    BY <1>3, <1>4, <1>5, ReturnMoved
  <2>2. UNCHANGED jobvars
    BY <1>2, <1>5 DEF jobvars
  <2> QED BY <1>2, <1>4, <2>1, <2>2, JobsStay DEF Moves, CoreInv, RestOk
<1>6. CASE Goto(t, "settle") /\ UNCHANGED call /\ CancelRow(j)
  <2>1. With(t, "settle", call[t])
    BY <1>6, CallHas DEF With, Goto
  <2>2. CallsOk'
    BY <1>3, <1>4, <2>1, NotedMoved DEF Pcs
  <2>3. RowMoves /\ RowsType' /\ pending' \subseteq Jobs
    BY <1>3, <1>6, CancelRowMoves
  <2>4. RestOk' /\ QueueMove
    BY <1>2, <2>3 DEF CoreInv, RestOk, QueueMove
  <2> QED BY <1>4, <2>2, <2>3, <2>4 DEF Moves
<1> QED BY <1>1, <1>5, <1>6 DEF RevokeChild

\* Recomputing a record that exists.
LEMMA RecomputedMoves ==
    ASSUME CoreInv, Exists, minted' = minted, batch' \in {batch, Recompute(batch)}
    PROVE  RecordMove
<1>1. RowsType /\ batch \in Batches
  BY DEF CoreInv, RestOk, RecordOk, Sound
<1>2. Restates(batch, Recompute(batch))
  BY <1>1, RecomputeRestates
<1> QED BY <1>2 DEF RecordMove

\* A record whose error changes, looked up again or not.
LEMMA ErrorMoves ==
    ASSUME CoreInv, Exists, minted' = minted, NEW e \in {"none", "advance", "materialize"},
           NEW x \in BATCH_STATUSES,
           batch' \in {[batch EXCEPT !.error = e], [batch EXCEPT !.error = e, !.status = x],
                       [Recompute(batch) EXCEPT !.error = e, !.status = x]}
    PROVE  RecordMove
<1>1. RowsType /\ batch \in Batches
  BY DEF CoreInv, RestOk, RecordOk, Sound
<1>2. Restates(batch, Recompute(batch)) /\ Restates(batch, batch)
  BY <1>1, RecomputeRestates, RestatesItself
<1>3. \A c : Restates(batch, c) => /\ Restates(batch, [c EXCEPT !.error = e, !.status = x])
                                   /\ Restates(batch, [c EXCEPT !.error = e])
  BY RestatesWithError
<1>4. \A c : c \in {[batch EXCEPT !.error = e], [batch EXCEPT !.error = e, !.status = x],
                    [Recompute(batch) EXCEPT !.error = e, !.status = x]} => Restates(batch, c)
  BY <1>2, <1>3
<1>5. Restates(batch, batch')
  BY <1>4
<1> QED BY <1>5 DEF RecordMove

\* Recomputing and advancing a record that exists.
LEMMA AdvancedMoves ==
    ASSUME CoreInv, Exists, minted' = minted, batch' = RecomputedAndAdvanced
    PROVE  RecordMove
<1>1. RowsType /\ batch \in Batches /\ Sound(batch, rows, minted)
  BY DEF CoreInv, RestOk, RecordOk, Sound
<1>2. PICK b : b = Recompute(batch)
  OBVIOUS
<1>3. Restates(batch, b)
  BY <1>1, <1>2, RecomputeRestates
<1>4. CASE AdvanceDue(b)
  <2>1. Sound(b, rows, minted)
    BY <1>1, <1>3, RestatedKeeps
  <2>2. b \in Batches /\ OutcomesOf(b, rows) /\ OrderedOf(b)
    BY <2>1 DEF Sound
  <2>3. \A k \in Good(b, b.stage) : b.items[k].job \in Jobs
    <3> SUFFICES ASSUME NEW k \in Good(b, b.stage) PROVE b.items[k].job \in Jobs
      OBVIOUS
    <3>1. k \in DOMAIN b.items /\ b.items[k].status = "succeeded"
      BY <2>2, PositionsFinite DEF Good, Positions
    <3>2. b.items[k].job # 0
      BY <2>2, <3>1 DEF OutcomesOf, is_terminal_status, TERMINAL_JOB_STATUSES
    <3> QED BY <2>2, <3>1, <3>2, PositionsFinite
  <2>4. Advances(b, Advanced(b))
    BY <1>4, <2>2, <2>3, AdvancedAdvances DEF OrderedOf
  <2>5. batch' = Advanced(b)
    BY <1>2, <1>4 DEF RecomputedAndAdvanced
  <2> QED BY <1>3, <2>4, <2>5 DEF RecordMove
<1>5. CASE ~AdvanceDue(b)
  <2>1. batch' = b
    BY <1>2, <1>5 DEF RecomputedAndAdvanced
  <2> QED BY <1>3, <2>1 DEF RecordMove
<1> QED BY <1>4, <1>5

LEMMA ClearStaleFailureMoves ==
    ASSUME CoreInv, NEW t \in Threads, ClearStaleFailure(t)
    PROVE  Moves
<1>1. pc[t] = "clear" /\ UNCHANGED <<call, jobvars, minted, reliable, badrefs, bounds>>
      /\ Goto(t, "settle")
  BY DEF ClearStaleFailure
<1>2. Exists
  BY <1>1, CallHas DEF Pcs
<1>3. ASSUME batch' = batch PROVE RecordMove
  BY <1>1, <1>3 DEF RecordMove
<1>4. ASSUME batch' = [batch EXCEPT !.error = "none"] PROVE RecordMove
  BY <1>1, <1>2, <1>4, ErrorMoves DEF BATCH_STATUSES
<1>5. RecordMove
  BY <1>3, <1>4 DEF ClearStaleFailure, MutateNothing, Mutate
<1>6. With(t, "settle", call[t]) /\ call[t] \in Calls
  BY <1>1, CallHas DEF With, Goto
<1>7. CallsOk'
  BY <1>2, <1>5, <1>6, NotedMoved DEF Pcs
<1> QED BY <1>1, <1>5, <1>7, JobsStay DEF Moves, CoreInv, RestOk

LEMMA SettleStageMoves ==
    ASSUME CoreInv, NEW t \in Threads, SettleStage(t)
    PROVE  Moves
<1>1. pc[t] = "settle" /\ UNCHANGED <<jobvars, minted, reliable, badrefs, bounds>>
  BY DEF SettleStage
<1>2. Exists
  BY <1>1, CallHas DEF Pcs
<1>3. RecordMove
  BY <1>1, <1>2, RecomputedMoves DEF SettleStage, MutateNothing, Mutate
<1>4. \E r \in {"none", "record"} : Return(t, r)
  BY DEF SettleStage
<1>5. CallsOk'
  BY <1>2, <1>3, <1>4, ReturnMoved
<1> QED BY <1>1, <1>3, <1>5, JobsStay DEF Moves, CoreInv, RestOk

LEMMA FinishCreateMoves ==
    ASSUME CoreInv, NEW t \in Threads, FinishCreate(t)
    PROVE  Moves
<1>1. pc[t] = "returned" /\ UNCHANGED <<batch, jobvars, minted, reliable, faults, badrefs, bounds>>
  BY DEF FinishCreate
<1>2. Exists
  BY <1>1, CallHas DEF Pcs
<1>3. RecordMove
  BY <1>1 DEF RecordMove
<1>4. CASE Finished(t)
  BY <1>1, <1>3, <1>4, FinishedMoved, JobsStay DEF Moves, CoreInv, RestOk
<1>5. CASE /\ call[t].tries + 1 < STARTUP_BATCH_SCAN_MAX_ATTEMPTS
           /\ With(t, "assign", [NoCall EXCEPT !.op = "create", !.tries = call[t].tries + 1])
  <2>1. PICK c : c = [NoCall EXCEPT !.op = "create", !.tries = call[t].tries + 1]
    OBVIOUS
  <2>2. call[t].tries + 1 \in 0..STARTUP_BATCH_SCAN_MAX_ATTEMPTS
    BY <1>5, CallHas DEF Calls, STARTUP_BATCH_SCAN_MAX_ATTEMPTS
  <2>3. c \in Calls /\ c.todo = <<>>
    <3>1. \A d \in Calls : \A n \in 0..STARTUP_BATCH_SCAN_MAX_ATTEMPTS :
              LET e == [d EXCEPT !.op = "create", !.tries = n] IN e \in Calls /\ e.todo = d.todo
      BY DEF Calls, Ops
    <3> QED BY <2>1, <2>2, <3>1, FreshCalls
  <2>4. CallOk("assign", c, minted')
    BY <2>3, FreshCallOk DEF Pcs
  <2>5. CallsOk'
    BY <1>2, <1>3, <1>5, <2>1, <2>4, CallMoved, RecordMoved
  <2> QED BY <1>1, <1>3, <2>5, JobsStay DEF Moves, CoreInv, RestOk
<1> QED BY <1>4, <1>5 DEF FinishCreate

-----------------------------------------------------------------------------
(* Children finish, stages advance *)

\* A call begins, or a startup step, with no child to visit.
LEMMA FreshMoved ==
    ASSUME CoreInv, RecordMove, NEW t \in Threads, NEW p \in Pcs \cup BootPcs, NEW c \in Calls,
           c.todo = <<>>, p \notin {"check", "create", "authorize", "revoke"}, With(t, p, c),
           p \in Pcs \ {"idle"} => Exists
    PROVE  CallsOk'
<1>1. CallOk(p, c, minted')
  BY FreshCallOk
<1> QED BY <1>1, CallMoved, RecordMoved

LEMMA StartChildMoves ==
    ASSUME CoreInv, NEW t \in Threads, NEW j \in Jobs, StartChild(t, j)
    PROVE  Moves
<1>1. /\ Exists /\ alerts' = alerts \ {j}
      /\ UNCHANGED <<batch, rows, poison, pending, suspects, queue, minted, reliable>>
  BY DEF StartChild
<1>2. RecordMove
  BY <1>1 DEF RecordMove
<1>3. CallsOk'
  <2>1. PICK c : c = [NoCall EXCEPT !.op = "child", !.child = j]
    OBVIOUS
  <2>2. \A d \in Calls : LET e == [d EXCEPT !.op = "child", !.child = j] IN
            e \in Calls /\ e.todo = d.todo
    BY DEF Calls, Ops
  <2>3. c \in Calls /\ c.todo = <<>>
    BY <2>1, <2>2, FreshCalls
  <2>4. With(t, "child", c)
    BY <2>1 DEF StartChild
  <2> QED BY <1>1, <1>2, <2>3, <2>4, FreshMoved DEF Pcs
<1>4. RowMoves /\ QueueMove /\ RestOk'
  BY <1>1 DEF RowMoves, QueueMove, CoreInv, RestOk, RowsType
<1> QED BY <1>2, <1>3, <1>4 DEF Moves

\* A call goes on to the stage the record is at.
LEMMA StageMoved ==
    ASSUME CoreInv, RecordMove, NEW t \in Threads, Exists,
           With(t, "assign", [call[t] EXCEPT !.stage = batch'.stage])
    PROVE  CallsOk'
<1>1. PICK c : c = [call[t] EXCEPT !.stage = batch'.stage]
  OBVIOUS
<1>2. batch'.stage \in Nat
  BY RecordMoved DEF Batches
<1>3. \A d \in Calls : \A s \in Nat : LET e == [d EXCEPT !.stage = s] IN
          e \in Calls /\ e.todo = d.todo
  BY NotedCalls
<1>4. c \in Calls /\ c.todo = call[t].todo
  BY <1>1, <1>2, <1>3, CallHas
<1> QED BY <1>1, <1>4, NotedMoved DEF Pcs

LEMMA ReconcileChildMoves ==
    ASSUME CoreInv, NEW t \in Threads, ReconcileChild(t)
    PROVE  Moves
<1>1. pc[t] = "child" /\ UNCHANGED <<jobvars, minted, reliable, bounds>>
  BY DEF ReconcileChild
<1>2. Exists
  BY <1>1, CallHas DEF Pcs
<1>3. RecordMove /\ CallsOk'
  <2>1. CASE UNCHANGED batch /\ Return(t, "none")
    <3>1. RecordMove
      BY <1>1, <2>1 DEF RecordMove
    <3> QED BY <1>2, <2>1, <3>1, ReturnMoved
  <2>2. CASE batch' = RecomputedAndAdvanced /\ With(t, "assign", [call[t] EXCEPT !.stage = batch'.stage])
    <3>1. RecordMove
      BY <1>1, <1>2, <2>2, AdvancedMoves
    <3> QED BY <1>2, <2>2, <3>1, StageMoved
  <2>3. CASE batch' = CapturedRefusal /\ With(t, "assign", [call[t] EXCEPT !.stage = batch'.stage])
    <3>1. RecordMove
      BY <1>1, <1>2, <2>3, ErrorMoves DEF CapturedRefusal, BATCH_STATUSES
    <3> QED BY <1>2, <2>3, <3>1, StageMoved
  <2> QED BY <2>1, <2>2, <2>3 DEF ReconcileChild, Mutate
<1> QED BY <1>1, <1>3, JobsStay DEF Moves, CoreInv, RestOk

LEMMA FinishChildMoves ==
    ASSUME CoreInv, NEW t \in Threads, FinishChild(t)
    PROVE  Moves
<1>1. /\ pc[t] = "returned" /\ call[t].child \in Jobs \cup {0}
      /\ UNCHANGED <<batch, rows, poison, alerts, queue, minted, reliable>>
  BY CallHas DEF FinishChild, Calls
<1>2. RecordMove
  BY <1>1 DEF RecordMove
<1>3. pending' \subseteq Jobs /\ suspects' \subseteq Jobs
  BY <1>1 DEF FinishChild, CoreInv, RestOk
<1>4. CallsOk'
  <2>1. CASE Finished(t)
    BY <1>2, <2>1, FinishedMoved
  <2>2. CASE With(t, "b_converge", [NoCall EXCEPT !.list = call[t].list, !.back = call[t].back])
    <3>1. PICK c : c = [NoCall EXCEPT !.list = call[t].list, !.back = call[t].back]
      OBVIOUS
    <3>2. \A d, e \in Calls : LET f == [d EXCEPT !.list = e.list, !.back = e.back] IN
              f \in Calls /\ f.todo = d.todo
      BY DEF Calls
    <3>3. c \in Calls /\ c.todo = <<>>
      BY <3>1, <3>2, FreshCalls, CallHas
    <3>4. "b_converge" \in Pcs \cup BootPcs /\ "b_converge" \notin Pcs
      BY DEF Pcs, BootPcs
    <3>5. With(t, "b_converge", c)
      BY <2>2, <3>1
    <3> QED BY <1>2, <3>3, <3>4, <3>5, FreshMoved
  <2> QED BY <2>1, <2>2 DEF FinishChild
<1>5. RowMoves /\ QueueMove /\ RestOk'
  BY <1>1, <1>3 DEF RowMoves, QueueMove, CoreInv, RestOk, RowsType
<1> QED BY <1>2, <1>4, <1>5 DEF Moves

\* A request begins.
LEMMA StartMoves ==
    ASSUME CoreInv, NEW t \in Threads, StartAdvance(t) \/ StartCancel(t)
    PROVE  Moves
<1>1. Exists /\ UNCHANGED <<batch, jobvars, minted, reliable>>
  BY DEF StartAdvance, StartCancel
<1>2. RecordMove
  BY <1>1 DEF RecordMove
<1>3. \/ With(t, "advance", [NoCall EXCEPT !.op = "advance"])
      \/ With(t, "intent", [NoCall EXCEPT !.op = "cancel"])
  BY DEF StartAdvance, StartCancel
<1>4. PICK c, d : c = [NoCall EXCEPT !.op = "advance"] /\ d = [NoCall EXCEPT !.op = "cancel"]
  OBVIOUS
<1>5. c \in Calls /\ c.todo = <<>> /\ d \in Calls /\ d.todo = <<>>
  BY <1>4, FreshCalls DEF Ops
<1>6. CallsOk'
  <2>1. ASSUME With(t, "advance", c) PROVE CallsOk'
    BY <1>1, <1>2, <1>5, <2>1, FreshMoved DEF Pcs
  <2>2. ASSUME With(t, "intent", d) PROVE CallsOk'
    BY <1>1, <1>2, <1>5, <2>2, FreshMoved DEF Pcs
  <2> QED BY <1>3, <1>4, <2>1, <2>2
<1> QED BY <1>1, <1>2, <1>6, JobsStay DEF Moves, CoreInv, RestOk

LEMMA AdvanceMoves ==
    ASSUME CoreInv, NEW t \in Threads, Advance(t)
    PROVE  Moves
<1>1. pc[t] = "advance" /\ UNCHANGED <<jobvars, minted, reliable, bounds>>
  BY DEF Advance
<1>2. Exists
  BY <1>1, CallHas DEF Pcs
<1>3. RecordMove /\ CallsOk'
  <2>1. CASE UNCHANGED batch /\ Finished(t)
    <3>1. RecordMove
      BY <1>1, <2>1 DEF RecordMove
    <3> QED BY <1>2, <2>1, <3>1, FinishedMoved
  <2>2. CASE batch' = RecomputedAndAdvanced /\ With(t, "assign", [call[t] EXCEPT !.stage = batch'.stage])
    <3>1. RecordMove
      BY <1>1, <1>2, <2>2, AdvancedMoves
    <3> QED BY <1>2, <2>2, <3>1, StageMoved
  <2> QED BY <2>1, <2>2 DEF Advance, Mutate, MutateNothing
<1> QED BY <1>1, <1>3, JobsStay DEF Moves, CoreInv, RestOk

LEMMA FinishAdvanceMoves ==
    ASSUME CoreInv, NEW t \in Threads, FinishAdvance(t)
    PROVE  Moves
<1>1. pc[t] = "returned" /\ UNCHANGED <<batch, jobvars, minted, reliable, faults, badrefs, bounds>>
  BY DEF FinishAdvance
<1>2. Exists
  BY <1>1, CallHas DEF Pcs
<1>3. RecordMove
  BY <1>1 DEF RecordMove
<1>4. CallsOk'
  <2>1. CASE Finished(t)
    BY <1>3, <2>1, FinishedMoved
  <2>2. CASE Goto(t, "reconcile") /\ UNCHANGED call
    <3>1. With(t, "reconcile", call[t]) /\ call[t] \in Calls
      BY <2>2, CallHas DEF With, Goto
    <3> QED BY <1>2, <1>3, <3>1, NotedMoved DEF Pcs
  <2> QED BY <2>1, <2>2 DEF FinishAdvance
<1> QED BY <1>1, <1>3, <1>4, JobsStay DEF Moves, CoreInv, RestOk

LEMMA GetBatchMoves ==
    ASSUME CoreInv, GetBatch
    PROVE  Moves
<1>1. Exists /\ UNCHANGED <<jobvars, minted, pc, call, reliable, faults, badrefs, bounds>>
  BY DEF GetBatch
<1>2. RecordMove
  BY <1>1, RecomputedMoves DEF GetBatch
<1> QED BY <1>1, <1>2, CallsStay, JobsStay DEF Moves, CoreInv, RestOk

LEMMA PromoteMoves ==
    ASSUME CoreInv, NEW k \in PromoteItems, Promote(k)
    PROVE  Moves
<1>1. Exists /\ UNCHANGED <<jobvars, minted, pc, call, reliable, faults, badrefs, bounds>>
      /\ k \in DOMAIN batch.items
  BY DEF Promote
<1>2. RowsType /\ batch \in Batches
  BY <1>1 DEF CoreInv, RestOk, RecordOk, Sound
<1>3. Restates(batch, batch')
  BY <1>1, <1>2, PromotionRestates DEF Promote
<1>4. RecordMove
  BY <1>1, <1>3 DEF RecordMove
<1> QED BY <1>1, <1>4, CallsStay, JobsStay DEF Moves, CoreInv, RestOk

-----------------------------------------------------------------------------
(* cancel *)

LEMMA ApplyIntentMoves ==
    ASSUME CoreInv, NEW t \in Threads, ApplyIntent(t)
    PROVE  Moves
<1>1. pc[t] = "intent" /\ UNCHANGED <<poison, alerts, suspects, queue, minted, reliable>>
  BY DEF ApplyIntent
<1>2. Exists /\ RowsType /\ batch \in Batches /\ pending \subseteq Jobs /\ poison \subseteq Jobs
  BY <1>1, CallHas DEF Pcs, CoreInv, RestOk, RecordOk, Sound
<1>3. CASE UNCHANGED <<batch, rows, pending>> /\ CancelEnds(t, "none")
  <2>1. RecordMove
    BY <1>1, <1>3 DEF RecordMove
  <2>2. CallsOk'
    BY <1>2, <1>3, <2>1, CancelEndMoved
  <2>3. UNCHANGED jobvars
    BY <1>1, <1>3 DEF jobvars
  <2> QED BY <1>1, <2>1, <2>2, <2>3, JobsStay DEF Moves, CoreInv, RestOk
<1>4. CASE /\ LET b == [batch EXCEPT
                          !.cancelling = TRUE,
                          !.items = [k \in DOMAIN @ |->
                              [@[k] EXCEPT !.status = IntentStatus(batch.items[k])]]]
              IN  /\ batch' = b
                  /\ With(t, "signal", [call[t] EXCEPT !.todo = OpenJobs(b, -1)])
           /\ rows' = [j \in Jobs |-> IF j \in CancelledBlind(batch) THEN "cancelled" ELSE rows[j]]
           /\ pending' = pending \cup CancelledBlind(batch)
  <2>1. PICK b, todo, c :
            /\ b = [batch EXCEPT
                      !.cancelling = TRUE,
                      !.items = [k \in DOMAIN @ |->
                          [@[k] EXCEPT !.status = IntentStatus(batch.items[k])]]]
            /\ todo = OpenJobs(b, -1)
            /\ c = [call[t] EXCEPT !.todo = todo]
    OBVIOUS
  <2>a. PICK s : s = -1
    OBVIOUS
  <2>2. batch' = b /\ With(t, "signal", c)
    BY <1>4, <2>1
  <2>3. Restates(batch, b)
    BY <1>2, <2>1, IntentRestates
  <2>4. RecordMove
    BY <1>1, <1>2, <2>2, <2>3 DEF RecordMove
  <2>5. b \in Batches /\ minted \in Nat /\ \A k \in DOMAIN b.items : b.items[k].job \in 0..minted
    <3>1. Sound(b, rows, minted)
      BY <1>2, <2>3, RestatedKeeps DEF CoreInv, RecordOk
    <3> QED BY <3>1 DEF Sound, OwnedOnce
  <2>6. todo \in Seq(Jobs) /\ \A i \in DOMAIN todo : todo[i] \in 1..minted
    <3>1. /\ todo \in Seq(Jobs)
          /\ \A i \in DOMAIN todo : \E k \in DOMAIN b.items : todo[i] = b.items[k].job
                                                            /\ b.items[k].job # 0
      <4>1. todo = OpenJobs(b, s)
        BY <2>1, <2>a
      <4> QED BY <4>1, <2>5, OpenJobsAreItems
    <3>2. \A j \in 0..minted : j # 0 => j \in 1..minted
      BY <2>5
    <3>3. ASSUME NEW i \in DOMAIN todo PROVE todo[i] \in 1..minted
      <4>1. PICK k \in DOMAIN b.items : todo[i] = b.items[k].job /\ b.items[k].job # 0
        BY <3>1
      <4> QED BY <2>5, <3>2, <4>1
    <3> QED BY <3>1, <3>3
  <2>7. c \in Calls /\ c.todo = todo
    <3>1. \A d \in Calls : \A q \in Seq(Jobs) :
              [d EXCEPT !.todo = q] \in Calls /\ [d EXCEPT !.todo = q].todo = q
      BY NotedCalls
    <3>2. call[t] \in Calls /\ todo \in Seq(Jobs) /\ c = [call[t] EXCEPT !.todo = todo]
      BY <2>1, <2>6, CallHas
    <3> QED BY <3>1, <3>2
  <2>8. CallOk("signal", c, minted')
    BY <1>1, <2>6, <2>7 DEF CallOk, Pcs
  <2>9. CallsOk'
    BY <1>2, <2>2, <2>4, <2>8, CallMoved, RecordMoved
  <2>10. CancelledBlind(batch) \subseteq Jobs
         /\ \A j \in CancelledBlind(batch) : rows[j] = "queued"
    BY <1>2 DEF CancelledBlind
  <2>11. RowsType' /\ RowMoves /\ pending' \subseteq Jobs
    BY <1>2, <1>4, <2>10 DEF RowsType, RowMoves, JOB_STATUSES, TERMINAL_JOB_STATUSES
  <2>12. RestOk' /\ QueueMove
    BY <1>1, <2>11 DEF CoreInv, RestOk, QueueMove
  <2> QED BY <2>4, <2>9, <2>11, <2>12 DEF Moves
<1> QED BY <1>3, <1>4 DEF ApplyIntent

LEMMA SignalChildMoves ==
    ASSUME CoreInv, NEW t \in Threads, SignalChild(t)
    PROVE  Moves
<1>1. pc[t] = "signal" /\ UNCHANGED <<batch, poison, alerts, suspects, queue, minted, reliable>>
  BY DEF SignalChild
<1>2. Exists /\ call[t] \in Calls
  BY <1>1, CallHas DEF Pcs
<1>3. RecordMove
  BY <1>1 DEF RecordMove
<1>4. CASE Goto(t, "reconcile") /\ UNCHANGED <<call, rows, pending>>
  <2>1. With(t, "reconcile", call[t])
    BY <1>4, CallHas DEF With, Goto
  <2>2. CallsOk'
    BY <1>2, <1>3, <2>1, NotedMoved DEF Pcs
  <2>3. UNCHANGED jobvars
    BY <1>1, <1>4 DEF jobvars
  <2> QED BY <1>1, <1>3, <2>2, <2>3, JobsStay DEF Moves, CoreInv, RestOk
<1>5. CASE /\ call[t].todo # <<>>
           /\ With(t, "signal", [call[t] EXCEPT !.todo = Tail(call[t].todo)])
           /\ UNCHANGED <<rows, pending>> \/ CancelRow(Head(call[t].todo))
  <2>1. PICK todo, c : todo = call[t].todo /\ c = [call[t] EXCEPT !.todo = Tail(todo)]
    OBVIOUS
  <2>2. /\ todo \in Seq(Jobs) /\ todo # <<>> /\ \A i \in DOMAIN todo : todo[i] \in 1..minted
    BY <1>5, <2>1, CallHas DEF CallOk
  <2>3. /\ Head(todo) \in Jobs /\ Tail(todo) \in Seq(Jobs)
        /\ Len(todo) \in Nat /\ Len(todo) # 0 /\ DOMAIN todo = 1..Len(todo)
        /\ Len(Tail(todo)) = Len(todo) - 1
        /\ \A i \in 1..Len(Tail(todo)) : Tail(todo)[i] = todo[i + 1]
    BY <2>2, HeadTailProperties, EmptySeq, LenProperties
  <2>4. DOMAIN Tail(todo) = 1..Len(Tail(todo))
    BY <2>3
  <2>5. \A i \in 1..Len(Tail(todo)) : i + 1 \in DOMAIN todo
    BY <2>3
  <2>6. c \in Calls /\ c.todo = Tail(todo)
    <3>1. \A d \in Calls : \A q \in Seq(Jobs) :
              LET e == [d EXCEPT !.todo = q] IN e \in Calls /\ e.todo = q
      BY NotedCalls
    <3> QED BY <1>2, <2>1, <2>3, <3>1
  <2>7. CallOk("signal", c, minted')
    BY <1>1, <2>2, <2>3, <2>4, <2>5, <2>6 DEF CallOk, Pcs
  <2>8. CallsOk'
    BY <1>2, <1>3, <1>5, <2>1, <2>7, CallMoved, RecordMoved
  <2>9. RowMoves /\ RowsType' /\ pending' \subseteq Jobs
    <3>1. CASE UNCHANGED <<rows, pending>>
      BY <3>1 DEF RowMoves, RowsType, CoreInv, RestOk
    <3>2. CASE CancelRow(Head(todo))
      BY <2>3, <3>2, CancelRowMoves
    <3> QED BY <1>5, <2>1, <3>1, <3>2
  <2>10. RestOk' /\ QueueMove
    BY <1>1, <2>9 DEF CoreInv, RestOk, QueueMove
  <2> QED BY <1>3, <2>8, <2>9, <2>10 DEF Moves
<1> QED BY <1>4, <1>5 DEF SignalChild

LEMMA ReconcileMoves ==
    ASSUME CoreInv, NEW t \in Threads, Reconcile(t)
    PROVE  Moves
<1>1. pc[t] = "reconcile" /\ UNCHANGED <<jobvars, minted, reliable, badrefs, bounds>>
  BY DEF Reconcile
<1>2. Exists
  BY <1>1, CallHas DEF Pcs
<1>3. RecordMove
  BY <1>1, <1>2, RecomputedMoves DEF Reconcile, MutateNothing, Mutate
<1>4. \E r \in {"none", "record"} : CancelEnds(t, r)
  BY DEF Reconcile
<1>5. CallsOk'
  BY <1>2, <1>3, <1>4, CancelEndMoved
<1> QED BY <1>1, <1>3, <1>5, JobsStay DEF Moves, CoreInv, RestOk

-----------------------------------------------------------------------------
(* Workers, damaged rows and the poison retry *)

\* No worker touches the record or a call.
LEMMA WorkerMoves ==
    ASSUME CoreInv, NEW j \in Jobs,
           Claim(j) \/ ClaimPoison(j) \/ Finish(j) \/ CorruptRow(j) \/ RepairRow(j)
    PROVE  Moves
<1>1. UNCHANGED <<batch, minted, pc, call, reliable>>
  BY DEF Claim, ClaimPoison, Finish, CorruptRow, RepairRow
<1>2. RecordMove
  BY <1>1 DEF RecordMove
<1>3. CallsOk'
  BY <1>1, <1>2, CallsStay
<1>4. RowsType /\ queue \subseteq Jobs /\ alerts \subseteq Jobs /\ pending \subseteq Jobs
      /\ suspects \subseteq Jobs /\ poison \subseteq Jobs /\ reliable \in BOOLEAN
  BY DEF CoreInv, RestOk
<1>5. CASE Claim(j)
  <2>1. /\ queue' = queue \ {j} /\ UNCHANGED <<poison, pending, alerts, suspects>>
        /\ rows' = IF rows[j] = "queued" THEN [rows EXCEPT ![j] = "running"] ELSE rows
    BY <1>5 DEF Claim
  <2>2. RowsType' /\ RowMoves
    BY <1>4, <2>1 DEF RowsType, RowMoves, JOB_STATUSES, TERMINAL_JOB_STATUSES
  <2> QED BY <1>1, <1>2, <1>3, <1>4, <2>1, <2>2 DEF Moves, RestOk, QueueMove
<1>6. CASE ClaimPoison(j)
  <2>1. /\ queue' = queue \ {j} /\ UNCHANGED <<poison, suspects>>
        /\ \/ UNCHANGED <<rows, pending, alerts>>
           \/ /\ rows[j] = "queued" /\ rows' = [rows EXCEPT ![j] = "failed"]
              /\ pending' = pending \cup {j} /\ alerts' = alerts \cup {j}
    BY <1>6 DEF ClaimPoison
  <2>2. RowsType' /\ RowMoves
    BY <1>4, <2>1 DEF RowsType, RowMoves, JOB_STATUSES, TERMINAL_JOB_STATUSES
  <2> QED BY <1>1, <1>2, <1>3, <1>4, <2>1, <2>2 DEF Moves, RestOk, QueueMove
<1>7. CASE Finish(j)
  <2>1. /\ rows[j] \in {"running", "cancel_requested"} /\ pending' = pending \cup {j}
        /\ UNCHANGED <<poison, alerts, suspects, queue>>
        /\ \E st \in {"succeeded", "failed", "cancelled"} : rows' = [rows EXCEPT ![j] = st]
    BY <1>7 DEF Finish
  <2>2. RowsType' /\ RowMoves
    BY <1>4, <2>1 DEF RowsType, RowMoves, JOB_STATUSES, TERMINAL_JOB_STATUSES
  <2> QED BY <1>1, <1>2, <1>3, <1>4, <2>1, <2>2 DEF Moves, RestOk, QueueMove
<1>8. CASE CorruptRow(j) \/ RepairRow(j)
  <2>1. /\ UNCHANGED <<rows, pending, alerts, suspects, queue>>
        /\ poison' \in {poison \cup {j}, poison \ {j}}
    BY <1>8 DEF CorruptRow, RepairRow
  <2> QED BY <1>1, <1>2, <1>3, <1>4, <2>1 DEF Moves, RestOk, QueueMove, RowsType, RowMoves
<1> QED BY <1>5, <1>6, <1>7, <1>8

LEMMA RetryQuarantineMoves ==
    ASSUME CoreInv, NEW t \in Threads, NEW j \in Jobs, RetryQuarantine(t, j)
    PROVE  Moves
<1>1. Exists /\ UNCHANGED <<batch, poison, alerts, queue, minted, reliable>>
  BY DEF RetryQuarantine
<1>2. RecordMove
  BY <1>1 DEF RecordMove
<1>4. RowsType /\ queue \subseteq Jobs /\ alerts \subseteq Jobs /\ pending \subseteq Jobs
      /\ suspects \subseteq Jobs /\ poison \subseteq Jobs /\ reliable \in BOOLEAN
  BY DEF CoreInv, RestOk
<1>5. /\ suspects' \subseteq Jobs /\ pending' \subseteq Jobs
      /\ rows' = rows \/ (rows[j] = "queued" /\ rows' = [rows EXCEPT ![j] = QuarantineTarget])
  BY <1>4 DEF RetryQuarantine
<1>6. RowsType' /\ RowMoves
  BY <1>4, <1>5 DEF RowsType, RowMoves, QuarantineTarget, JOB_STATUSES, TERMINAL_JOB_STATUSES
<1>7. CallsOk'
  <2>1. CASE UNCHANGED <<pc, call>>
    BY <1>2, <2>1, CallsStay
  <2>2. CASE With(t, "child", [NoCall EXCEPT !.op = "child", !.child = j])
    <3>1. PICK c : c = [NoCall EXCEPT !.op = "child", !.child = j]
      OBVIOUS
    <3>2. \A d \in Calls : LET e == [d EXCEPT !.op = "child", !.child = j] IN
              e \in Calls /\ e.todo = d.todo
      BY DEF Calls, Ops
    <3>3. c \in Calls /\ c.todo = <<>>
      BY <3>1, <3>2, FreshCalls
    <3>4. With(t, "child", c)
      BY <2>2, <3>1
    <3> QED BY <1>1, <1>2, <3>3, <3>4, FreshMoved DEF Pcs
  <2> QED BY <2>1, <2>2 DEF RetryQuarantine
<1>8. RestOk' /\ QueueMove
  BY <1>1, <1>4, <1>5, <1>6 DEF RestOk, QueueMove
<1> QED BY <1>2, <1>6, <1>7, <1>8 DEF Moves

LEMMA RetryRepairedMoves ==
    ASSUME CoreInv, NEW j \in Jobs, RetryRepaired(j)
    PROVE  Moves
<1>1. Exists /\ UNCHANGED <<batch, poison, alerts, minted, pc, call, reliable>>
  BY DEF RetryRepaired
<1>2. RecordMove
  BY <1>1 DEF RecordMove
<1>3. CallsOk'
  BY <1>1, <1>2, CallsStay
<1>4. RowsType /\ queue \subseteq Jobs /\ alerts \subseteq Jobs /\ pending \subseteq Jobs
      /\ suspects \subseteq Jobs /\ poison \subseteq Jobs /\ reliable \in BOOLEAN
  BY DEF CoreInv, RestOk
<1>5. /\ suspects' \subseteq Jobs
      /\ \/ CancelRow(j) /\ UNCHANGED queue
         \/ UNCHANGED <<rows, pending, queue>>
         \/ ~batch.cancelling /\ queue' = Pushed(j) /\ UNCHANGED <<rows, pending>>
  BY <1>4 DEF RetryRepaired
<1>6. queue' \subseteq Jobs /\ QueueMove
  BY <1>4, <1>5 DEF Pushed, QueueMove
<1>7. RowsType' /\ RowMoves /\ pending' \subseteq Jobs
  <2>1. CASE CancelRow(j)
    BY <2>1, CancelRowMoves
  <2>2. CASE UNCHANGED <<rows, pending>>
    BY <1>4, <2>2 DEF RowsType, RowMoves
  <2> QED BY <1>5, <2>1, <2>2
<1>8. RestOk'
  BY <1>1, <1>4, <1>5, <1>6, <1>7 DEF RestOk
<1> QED BY <1>2, <1>3, <1>6, <1>7, <1>8 DEF Moves

-----------------------------------------------------------------------------
(* A crash and the startup recovery *)

LEMMA CrashMoves ==
    ASSUME CoreInv, Crash
    PROVE  Moves
<1>1. /\ queue' = {} /\ alerts' = {} /\ suspects' = {} /\ reliable' = TRUE
      /\ pc' = [t \in Threads |-> IF t = Boot THEN "b_poison" ELSE "idle"]
      /\ call' = [t \in Threads |-> NoCall]
      /\ UNCHANGED <<batch, rows, poison, pending, minted>>
  BY DEF Crash
<1>2. RecordMove
  BY <1>1 DEF RecordMove
<1>3. "b_poison" \in (Pcs \cup BootPcs) \ (Pcs \cup {"check", "create", "authorize", "revoke"})
      /\ "idle" \in Pcs
  BY DEF Pcs, BootPcs
<1>4. CallsOk'
  <2>1. CallOk("b_poison", NoCall, minted') /\ CallOk("idle", NoCall, minted')
    BY <1>3, FreshCalls, FreshCallOk
  <2> QED BY <1>1, <1>3, <2>1, FreshCalls DEF CallsOk
<1>5. RowMoves /\ QueueMove /\ RestOk'
  BY <1>1 DEF RowMoves, QueueMove, RestOk, RowsType, CoreInv
<1> QED BY <1>2, <1>4, <1>5 DEF Moves

\* The thread of startup, and its steps, that run while the service is not up.
LEMMA BootRuns ==
    /\ Boot \in Threads
    /\ \A p \in BootPcs : p \in Pcs \cup BootPcs /\ p \notin Pcs
                          /\ p \notin {"check", "create", "authorize", "revoke"}
  BY DEF Threads, Pcs, BootPcs

\* Rows that were queued, or whose worker died, are finished.
LEMMA RowsFinished ==
    ASSUME CoreInv, NEW D \in SUBSET Jobs, NEW f,
           \A j \in D : rows[j] \in {"queued", "running", "cancel_requested"}
                        /\ f[j] \in TERMINAL_JOB_STATUSES,
           rows' = [j \in Jobs |-> IF j \in D THEN f[j] ELSE rows[j]]
    PROVE  RowsType' /\ RowMoves
<1>1. RowsType /\ TERMINAL_JOB_STATUSES \subseteq JOB_STATUSES
  BY DEF CoreInv, RestOk, TERMINAL_JOB_STATUSES, JOB_STATUSES
<1>2. \A j \in D : rows[j] \notin TERMINAL_JOB_STATUSES \cup {"absent"}
  BY DEF TERMINAL_JOB_STATUSES
<1> QED BY <1>1, <1>2 DEF RowsType, RowMoves

LEMMA BootPoisonMoves ==
    ASSUME CoreInv, BootPoison
    PROVE  Moves
<1>1. UNCHANGED <<batch, poison, alerts, queue, minted, reliable>>
  BY DEF BootPoison
<1>2. RecordMove
  BY <1>1 DEF RecordMove
<1>3. poison \subseteq Jobs /\ pending \subseteq Jobs /\ suspects \subseteq Jobs /\ RowsType
  BY DEF CoreInv, RestOk
<1> DEFINE queued == {j \in poison : rows[j] = "queued"}
<1>4. CASE /\ suspects' = suspects \cup poison /\ With(Boot, "b_cancel", NoCall)
           /\ UNCHANGED <<rows, pending>>
  <2>1. CallsOk'
    BY <1>2, <1>4, BootRuns, FreshCalls, FreshMoved DEF BootPcs
  <2>2. RowMoves /\ QueueMove /\ RestOk'
    BY <1>1, <1>3, <1>4 DEF RowMoves, QueueMove, CoreInv, RestOk, RowsType
  <2> QED BY <1>2, <2>1, <2>2 DEF Moves
<1>5. CASE /\ rows' = [j \in Jobs |-> IF j \in queued THEN QuarantineTarget ELSE rows[j]]
           /\ pending' = pending \cup queued
           /\ With(Boot, "b_converge", [NoCall EXCEPT !.list = poison, !.back = "b_cancel"])
           /\ UNCHANGED suspects
  <2>1. RowsType' /\ RowMoves
    <3>1. PICK f : f = [j \in Jobs |-> QuarantineTarget]
      OBVIOUS
    <3>2. queued \in SUBSET Jobs /\ QuarantineTarget \in TERMINAL_JOB_STATUSES
      BY <1>3 DEF QuarantineTarget, TERMINAL_JOB_STATUSES
    <3>3. \A j \in queued : rows[j] \in {"queued", "running", "cancel_requested"}
                            /\ f[j] \in TERMINAL_JOB_STATUSES
      BY <3>1, <3>2
    <3>4. rows' = [j \in Jobs |-> IF j \in queued THEN f[j] ELSE rows[j]]
      BY <1>5, <3>1
    <3> HIDE DEF queued
    <3> QED BY <3>2, <3>3, <3>4, RowsFinished
  <2>2. CallsOk'
    <3>1. PICK c : c = [NoCall EXCEPT !.list = poison, !.back = "b_cancel"]
      OBVIOUS
    <3>2. \A d \in Calls : \A q \in SUBSET Jobs : LET e == [d EXCEPT !.list = q, !.back = "b_cancel"] IN
              e \in Calls /\ e.todo = d.todo
      BY DEF Calls
    <3>3. c \in Calls /\ c.todo = <<>>
      BY <1>3, <3>1, <3>2, FreshCalls
    <3>4. With(Boot, "b_converge", c) /\ "b_converge" \in BootPcs
      BY <1>5, <3>1 DEF BootPcs
    <3> QED BY <1>2, <3>3, <3>4, BootRuns, FreshMoved
  <2>3. QueueMove /\ RestOk'
    BY <1>1, <1>3, <1>5, <2>1 DEF QueueMove, CoreInv, RestOk
  <2> QED BY <1>2, <2>1, <2>2, <2>3 DEF Moves
<1> QED BY <1>4, <1>5 DEF BootPoison

LEMMA BootConvergeMoves ==
    ASSUME CoreInv, BootConverge
    PROVE  Moves
<1>1. pc[Boot] = "b_converge" /\ UNCHANGED <<batch, jobvars, minted, reliable, faults, badrefs, bounds>>
  BY DEF BootConverge
<1>2. RecordMove
  BY <1>1 DEF RecordMove
<1>3. call[Boot] \in Calls
  BY BootRuns, CallHas
<1>4. CallsOk'
  <2>1. CASE With(Boot, call[Boot].back, NoCall)
    <3>1. PICK p : p = call[Boot].back
      OBVIOUS
    <3>2. p \in {"idle", "b_cancel", "b_reconcile"}
      BY <1>3, <3>1 DEF Calls
    <3>3. p \in Pcs \cup BootPcs /\ p \notin Pcs \ {"idle"}
          /\ p \notin {"check", "create", "authorize", "revoke"}
      BY <3>2 DEF Pcs, BootPcs
    <3> QED BY <1>2, <2>1, <3>1, <3>3, BootRuns, FreshCalls, FreshMoved
  <2>2. CASE Exists /\ \E j \in call[Boot].list :
              With(Boot, "child", [NoCall EXCEPT !.op = "child", !.child = j,
                                                 !.list = call[Boot].list \ {j},
                                                 !.back = call[Boot].back])
    <3>1. PICK j \in call[Boot].list :
              With(Boot, "child", [NoCall EXCEPT !.op = "child", !.child = j,
                                                 !.list = call[Boot].list \ {j},
                                                 !.back = call[Boot].back])
      BY <2>2
    <3>2. PICK q, p, c : /\ q = call[Boot].list \ {j} /\ p = call[Boot].back
                         /\ c = [NoCall EXCEPT !.op = "child", !.child = j, !.list = q, !.back = p]
      OBVIOUS
    <3>3. j \in Jobs /\ q \in SUBSET Jobs /\ p \in {"idle", "b_cancel", "b_reconcile"}
      BY <1>3, <3>2 DEF Calls
    <3>4. PICK d : d = [NoCall EXCEPT !.op = "child", !.child = j]
      OBVIOUS
    <3>5. d \in Calls /\ d.todo = <<>>
      <4>1. \A e \in Calls : LET f == [e EXCEPT !.op = "child", !.child = j] IN
                f \in Calls /\ f.todo = e.todo
        BY <3>3 DEF Calls, Ops
      <4> QED BY <3>4, <4>1, FreshCalls
    <3>7. c \in Calls /\ c.todo = <<>>
      <4>1. c = [d EXCEPT !.list = q, !.back = p]
        BY <3>2, <3>4
      <4>2. \A e \in Calls : LET f == [e EXCEPT !.list = q, !.back = p] IN
                f \in Calls /\ f.todo = e.todo
        BY <3>3 DEF Calls
      <4> QED BY <3>5, <4>1, <4>2
    <3>6. With(Boot, "child", c) /\ "child" \in Pcs /\ Exists
      BY <2>2, <3>1, <3>2 DEF Pcs
    <3> QED BY <1>2, <3>6, <3>7, BootRuns, FreshMoved
  <2> QED BY <2>1, <2>2 DEF BootConverge
<1> QED BY <1>1, <1>2, <1>4, JobsStay DEF Moves, CoreInv, RestOk

LEMMA BootCancelMoves ==
    ASSUME CoreInv, BootCancel
    PROVE  Moves
<1>1. UNCHANGED <<batch, jobvars, minted, badrefs, bounds>> /\ reliable' \in BOOLEAN
  BY DEF BootCancel, CoreInv, RestOk
<1>2. RecordMove
  BY <1>1 DEF RecordMove
<1>3. CallsOk'
  <2>1. CASE With(Boot, "b_resume", NoCall)
    BY <1>2, <2>1, BootRuns, FreshCalls, FreshMoved DEF BootPcs
  <2>2. CASE Exists /\ With(Boot, "intent", [NoCall EXCEPT !.op = "resume_cancel"])
    <3>1. PICK c : c = [NoCall EXCEPT !.op = "resume_cancel"]
      OBVIOUS
    <3>2. c \in Calls /\ c.todo = <<>> /\ With(Boot, "intent", c)
      BY <2>2, <3>1, FreshCalls DEF Ops
    <3> QED BY <1>2, <2>2, <3>2, BootRuns, FreshMoved DEF Pcs
  <2> QED BY <2>1, <2>2 DEF BootCancel
<1> QED BY <1>1, <1>2, <1>3, JobsStay DEF Moves

LEMMA FinishResumeCancelMoves ==
    ASSUME CoreInv, FinishResumeCancel
    PROVE  Moves
<1>1. /\ UNCHANGED <<batch, jobvars, minted, faults, badrefs, bounds>> /\ reliable' \in BOOLEAN
      /\ With(Boot, "b_resume", NoCall)
  BY DEF FinishResumeCancel
<1>2. RecordMove
  BY <1>1 DEF RecordMove
<1>3. CallsOk'
  BY <1>1, <1>2, BootRuns, FreshCalls, FreshMoved DEF BootPcs
<1> QED BY <1>1, <1>2, <1>3, JobsStay DEF Moves

\* One more attempt of step 2b, or the next step.
LEMMA RetryResumeMoved ==
    ASSUME CoreInv, RecordMove, RetryResume
    PROVE  CallsOk'
<1>1. PICK n, p, c :
          /\ n = (IF call[Boot].tries + 1 < STARTUP_BATCH_SCAN_MAX_ATTEMPTS
                  THEN call[Boot].tries + 1 ELSE 0)
          /\ p = (IF call[Boot].tries + 1 < STARTUP_BATCH_SCAN_MAX_ATTEMPTS
                  THEN "b_resume" ELSE "b_classify")
          /\ c = [NoCall EXCEPT !.tries = n]
  OBVIOUS
<1>2. n \in 0..STARTUP_BATCH_SCAN_MAX_ATTEMPTS
  <2>1. call[Boot].tries \in 0..STARTUP_BATCH_SCAN_MAX_ATTEMPTS
    BY BootRuns, CallHas DEF Calls
  <2> QED BY <1>1, <2>1 DEF STARTUP_BATCH_SCAN_MAX_ATTEMPTS
<1>3. c \in Calls /\ c.todo = <<>>
  <2>1. \A d \in Calls : \A m \in 0..STARTUP_BATCH_SCAN_MAX_ATTEMPTS :
            LET e == [d EXCEPT !.tries = m] IN e \in Calls /\ e.todo = d.todo
    BY DEF Calls
  <2> QED BY <1>1, <1>2, <2>1, FreshCalls
<1>4. With(Boot, p, c) /\ p \in BootPcs
  BY <1>1 DEF RetryResume, BootPcs
<1> QED BY <1>3, <1>4, BootRuns, FreshMoved

LEMMA BootResumeMoves ==
    ASSUME CoreInv, BootResume
    PROVE  Moves
<1>1. UNCHANGED <<batch, jobvars, minted, reliable, badrefs, bounds>>
  BY DEF BootResume
<1>2. RecordMove
  BY <1>1 DEF RecordMove
<1>3. CallsOk'
  <2>1. CASE RetryResume
    BY <1>2, <2>1, RetryResumeMoved
  <2>2. CASE With(Boot, "b_classify", NoCall)
    BY <1>2, <2>2, BootRuns, FreshCalls, FreshMoved DEF BootPcs
  <2>3. CASE Exists /\ With(Boot, "assign", [NoCall EXCEPT !.op = "resume_stage",
                                           !.stage = batch.stage, !.tries = call[Boot].tries])
    <3>1. PICK s, n, c : s = batch.stage /\ n = call[Boot].tries
             /\ c = [NoCall EXCEPT !.op = "resume_stage", !.stage = s, !.tries = n]
      OBVIOUS
    <3>2. s \in Nat /\ n \in 0..STARTUP_BATCH_SCAN_MAX_ATTEMPTS
      BY <2>3, <3>1, BootRuns, CallHas DEF Calls, CoreInv, RecordOk, Sound, Batches
    <3>3. \A d \in Calls : \A r \in Nat : \A m \in 0..STARTUP_BATCH_SCAN_MAX_ATTEMPTS :
            LET e == [d EXCEPT !.op = "resume_stage", !.stage = r, !.tries = m] IN
            e \in Calls /\ e.todo = d.todo
      BY DEF Calls, Ops
    <3>4. c \in Calls /\ c.todo = <<>>
      <4>1. LET e == [NoCall EXCEPT !.op = "resume_stage", !.stage = s, !.tries = n] IN
            e \in Calls /\ e.todo = NoCall.todo
        BY <3>2, <3>3, FreshCalls
      <4> QED BY <3>1, <4>1, FreshCalls
    <3>5. With(Boot, "assign", c)
      BY <2>3, <3>1
    <3> QED BY <1>2, <2>3, <3>4, <3>5, BootRuns, FreshMoved DEF Pcs
  <2> QED BY <2>1, <2>2, <2>3 DEF BootResume
<1> QED BY <1>1, <1>2, <1>3, JobsStay DEF Moves, CoreInv, RestOk

LEMMA FinishResumeMoves ==
    ASSUME CoreInv, FinishResume
    PROVE  Moves
<1>1. pc[Boot] = "returned" /\ UNCHANGED <<jobvars, minted, reliable, badrefs, bounds>>
  BY DEF FinishResume
<1>2. Exists
  BY <1>1, BootRuns, CallHas DEF Pcs
<1>3. RecordMove
  <2>1. ASSUME batch' = batch PROVE RecordMove
    BY <1>1, <2>1 DEF RecordMove
  <2>2. ASSUME batch' = MaterializationFailed PROVE RecordMove
    BY <1>1, <1>2, <2>2, ErrorMoves DEF MaterializationFailed, BATCH_STATUSES
  <2> QED BY <2>1, <2>2 DEF FinishResume, Mutate, MutateNothing
<1>4. CallsOk'
  <2>1. CASE RetryResume
    BY <1>3, <2>1, RetryResumeMoved
  <2>2. CASE With(Boot, "b_classify", NoCall)
    BY <1>3, <2>2, BootRuns, FreshCalls, FreshMoved DEF BootPcs
  <2> QED BY <2>1, <2>2 DEF FinishResume
<1> QED BY <1>1, <1>3, <1>4, JobsStay DEF Moves, CoreInv, RestOk

LEMMA BootClassifyMoves ==
    ASSUME CoreInv, BootClassify
    PROVE  Moves
<1> DEFINE dead == {j \in Jobs \ poison : rows[j] \in {"running", "cancel_requested"}}
<1>1. /\ UNCHANGED <<batch, poison, alerts, suspects, queue, minted, reliable>>
      /\ rows' = [j \in Jobs |-> IF j \notin dead THEN rows[j]
                                 ELSE IF rows[j] = "running" THEN "failed" ELSE "cancelled"]
      /\ pending' = pending \cup dead
      /\ With(Boot, "b_converge", [NoCall EXCEPT !.list = pending' \ poison,
                                                 !.back = "b_reconcile"])
  BY DEF BootClassify
<1>2. RecordMove
  BY <1>1 DEF RecordMove
<1>3. pending' \subseteq Jobs
  BY <1>1 DEF CoreInv, RestOk
<1>4. RowsType' /\ RowMoves
  <2>1. PICK f : f = [j \in Jobs |-> IF rows[j] = "running" THEN "failed" ELSE "cancelled"]
    OBVIOUS
  <2>2. dead \in SUBSET Jobs /\ \A j \in dead :
            /\ rows[j] \in {"queued", "running", "cancel_requested"}
            /\ f[j] \in TERMINAL_JOB_STATUSES
    BY <2>1 DEF TERMINAL_JOB_STATUSES
  <2>3. rows' = [j \in Jobs |-> IF j \in dead THEN f[j] ELSE rows[j]]
    BY <1>1, <2>1
  <2> HIDE DEF dead
  <2> QED BY <2>2, <2>3, RowsFinished
<1>5. CallsOk'
  <2>1. PICK q, c : q = pending' \ poison /\ c = [NoCall EXCEPT !.list = q, !.back = "b_reconcile"]
    OBVIOUS
  <2>2. \A d \in Calls : \A r \in SUBSET Jobs : LET e == [d EXCEPT !.list = r, !.back = "b_reconcile"] IN
            e \in Calls /\ e.todo = d.todo
    BY DEF Calls
  <2>3. c \in Calls /\ c.todo = <<>>
    <3>1. q \in SUBSET Jobs
      BY <1>3, <2>1
    <3> QED BY <2>1, <2>2, <3>1, FreshCalls
  <2>4. With(Boot, "b_converge", c) /\ "b_converge" \in BootPcs
    BY <1>1, <2>1 DEF BootPcs
  <2> QED BY <1>2, <2>3, <2>4, BootRuns, FreshMoved
<1>6. QueueMove /\ RestOk'
  BY <1>1, <1>3, <1>4 DEF QueueMove, CoreInv, RestOk
<1> QED BY <1>2, <1>4, <1>5, <1>6 DEF Moves

LEMMA BootReconcileMoves ==
    ASSUME CoreInv, BootReconcile
    PROVE  Moves
<1>1. /\ UNCHANGED <<jobvars, minted, reliable, badrefs, bounds>>
      /\ With(Boot, "b_enqueue", NoCall)
      /\ batch' = batch \/ (Exists /\ batch' = Recompute(batch))
  BY DEF BootReconcile, Mutate
<1>2. RecordMove
  <2>1. ASSUME batch' = batch PROVE RecordMove
    BY <1>1, <2>1 DEF RecordMove
  <2> QED BY <1>1, <2>1, RecomputedMoves
<1>3. CallsOk'
  BY <1>1, <1>2, BootRuns, FreshCalls, FreshMoved DEF BootPcs
<1> QED BY <1>1, <1>2, <1>3, JobsStay DEF Moves, CoreInv, RestOk

LEMMA BootEnqueueMoves ==
    ASSUME CoreInv, BootEnqueue
    PROVE  Moves
<1>1. /\ pc[Boot] = "b_enqueue" /\ With(Boot, "up", NoCall)
      /\ UNCHANGED <<batch, rows, poison, pending, alerts, suspects, minted, reliable>>
  BY DEF BootEnqueue
<1>2. RecordMove
  BY <1>1 DEF RecordMove
<1>3. queue' \subseteq Jobs
  BY DEF BootEnqueue, CoreInv, RestOk
<1>4. CallsOk'
  BY <1>1, <1>2, BootRuns, FreshCalls, FreshMoved DEF BootPcs
<1>5. QueueMove
  BY <1>1 DEF QueueMove, Up
<1>6. RowMoves /\ RestOk'
  BY <1>1, <1>3 DEF RowMoves, RestOk, RowsType, CoreInv
<1> QED BY <1>2, <1>4, <1>5, <1>6 DEF Moves

-----------------------------------------------------------------------------
(* The theorems *)

\* Nothing has been asked for yet.
LEMMA InitIsSound == Init => CoreInv
<1> SUFFICES ASSUME Init PROVE CoreInv
  OBVIOUS
<1>1. RestOk
  BY DEF Init, RestOk, RowsType
<1>2. RecordOk
  <2>1. MaxJobs \in Nat
    BY BatchAssumption
  <2> QED BY <2>1 DEF Init, RecordOk, Exists
<1>3. CallsOk
  <2>1. /\ pc = [t \in Threads |-> IF t = Boot THEN "up" ELSE "idle"]
        /\ call = [t \in Threads |-> NoCall]
    BY DEF Init
  <2>2. "up" \in (Pcs \cup BootPcs) \ Pcs /\ "idle" \in Pcs
        /\ "up" \notin {"check", "create", "authorize", "revoke"}
    BY DEF Pcs, BootPcs
  <2>3. CallOk("up", NoCall, minted) /\ CallOk("idle", NoCall, minted)
    BY <2>2, FreshCalls, FreshCallOk
  <2> QED BY <2>1, <2>2, <2>3, FreshCalls DEF CallsOk
<1> QED BY <1>1, <1>2, <1>3 DEF CoreInv

\* Every step of the batches is such a move.
LEMMA StepMoves ==
    ASSUME CoreInv, [Next]_vars
    PROVE  Moves
<1>a. \A t \in Procs : t \in Threads
  BY DEF Threads
<1>1. ASSUME NEW t \in Procs,
             CreateBatch(t) \/ StartAdvance(t) \/ StartCancel(t) \/ Converge(t)
      PROVE  Moves
  <2>1. CASE CreateBatch(t)
    BY <1>a, <2>1, CreateBatchMoves
  <2>2. CASE StartAdvance(t) \/ StartCancel(t)
    BY <1>a, <2>2, StartMoves
  <2>3. CASE Converge(t)
    BY <1>a, <2>3, StartChildMoves, RetryQuarantineMoves DEF Converge
  <2> QED BY <1>1, <2>1, <2>2, <2>3
<1>2. ASSUME NEW t \in Threads, StageStep(t) PROVE Moves
  BY <1>2, AssignIdsMoves, CheckCancelledMoves, CreateOrReuseJobMoves, AuthorizeAndExposeMoves,
     RevokeChildMoves, ClearStaleFailureMoves, SettleStageMoves DEF StageStep
<1>3. ASSUME NEW t \in Threads, CallStep(t) PROVE Moves
  BY <1>2, <1>3, FinishCreateMoves, ReconcileChildMoves, FinishChildMoves, AdvanceMoves,
     FinishAdvanceMoves, ApplyIntentMoves, SignalChildMoves, ReconcileMoves DEF CallStep
<1>4. ASSUME BootStep PROVE Moves
  BY <1>4, BootPoisonMoves, BootConvergeMoves, BootCancelMoves, FinishResumeCancelMoves,
     BootResumeMoves, FinishResumeMoves, BootClassifyMoves, BootReconcileMoves,
     BootEnqueueMoves DEF BootStep
<1>5. ASSUME NEW j \in Jobs, \/ Claim(j) \/ ClaimPoison(j) \/ Finish(j) \/ CorruptRow(j)
                             \/ RepairRow(j) \/ RetryRepaired(j)
      PROVE  Moves
  BY <1>5, WorkerMoves, RetryRepairedMoves
<1>6. ASSUME UNCHANGED vars PROVE Moves
  <2>1. UNCHANGED <<batch, minted, jobvars, pc, call, reliable>>
    BY <1>6 DEF vars, jobvars
  <2>2. RecordMove
    BY <2>1 DEF RecordMove
  <2> QED BY <2>1, <2>2, CallsStay, JobsStay DEF Moves, CoreInv, RestOk
<1> QED
  BY <1>1, <1>3, <1>4, <1>5, <1>6, GetBatchMoves, PromoteMoves, CrashMoves DEF Next

\* The record and the calls, in every reachable state.
LEMMA CoreInvariant == Spec => []CoreInv
<1>1. CoreInv /\ [Next]_vars => CoreInv'
  BY StepMoves, MovesKeep
<1> QED
  BY InitIsSound, <1>1, PTL DEF Spec

\* The inductive invariant of the batches.
THEOREM BatchInvariant == Spec => []IndInv
  BY CoreInvariant, Bridge, PTL

\* Every child job belongs to exactly one item, however often a stage is
\* materialised, by whichever threads and across crashes (_enqueue_stage).
THEOREM ChildrenAccounted == Spec => []ChildrenAreAccounted
<1>1. IndInv => ChildrenAreAccounted
  BY DEF IndInv
<1> QED
  BY BatchInvariant, <1>1, PTL

\* A stage follows from the winners of a stage that was over, once
\* (_try_advance_in_place, _rank_winners).
THEOREM WinnersFollowed == Spec => []StagesFollowWinners
<1>1. IndInv => StagesFollowWinners
  BY DEF IndInv
<1> QED
  BY BatchInvariant, <1>1, PTL

\* A saved cancellation keeps the batch's children out of the running
\* service's queue, and an item keeps its job and its outcome
\* (_authorize_and_expose, cancel).
THEOREM DecisionsKept == Spec => DecisionsAreKept
<1>1. CoreInv /\ [Next]_vars =>
          [(Up /\ Exists /\ batch.cancelling) => queue' \subseteq queue]_vars
  BY StepMoves DEF Moves, QueueMove
<1>2. CoreInv /\ [Next]_vars =>
          [Exists => \A k \in DOMAIN batch.items :
              /\ batch.items[k].job # 0 => batch'.items[k].job = batch.items[k].job
              /\ batch.items[k].status \in {"succeeded", "failed"} =>
                    batch'.items[k].status = batch.items[k].status]_vars
  BY StepMoves, MovesKeep DEF OutcomesKept
<1>3. Spec => CancelStopsExposure
  BY CoreInvariant, <1>1, PTL DEF Spec, CancelStopsExposure
<1>4. Spec => OutcomesAreKept
  BY CoreInvariant, <1>2, PTL DEF Spec, OutcomesAreKept
<1> QED
  BY <1>3, <1>4 DEF DecisionsAreKept
=============================================================================
