---------------------------- MODULE Lists_proofs ----------------------------
(***************************************************************************)
(* What a filter of a list returns.                                        *)
(***************************************************************************)
EXTENDS Lists, FiniteSetTheorems, TLAPS

(* The positions that stay are a finite set of numbers.                     *)
LEMMA StayFinite ==
    ASSUME NEW S, NEW order \in Seq(S), NEW keep
    PROVE  /\ Stay(order, keep) \subseteq Nat
           /\ IsFiniteSet(Stay(order, keep))
           /\ Cardinality(Stay(order, keep)) \in Nat
  <1>1. /\ Stay(order, keep) \in SUBSET (1..Len(order))
        /\ Len(order) \in Nat /\ 1..Len(order) \subseteq Nat
    BY DEF Stay
  <1>2. IsFiniteSet(1..Len(order))
    BY <1>1, FS_Interval
  <1>3. IsFiniteSet(Stay(order, keep))
    BY <1>1, <1>2, FS_Subset
  <1> QED BY <1>1, <1>3, FS_CardinalityType

(* The ranks of n positions are the numbers from 1 to n, each of one        *)
(* position.                                                               *)
LEMMA Ranking ==
    ASSUME NEW at, at \subseteq Nat, IsFiniteSet(at)
    PROVE  /\ \A i \in at : Rank(at, i) \in 1..Cardinality(at)
           /\ \A n \in 1..Cardinality(at) : \E i \in at : Rank(at, i) = n
           /\ \A i, k \in at : Rank(at, i) = Rank(at, k) => i = k
  <1> DEFINE upTo(i) == {j \in at : j <= i}
             rank == [i \in at |-> Rank(at, i)]
             ranks == 1..Cardinality(at)
  <1>1. Cardinality(at) \in Nat
    BY FS_CardinalityType
  <1>2. \A i \in at : /\ upTo(i) \in SUBSET at /\ IsFiniteSet(upTo(i))
                      /\ Cardinality(upTo(i)) \in Nat
                      /\ Cardinality(upTo(i)) <= Cardinality(at)
                      /\ Cardinality(upTo(i)) # 0
    <2> SUFFICES ASSUME NEW i \in at
                 PROVE  /\ upTo(i) \in SUBSET at /\ IsFiniteSet(upTo(i))
                        /\ Cardinality(upTo(i)) \in Nat
                        /\ Cardinality(upTo(i)) <= Cardinality(at)
                        /\ Cardinality(upTo(i)) # 0
      OBVIOUS
    <2>1. upTo(i) \in SUBSET at /\ i \in upTo(i)
      OBVIOUS
    <2>2. IsFiniteSet(upTo(i)) /\ Cardinality(upTo(i)) <= Cardinality(at)
      BY <2>1, FS_Subset
    <2>3. Cardinality(upTo(i)) \in Nat
      BY <2>2, FS_CardinalityType
    <2>4. Cardinality(upTo(i)) # 0
      BY <2>1, <2>2, FS_EmptySet
    <2> QED BY <2>1, <2>2, <2>3, <2>4
  <1>3. \A i \in at : Rank(at, i) \in ranks
    BY <1>1, <1>2 DEF Rank
  <1>4. \A i, k \in at : i # k => Rank(at, i) # Rank(at, k)
    <2>1. ASSUME NEW i \in at, NEW k \in at, i < k PROVE Rank(at, i) # Rank(at, k)
      <3>. i \in Nat /\ k \in Nat /\ i < k
        BY <2>1
      <3>1. \A j \in at : j <= i => j <= k
        OBVIOUS
      <3>2. k <= k /\ ~(k <= i)
        OBVIOUS
      <3>3. upTo(i) \in SUBSET upTo(k) /\ k \in upTo(k) /\ k \notin upTo(i)
        BY <3>1, <3>2, Zenon
      <3>4. upTo(i) # upTo(k)
        BY <3>3
      <3>5. IsFiniteSet(upTo(k))
        BY <1>2
      <3> HIDE DEF upTo
      <3>6. Cardinality(upTo(k)) # Cardinality(upTo(i))
        BY <3>3, <3>4, <3>5, FS_Subset
      <3> QED BY <3>6 DEF Rank, upTo
    <2> QED BY <2>1
  <1>5. rank \in Injection(at, ranks)
    BY <1>3, <1>4 DEF Injection, IsInjective
  <1>6. IsFiniteSet(ranks) /\ Cardinality(ranks) = Cardinality(at)
    BY <1>1, FS_Interval
  <1>7. rank \in Surjection(at, ranks)
    BY <1>5, <1>6, FS_Injection
  <1> QED BY <1>3, <1>4, <1>7 DEF Surjection

(* A set of positions has a first one.                                      *)
LEMMA Smallest ==
    ASSUME NEW at, at \subseteq Nat, IsFiniteSet(at), at # {}
    PROVE  \E i \in at : \A j \in at : i <= j
  <1>1. Cardinality(at) \in Nat /\ Cardinality(at) # 0
    BY FS_CardinalityType, FS_EmptySet
  <1>2. 1 \in 1..Cardinality(at)
    BY <1>1
  <1>3. PICK i \in at : Rank(at, i) = 1
    BY <1>2, Ranking
  <1> DEFINE upTo == {j \in at : j <= i}
  <1>4. Cardinality(upTo) = 1
    BY <1>3 DEF Rank
  <1>5. upTo \in SUBSET at
    OBVIOUS
  <1>6. IsFiniteSet(upTo)
    BY <1>5, FS_Subset
  <1>7. i \in upTo /\ \A j \in at : j <= i => j \in upTo
    OBVIOUS
  <1> HIDE DEF upTo
  <1>8. PICK x : upTo = {x}
    BY <1>4, <1>6, FS_Singleton
  <1>9. \A j \in at : j <= i => j = i
    BY <1>7, <1>8
  <1>10. \A j \in at : i <= j
    BY <1>9
  <1> QED  BY <1>10

(* A list has a position where a measure is least, and a first such one.     *)
LEMMA SmallestBy ==
    ASSUME NEW at, at \subseteq Nat, IsFiniteSet(at), at # {}, NEW f \in [at -> Nat]
    PROVE  \E i \in at : \A j \in at : f[i] < f[j] \/ (f[i] = f[j] /\ i <= j)
  <1> DEFINE values == {f[i] : i \in at}
  <1>1. f \in Surjection(at, values)
    BY DEF Surjection
  <1>2. values \subseteq Nat /\ values # {}
    OBVIOUS
  <1>3. \A i \in at : f[i] \in values
    OBVIOUS
  <1>4. \A x \in values : \E i \in at : f[i] = x
    OBVIOUS
  <1> HIDE DEF values
  <1>5. IsFiniteSet(values)
    BY <1>1, FS_Surjection
  <1>6. PICK least \in values : \A x \in values : least <= x
    BY <1>2, <1>5, Smallest
  <1> DEFINE there == {i \in at : f[i] = least}
  <1>7. there \in SUBSET at /\ there # {} /\ there \subseteq Nat
    BY <1>4
  <1>8. IsFiniteSet(there)
    BY <1>7, FS_Subset
  <1>9. \A i \in at : i \in there <=> f[i] = least
    OBVIOUS
  <1> HIDE DEF there
  <1>10. PICK i \in there : \A j \in there : i <= j
    BY <1>7, <1>8, Smallest
  <1>11. i \in at /\ f[i] = least
    BY <1>7, <1>9, <1>10
  <1>12. ASSUME NEW j \in at
         PROVE  f[i] < f[j] \/ (f[i] = f[j] /\ i <= j)
    <2>1. least <= f[j] /\ least \in Nat /\ f[j] \in Nat
      BY <1>2, <1>3, <1>6
    <2>2. CASE f[j] = least
      BY <1>9, <1>10, <1>11, <2>2
    <2>3. CASE f[j] # least
      BY <1>11, <2>1, <2>3
    <2> QED  BY <2>2, <2>3
  <1> QED  BY <1>11, <1>12

(* The filter of a list of members of S is another one.                      *)
LEMMA OnlyList ==
    ASSUME NEW S, NEW order \in Seq(S), NEW keep
    PROVE  Only(order, keep) \in Seq(S)
  <1> DEFINE at == Stay(order, keep)
             pos(n) == CHOOSE i \in at : Rank(at, i) = n
  <1>1. \A n \in 1..Cardinality(at) : pos(n) \in at
    BY StayFinite, Ranking
  <1>2. \A i \in at : order[i] \in S
    BY DEF Stay
  <1>3. Cardinality(at) \in Nat
    BY StayFinite
  <1>4. \A n \in 1..Cardinality(at) : order[pos(n)] \in S
    BY <1>1, <1>2
  <1> HIDE DEF at, pos
  <1>5. [n \in 1..Cardinality(at) |-> order[pos(n)]] \in Seq(S)
    BY <1>3, <1>4
  <1> QED BY <1>5 DEF at, pos, Only, At

(* An element is in the filtered list when it was in the list and is kept.   *)
LEMMA OnlyElements ==
    ASSUME NEW S, NEW order \in Seq(S), NEW keep, NEW x
    PROVE  In(x, Only(order, keep)) <=> In(x, order) /\ x \in keep
  <1> DEFINE at == Stay(order, keep)
             pos(n) == CHOOSE i \in at : Rank(at, i) = n
             kept == [n \in 1..Cardinality(at) |-> order[pos(n)]]
  <1>1. \A n \in 1..Cardinality(at) : pos(n) \in at /\ Rank(at, pos(n)) = n
    BY StayFinite, Ranking
  <1>2. \A i \in at : Rank(at, i) \in 1..Cardinality(at)
    BY StayFinite, Ranking
  <1>3. \A i \in at : pos(Rank(at, i)) = i
    BY <1>2, StayFinite, Ranking
  <1>4. Only(order, keep) = kept /\ DOMAIN kept = 1..Cardinality(at)
    BY DEF Only, At
  <1>5. ASSUME NEW n \in 1..Cardinality(at), kept[n] = x
        PROVE  In(x, order) /\ x \in keep
    BY <1>1, <1>5 DEF In, Stay
  <1>6. ASSUME In(x, order), x \in keep
        PROVE  \E n \in 1..Cardinality(at) : kept[n] = x
    <2>1. PICK i \in DOMAIN order : order[i] = x
      BY <1>6 DEF In
    <2>2. i \in at
      BY <1>6, <2>1 DEF Stay
    <2>3. kept[Rank(at, i)] = x
      BY <2>1, <2>2, <1>2, <1>3
    <2> QED BY <1>2, <2>2, <2>3
  <1> QED BY <1>4, <1>5, <1>6 DEF In

(* A later position has no smaller rank.                                    *)
LEMMA RankMonotone ==
    ASSUME NEW at, at \subseteq Nat, IsFiniteSet(at), NEW i \in at, NEW k \in at, i <= k
    PROVE  Rank(at, i) <= Rank(at, k)
  <1> DEFINE upTo(n) == {j \in at : j <= n}
  <1>1. upTo(i) \in SUBSET upTo(k) /\ upTo(k) \in SUBSET at
    <2>1. \A j \in at : j <= i => j <= k
      OBVIOUS
    <2> QED BY <2>1, Zenon
  <1>2. IsFiniteSet(upTo(k))
    BY <1>1, FS_Subset
  <1>3. Cardinality(upTo(i)) <= Cardinality(upTo(k))
    BY <1>1, <1>2, FS_Subset
  <1> QED BY <1>3 DEF Rank

(* The elements at some positions: a list of them, in the order they had.    *)
LEMMA AtPositions ==
    ASSUME NEW S, NEW order \in Seq(S), NEW at \in SUBSET DOMAIN order
    PROVE  /\ At(order, at) \in Seq(S)
           /\ \A n \in DOMAIN At(order, at) : \E i \in at : At(order, at)[n] = order[i]
           /\ \A i \in at : \E n \in DOMAIN At(order, at) : At(order, at)[n] = order[i]
           /\ \A n, m \in DOMAIN At(order, at) : n < m =>
                 \E i, j \in at : /\ i < j
                                  /\ At(order, at)[n] = order[i] /\ At(order, at)[m] = order[j]
  <1> DEFINE pos(n) == CHOOSE i \in at : Rank(at, i) = n
             picked == [n \in 1..Cardinality(at) |-> order[pos(n)]]
  <1>1. /\ at \subseteq Nat /\ IsFiniteSet(at) /\ Cardinality(at) \in Nat
        /\ \A i \in at : order[i] \in S
    <2>1. /\ at \in SUBSET (1..Len(order)) /\ Len(order) \in Nat
          /\ 1..Len(order) \subseteq Nat /\ \A i \in DOMAIN order : order[i] \in S
      OBVIOUS
    <2>2. IsFiniteSet(1..Len(order))
      BY <2>1, FS_Interval
    <2>3. IsFiniteSet(at)
      BY <2>1, <2>2, FS_Subset
    <2> QED BY <2>1, <2>3, FS_CardinalityType
  <1>2. \A n \in 1..Cardinality(at) : pos(n) \in at /\ Rank(at, pos(n)) = n
    BY <1>1, Ranking
  <1>3. \A i \in at : Rank(at, i) \in 1..Cardinality(at) /\ pos(Rank(at, i)) = i
    BY <1>1, Ranking
  <1>4. At(order, at) = picked
    BY DEF At
  <1> HIDE DEF pos
  <1>5. picked \in Seq(S) /\ DOMAIN picked = 1..Cardinality(at)
    BY <1>1, <1>2
  <1>6. \A i \in at : picked[Rank(at, i)] = order[i]
    BY <1>3
  <1>7. ASSUME NEW n \in 1..Cardinality(at), NEW m \in 1..Cardinality(at), n < m
        PROVE  pos(n) < pos(m)
    <2> SUFFICES ASSUME pos(m) <= pos(n)
                 PROVE  FALSE
      BY <1>1, <1>2
    <2>1. Rank(at, pos(m)) <= Rank(at, pos(n))
      BY <1>1, <1>2, RankMonotone
    <2> QED BY <1>2, <1>7, <2>1
  <1>8. \A n \in 1..Cardinality(at) : picked[n] = order[pos(n)]
    OBVIOUS
  <1> HIDE DEF picked
  <1> QED BY <1>2, <1>3, <1>4, <1>5, <1>6, <1>7, <1>8

(* A list without elements is the empty one; the first element of a list     *)
(* that has one is in it.                                                  *)
LEMMA FirstIn ==
    ASSUME NEW S, NEW order \in Seq(S), NEW default
    PROVE  /\ order = <<>> <=> \A x : ~In(x, order)
           /\ order = <<>> => First(order, default) = default
           /\ order # <<>> => In(First(order, default), order)
           /\ \A x : In(x, order) => x \in S
  <1>1. order # <<>> => 1 \in DOMAIN order
    OBVIOUS
  <1>2. \A i \in DOMAIN order : order[i] \in S
    OBVIOUS
  <1>3. order = <<>> => DOMAIN order = {}
    OBVIOUS
  <1> QED BY <1>1, <1>2, <1>3 DEF In, First

=============================================================================
