--------------------------- MODULE Packing_proofs ---------------------------
(***************************************************************************)
(* Theorems about Packing, for every graph that main may build: every      *)
(* number of actors, all wirings, capacities and budgets.                  *)
(***************************************************************************)
EXTENDS Packing, FiniteSetTheorems, SequenceTheorems, Induction

-----------------------------------------------------------------------------
(* Putting sets in order.                                                   *)

IsOrder(S, R) ==
  /\ \A x \in S : <<x, x>> \notin R
  /\ \A x, y \in S : x = y \/ <<x, y>> \in R \/ <<y, x>> \in R
  /\ \A x, y, z \in S : <<x, y>> \in R /\ <<y, z>> \in R => <<x, z>> \in R

(* A sequence of all elements of a set, each of them once. *)
Lists(line, S) ==
  /\ line \in Seq(S) /\ Len(line) = Cardinality(S) /\ DOMAIN line = 1..Cardinality(S)
  /\ \A i, j \in 1..Cardinality(S) : line[i] = line[j] => i = j
  /\ \A x \in S : \E i \in 1..Cardinality(S) : line[i] = x

(* The place of an element follows from how many are before it. *)
LEMMA SomeOrder ==
  ASSUME NEW S, IsFiniteSet(S), NEW R, IsOrder(S, R)
  PROVE  \E line \in [1..Cardinality(S) -> S] :
           \A i, j \in 1..Cardinality(S) : i < j => <<line[i], line[j]>> \in R
<1> DEFINE N == Cardinality(S)
           before(x) == {y \in S : <<y, x>> \in R}
           at == [x \in S |-> Cardinality(before(x)) + 1]
<1>n. N \in Nat
  BY FS_CardinalityType
<1>1. ASSUME NEW x \in S
      PROVE  IsFiniteSet(before(x)) /\ Cardinality(before(x)) \in Nat /\ at[x] \in 1..N
  <2>1. IsFiniteSet(S \ {x}) /\ Cardinality(S \ {x}) = N - 1
    BY FS_RemoveElement
  <2>2. before(x) \in SUBSET (S \ {x})
    BY DEF IsOrder
  <2> HIDE DEF before
  <2>3. IsFiniteSet(before(x)) /\ Cardinality(before(x)) <= N - 1
    BY <2>1, <2>2, FS_Subset
  <2>4. Cardinality(before(x)) \in Nat
    BY <2>3, FS_CardinalityType
  <2>5. at[x] = Cardinality(before(x)) + 1
    OBVIOUS
  <2> HIDE DEF at, N
  <2> QED
    BY <2>3, <2>4, <2>5, <1>n
<1>2. ASSUME NEW x \in S, NEW y \in S, <<x, y>> \in R PROVE at[x] < at[y]
  <2>1. before(x) \cup {x} \in SUBSET before(y) /\ x \notin before(x)
    BY <1>2 DEF IsOrder
  <2>i. IsFiniteSet(before(x)) /\ IsFiniteSet(before(y))
    BY <1>1
  <2>5. at[x] = Cardinality(before(x)) + 1 /\ at[y] = Cardinality(before(y)) + 1
    OBVIOUS
  <2>6. Cardinality(before(x)) \in Nat /\ Cardinality(before(y)) \in Nat
    BY <1>1
  <2> HIDE DEF before, at
  <2>2. Cardinality(before(x) \cup {x}) = Cardinality(before(x)) + 1
    BY <2>1, <2>i, FS_AddElement
  <2>3. Cardinality(before(x) \cup {x}) <= Cardinality(before(y))
    BY <2>1, <2>i, FS_Subset
  <2> QED
    BY <2>2, <2>3, <2>5, <2>6
<1> HIDE DEF before
<1>t. at \in [S -> 1..N]
  BY <1>1
<1> HIDE DEF at
<1>3. \A x, y \in S : at[x] = at[y] => x = y
  <2>1. \A x \in S : at[x] \in Nat
    BY <1>1, <1>n
  <2>2. \A x, y \in S : x # y => at[x] < at[y] \/ at[y] < at[x]
    BY <1>2 DEF IsOrder
  <2> QED
    BY <2>1, <2>2
<1>4. at \in Surjection(S, 1..N)
  <2>1. at \in Injection(S, 1..N)
    BY <1>t, <1>3 DEF Injection, IsInjective
  <2>2. IsFiniteSet(1..N) /\ Cardinality(1..N) = N
    BY <1>n, FS_Interval
  <2> QED
    BY <2>1, <2>2, FS_Injection
<1>5. \A i \in 1..N : \E x \in S : at[x] = i
  BY <1>4 DEF Surjection
<1> DEFINE line == [i \in 1..N |-> CHOOSE x \in S : at[x] = i]
<1>6. \A i \in 1..N : line[i] \in S /\ at[line[i]] = i
  BY <1>5
<1>l. line \in [1..N -> S]
  BY <1>6
<1> HIDE DEF line
<1>7. ASSUME NEW i \in 1..N, NEW j \in 1..N, i < j PROVE <<line[i], line[j]>> \in R
  <2>1. line[i] \in S /\ line[j] \in S /\ at[line[i]] = i /\ at[line[j]] = j
    BY <1>6
  <2>2. line[i] = line[j] \/ <<line[i], line[j]>> \in R \/ <<line[j], line[i]>> \in R
    BY <2>1 DEF IsOrder
  <2>3. ~(j < i) /\ i # j
    BY <1>7, <1>n
  <2>4. <<line[j], line[i]>> \notin R
    BY <2>1, <2>3, <1>2
  <2> QED
    BY <2>1, <2>2, <2>3, <2>4
<1> QED
  BY <1>l, <1>7

LEMMA SortedLists ==
  ASSUME NEW S, IsFiniteSet(S), NEW R, IsOrder(S, R)
  PROVE  /\ Lists(Sorted(S, R), S) /\ Sorted(S, R) \in [1..Cardinality(S) -> S]
         /\ \A i, j \in 1..Cardinality(S) : i < j => <<Sorted(S, R)[i], Sorted(S, R)[j]>> \in R
<1> DEFINE N == Cardinality(S)
           line == Sorted(S, R)
<1>n. N \in Nat
  BY FS_CardinalityType
<1>1. line \in [1..N -> S] /\ \A i, j \in 1..N : i < j => <<line[i], line[j]>> \in R
  <2> DEFINE Fits(l) == \A i, j \in DOMAIN l : i < j => <<l[i], l[j]>> \in R
  <2>1. \E l \in [1..N -> S] : Fits(l)
    <3>1. PICK l \in [1..N -> S] : \A i, j \in 1..N : i < j => <<l[i], l[j]>> \in R
      BY SomeOrder
    <3>2. DOMAIN l = 1..N
      OBVIOUS
    <3> QED
      BY <3>1, <3>2
  <2>2. line = CHOOSE l \in [1..N -> S] : Fits(l)
    BY DEF Sorted
  <2> HIDE DEF Fits, line
  <2>3. line \in [1..N -> S] /\ Fits(line)
    BY <2>1, <2>2
  <2>4. DOMAIN line = 1..N
    BY <2>3
  <2> QED
    BY <2>3, <2>4 DEF Fits
<1> HIDE DEF line
<1>2. \A i, j \in 1..N : line[i] = line[j] => i = j
  <2>1. \A i, j \in 1..N : i = j \/ i < j \/ j < i
    BY <1>n
  <2>2. \A i, j \in 1..N : i < j => line[i] # line[j]
    BY <1>1 DEF IsOrder
  <2> QED
    BY <2>1, <2>2
<1>3. line \in Surjection(1..N, S)
  <2>1. line \in Injection(1..N, S)
    BY <1>1, <1>2 DEF Injection, IsInjective
  <2>2. IsFiniteSet(1..N) /\ Cardinality(1..N) = N
    BY <1>n, FS_Interval
  <2> QED
    BY <2>1, <2>2, FS_Injection
<1>4. line \in Seq(S) /\ Len(line) = N /\ DOMAIN line = 1..N
  BY <1>1, <1>n
<1>5. Lists(line, S)
  BY <1>2, <1>3, <1>4 DEF Lists, Surjection
<1> QED
  BY <1>1, <1>5 DEF line

LEMMA AscendingIsOrder ==
  ASSUME NEW S \in SUBSET Nat
  PROVE  IsOrder(S, Ascending(S))
BY DEF IsOrder, Ascending

(* The sets of numbers are put in order. *)
LEMMA InOrderLists ==
  ASSUME NEW S \in SUBSET Nat, IsFiniteSet(S)
  PROVE  /\ Lists(InOrder(S), S) /\ InOrder(S) \in [1..Cardinality(S) -> S]
         /\ \A i, j \in 1..Cardinality(S) : i < j => InOrder(S)[i] < InOrder(S)[j]
<1>1. /\ Lists(InOrder(S), S) /\ InOrder(S) \in [1..Cardinality(S) -> S]
      /\ \A i, j \in 1..Cardinality(S) : i < j => <<InOrder(S)[i], InOrder(S)[j]>> \in Ascending(S)
  BY AscendingIsOrder, SortedLists DEF InOrder
<1> QED
  BY <1>1 DEF Ascending

-----------------------------------------------------------------------------
(* The graph.                                                               *)

LEMMA GraphFields ==
  ASSUME graph \in Graphs
  PROVE  /\ Actors \subseteq Nat /\ IsFiniteSet(Actors)
         /\ graph.from \in [Channels -> Actors] /\ graph.to \in [Channels -> Actors]
         /\ graph.capacity \in [Channels -> Nat] /\ graph.detected \in Nat
BY GraphsAssumption DEF Actors

LEMMA PackableFields ==
  ASSUME graph \in Graphs
  PROVE  /\ Packable \subseteq Nat /\ IsFiniteSet(Packable) /\ Cardinality(Packable) \in Nat
         /\ Packable \subseteq Actors
         /\ \A c \in Edges : /\ c \in Channels /\ graph.from[c] \in Actors
                             /\ graph.to[c] \in Actors /\ graph.from[c] # graph.to[c]
         /\ \A c : Ends(c) \subseteq Packable <=> graph.from[c] \in Packable /\ graph.to[c] \in Packable
<1>1. Packable \in SUBSET Actors
  BY DEF Packable
<1>2. IsFiniteSet(Packable)
  BY <1>1, GraphFields, FS_Subset
<1>3. \A c \in Edges : c \in Channels /\ graph.from[c] # graph.to[c]
  BY DEF Edges
<1> QED
  BY <1>1, <1>2, <1>3, GraphFields, FS_CardinalityType DEF Ends

LEMMA SlotsLeft == ASSUME graph \in Graphs PROVE Slots \in Nat /\ Slots > 0
<1> DEFINE solo == {a \in Actors : graph.place[a] = "solo"}
<1>1. solo \in SUBSET Actors
  OBVIOUS
<1> HIDE DEF solo
<1>2. Cardinality(solo) \in Nat
  BY <1>1, GraphFields, FS_Subset, FS_CardinalityType
<1>3. Reserved \in Nat
  BY <1>2 DEF Reserved, solo
<1>4. graph.detected \in Nat
  BY GraphFields
<1> DEFINE left == IF graph.detected > Reserved THEN graph.detected - Reserved ELSE 0
<1>5. left \in Nat /\ Slots = AtLeastOne(left)
  BY <1>3, <1>4 DEF Slots
<1> HIDE DEF left
<1> QED
  BY <1>5 DEF AtLeastOne

(* The graph stays as it is, and so does everything that follows from it. *)
LEMMA GraphStays ==
  ASSUME graph' = graph
  PROVE  /\ Actors' = Actors /\ Packable' = Packable /\ Edges' = Edges /\ Slots' = Slots
         /\ BagByBag' = BagByBag /\ \A c : Ends(c)' = Ends(c)
<1>1. Actors' = Actors /\ Packable' = Packable /\ Slots' = Slots /\ \A c : Ends(c)' = Ends(c)
  BY DEF Actors, Packable, Slots, Reserved, Ends
<1>2. Edges' = Edges
  BY DEF Edges, Ends
<1> QED
  BY <1>1, <1>2 DEF BagByBag

LEMMA FamiliesStay == ASSUME graph' = graph PROVE \A c : Family(c)' = Family(c)
<1>1. Edges' = Edges
  BY GraphStays
<1> QED
  BY <1>1 DEF Family

(* Families do not overlap. *)
LEMMA FamilyFields ==
  ASSUME NEW c \in Edges
  PROVE  /\ Family(c) \subseteq Edges
         /\ \A d \in Family(c) : graph.from[d] = graph.from[c] /\ c \in UNION Bundles
         /\ \A p \in Edges : c \in Family(p) => \A q \in Family(p) : p \in Family(c) /\ q \in Family(c)
<1>1. Family(c) \subseteq Edges
      /\ \A d \in Family(c) : graph.from[d] = graph.from[c] /\ c \in UNION Bundles
  BY DEF Family
<1>2. ASSUME NEW p \in Edges, c \in Family(p), NEW q \in Family(p)
      PROVE  p \in Family(c) /\ q \in Family(c)
  <2>1. PICK b \in Bundles : {p, c} \subseteq b
    BY <1>2 DEF Family
  <2>2. PICK d \in Bundles : {p, q} \subseteq d
    BY <1>2 DEF Family
  <2>3. b = d
    BY <2>1, <2>2, BundlesAssumption
  <2>4. {c, p} \subseteq b /\ {c, q} \subseteq b
    BY <2>1, <2>2, <2>3
  <2>5. graph.from[c] = graph.from[p] /\ graph.from[q] = graph.from[p] /\ q \in Edges
    BY <1>2 DEF Family
  <2> QED
    BY <2>4, <2>5 DEF Family
<1> QED
  BY <1>1, <1>2

LEMMA BagByBagIsOrder == ASSUME graph \in Graphs PROVE IsOrder(Packable, BagByBag)
<1>1. \A a \in Packable : a \in Nat
  BY PackableFields
<1>2. \A a \in Packable : graph.place[a] = "bag1" \/ graph.place[a] = "bag2"
  BY DEF Packable
<1>3. \A a, b \in Packable :
        <<a, b>> \in BagByBag <=> \/ graph.place[a] = "bag1" /\ graph.place[b] = "bag2"
                                  \/ graph.place[a] = graph.place[b] /\ a < b
  BY DEF BagByBag
<1> QED
  BY <1>1, <1>2, <1>3 DEF IsOrder

LEMMA ClusterByClusterIsOrder ==
  ASSUME graph \in Graphs, root \in [Packable -> Packable]
  PROVE  IsOrder(Packable, ClusterByCluster)
<1>1. \A a \in Packable : a \in Nat /\ root[a] \in Nat
  BY PackableFields
<1>2. IsOrder(Packable, BagByBag)
  BY BagByBagIsOrder
<1>3. \A a, b \in Packable :
        <<a, b>> \in ClusterByCluster <=> \/ root[a] < root[b]
                                          \/ root[a] = root[b] /\ <<a, b>> \in BagByBag
  BY DEF ClusterByCluster
<1>4. ASSUME NEW a \in Packable PROVE <<a, a>> \notin ClusterByCluster
  <2>1. <<a, a>> \notin BagByBag
    BY <1>2 DEF IsOrder
  <2>2. root[a] \in Nat
    BY <1>1
  <2>3. ~(root[a] < root[a])
    BY <2>2
  <2> QED
    BY <1>3, <2>1, <2>3
<1>5. ASSUME NEW a \in Packable, NEW b \in Packable
      PROVE  a = b \/ <<a, b>> \in ClusterByCluster \/ <<b, a>> \in ClusterByCluster
  <2>1. a = b \/ <<a, b>> \in BagByBag \/ <<b, a>> \in BagByBag
    BY <1>2 DEF IsOrder
  <2>2. root[a] < root[b] \/ root[a] = root[b] \/ root[b] < root[a]
    BY <1>1
  <2> QED
    BY <1>3, <2>1, <2>2
<1>6. \A a, b, c \in Packable :
        <<a, b>> \in ClusterByCluster /\ <<b, c>> \in ClusterByCluster => <<a, c>> \in ClusterByCluster
  BY <1>1, <1>2, <1>3 DEF IsOrder
<1> QED
  BY <1>4, <1>5, <1>6 DEF IsOrder

-----------------------------------------------------------------------------
(* Every actor has one place.                                               *)

Deals(clusters, S) ==
  /\ clusters \in Seq(Seq(S))
  /\ \A k \in DOMAIN clusters :
       clusters[k] # <<>> /\ ToSet(clusters[k]) \subseteq S /\ IsInjective(clusters[k])
  /\ \A a \in S : \E k \in DOMAIN clusters :
       \A l \in DOMAIN clusters : a \in ToSet(clusters[l]) <=> l = k

LEMMA LeastOfTwo ==
  ASSUME NEW a \in Nat, NEW b \in Nat
  PROVE  /\ Least(a, b) \in Nat /\ Least(a, b) <= a /\ Least(a, b) <= b
         /\ Least(a, b) = a \/ Least(a, b) = b
         /\ a > 0 /\ b > 0 => Least(a, b) > 0
BY DEF Least

(* The position of an actor in the turns of n clusters. *)
LEMMA DealtInTurn ==
  ASSUME NEW n \in Nat \ {0}, NEW i \in Nat \ {0}
  PROVE  /\ ((i - 1) % n) + 1 \in 1..n
         /\ \A k \in 1..n : (i - 1) % n = k - 1 <=> k = ((i - 1) % n) + 1
         /\ i <= n => (i - 1) % n = i - 1
<1> DEFINE j == i - 1
<1>1. j \in Nat
  OBVIOUS
<1> HIDE DEF j
<1>2. j % n \in 0 .. n - 1
  BY <1>1
<1>3. \A k \in 1..n : j % n = k - 1 <=> k = (j % n) + 1
  BY <1>2
<1>4. j < n => j % n = j
  BY <1>1
<1>5. (j % n) + 1 \in 1..n
  BY <1>2
<1> QED
  BY <1>3, <1>4, <1>5 DEF j

LEMMA EvenSplitDeals ==
  ASSUME graph \in Graphs, NEW S, IsFiniteSet(S), NEW ids, Lists(ids, S)
  PROVE  /\ Deals(EvenSplit(ids), S)
         /\ Len(EvenSplit(ids)) = Least(Slots, Cardinality(S))
<1> DEFINE N == Cardinality(S)
           n == Least(Slots, Len(ids))
           Dealt(k) == {i \in 1..Len(ids) : (i - 1) % n = k - 1}
           Hand(k) == [i \in 1..Cardinality(Dealt(k)) |-> ids[InOrder(Dealt(k))[i]]]
           hands == [k \in 1..n |-> Hand(k)]
<1>1. /\ N \in Nat /\ Len(ids) = N /\ ids \in Seq(S) /\ \A i \in 1..N : ids[i] \in S
      /\ \A i, j \in 1..N : ids[i] = ids[j] => i = j
      /\ \A x \in S : \E i \in 1..N : ids[i] = x
  BY FS_CardinalityType, ElementOfSeq DEF Lists
<1>2. n \in Nat /\ n <= N /\ n = Least(Slots, N) /\ (N > 0 => n > 0)
  BY <1>1, SlotsLeft, LeastOfTwo
<1>3. EvenSplit(ids) = hands
  BY DEF EvenSplit
<1> HIDE DEF n, N
<1>4. ASSUME NEW k \in 1..n
      PROVE  /\ Dealt(k) \subseteq 1..N /\ Dealt(k) \in SUBSET Nat /\ IsFiniteSet(Dealt(k))
             /\ k \in Dealt(k)
  <2>1. Dealt(k) \subseteq 1..N
    BY <1>1
  <2>2. IsFiniteSet(1..N)
    BY <1>1, FS_Interval
  <2>3. n \in Nat \ {0} /\ k \in Nat \ {0} /\ k <= n /\ k \in 1..N
    BY <1>2, <1>1
  <2>4. k \in Dealt(k)
    BY <2>3, <1>1, DealtInTurn
  <2> QED
    BY <2>1, <2>2, <2>4, FS_Subset, <1>1
<1>5. ASSUME NEW i \in 1..N
      PROVE  \E k \in 1..n : \A l \in 1..n : i \in Dealt(l) <=> l = k
  <2>1. n \in Nat \ {0} /\ i \in Nat \ {0} /\ i \in 1..Len(ids)
    BY <1>1, <1>2
  <2>2. PICK k \in 1..n : k = ((i - 1) % n) + 1
    BY <2>1, DealtInTurn
  <2>3. \A l \in 1..n : (i - 1) % n = l - 1 <=> l = k
    BY <2>1, <2>2, DealtInTurn
  <2> QED
    BY <2>1, <2>3
<1> HIDE DEF Dealt
<1>6. ASSUME NEW k \in 1..n
      PROVE  /\ Hand(k) \in Seq(S) /\ Hand(k) # <<>> /\ IsInjective(Hand(k))
             /\ \A x \in S : x \in ToSet(Hand(k)) <=> \E i \in Dealt(k) : ids[i] = x
             /\ ToSet(Hand(k)) \subseteq S
  <2> DEFINE D == Dealt(k)
             m == Cardinality(D)
             at == InOrder(D)
             hand == [i \in 1..m |-> ids[at[i]]]
  <2>1. D \subseteq 1..N /\ D \in SUBSET Nat /\ IsFiniteSet(D) /\ k \in D
    BY <1>4
  <2> HIDE DEF D
  <2>2. /\ Lists(at, D) /\ at \in [1..m -> D]
    BY <2>1, InOrderLists
  <2>3. m \in Nat /\ m # 0
    BY <2>1, FS_CardinalityType, FS_EmptySet
  <2>4. /\ \A i \in 1..m : at[i] \in D
        /\ \A i, j \in 1..m : at[i] = at[j] => i = j
        /\ \A x \in D : \E i \in 1..m : at[i] = x
    BY <2>2 DEF Lists
  <2> HIDE DEF at, m
  <2>5. \A i \in 1..m : ids[at[i]] \in S /\ at[i] \in 1..N
    BY <2>1, <2>4, <1>1
  <2>6. /\ hand \in [1..m -> S] /\ DOMAIN hand = 1..m /\ \A i \in 1..m : hand[i] = ids[at[i]]
    BY <2>5
  <2> HIDE DEF hand
  <2>7. hand \in Seq(S) /\ Len(hand) = m
    BY <2>3, <2>6
  <2>8. hand # <<>>
    BY <2>3, <2>7
  <2>9. IsInjective(hand)
    BY <2>4, <2>5, <2>6, <1>1 DEF IsInjective
  <2>10. \A x \in S : x \in ToSet(hand) <=> \E i \in D : ids[i] = x
    BY <2>4, <2>6 DEF ToSet
  <2>11. ToSet(hand) \subseteq S
    BY <2>6 DEF ToSet
  <2>12. hand = Hand(k)
    BY DEF hand, at, m, D
  <2> QED
    BY <2>7, <2>8, <2>9, <2>10, <2>11, <2>12 DEF D
<1> HIDE DEF Hand
<1>7. hands \in Seq(Seq(S)) /\ Len(hands) = n /\ DOMAIN hands = 1..n
      /\ \A k \in 1..n : hands[k] = Hand(k)
  <2>1. hands \in [1..n -> Seq(S)]
    BY <1>6
  <2> QED
    BY <2>1, <1>2
<1> HIDE DEF hands
<1>8. ASSUME NEW a \in S
      PROVE  \E k \in 1..n : \A l \in 1..n : a \in ToSet(hands[l]) <=> l = k
  <2>1. PICK i \in 1..N : ids[i] = a
    BY <1>1
  <2>2. PICK k \in 1..n : \A l \in 1..n : i \in Dealt(l) <=> l = k
    BY <1>5
  <2>3. \A l \in 1..n : (\E j \in Dealt(l) : ids[j] = a) <=> i \in Dealt(l)
    BY <2>1, <1>1, <1>4
  <2>4. \A l \in 1..n : a \in ToSet(hands[l]) <=> i \in Dealt(l)
    BY <2>3, <1>6, <1>7
  <2> QED
    BY <2>2, <2>4
<1>9. Deals(hands, S)
  <2>1. ASSUME NEW k \in 1..n
        PROVE  hands[k] # <<>> /\ ToSet(hands[k]) \subseteq S /\ IsInjective(hands[k])
    <3>1. Hand(k) # <<>> /\ ToSet(Hand(k)) \subseteq S /\ IsInjective(Hand(k))
      BY <1>6
    <3>2. hands[k] = Hand(k)
      BY <1>7
    <3> QED
      BY <3>1, <3>2
  <2>2. hands \in Seq(Seq(S)) /\ DOMAIN hands = 1..n
    BY <1>7
  <2>3. \A k \in DOMAIN hands :
          hands[k] # <<>> /\ ToSet(hands[k]) \subseteq S /\ IsInjective(hands[k])
    BY <2>1, <2>2
  <2>4. \A a \in S : \E k \in DOMAIN hands :
          \A l \in DOMAIN hands : a \in ToSet(hands[l]) <=> l = k
    BY <2>2, <1>8
  <2> QED
    BY <2>2, <2>3, <2>4 DEF Deals
<1> QED
  BY <1>2, <1>3, <1>7, <1>9 DEF N

(* What a list of a set shows of it. *)
LEMMA ListFields ==
  ASSUME NEW S, IsFiniteSet(S), NEW line, Lists(line, S)
  PROVE  /\ ToSet(line) = S /\ IsInjective(line) /\ line \in Seq(S)
         /\ Len(line) = Cardinality(S) /\ Cardinality(S) \in Nat
         /\ S # {} => line # <<>>
<1>1. /\ line \in Seq(S) /\ Len(line) = Cardinality(S) /\ DOMAIN line = 1..Cardinality(S)
      /\ \A i, j \in 1..Cardinality(S) : line[i] = line[j] => i = j
      /\ \A x \in S : \E i \in 1..Cardinality(S) : line[i] = x
      /\ Cardinality(S) \in Nat
  BY FS_CardinalityType DEF Lists
<1>2. \A i \in 1..Cardinality(S) : line[i] \in S
  BY <1>1, ElementOfSeq
<1>3. ToSet(line) = S
  BY <1>1, <1>2 DEF ToSet
<1>4. IsInjective(line)
  BY <1>1 DEF IsInjective
<1>5. ASSUME S # {} PROVE line # <<>>
  <2>1. Cardinality(S) # 0
    BY <1>5, FS_EmptySet
  <2> QED
    BY <2>1, <1>1
<1> QED
  BY <1>1, <1>3, <1>4, <1>5

(* The members of the k-th cluster. *)
Crew(k) == {a \in Packable : root[a] = InOrder(Roots)[k]}

LEMMA RootsFields ==
  ASSUME graph \in Graphs, root \in [Packable -> Packable]
  PROVE  /\ Roots \subseteq Packable /\ Roots \in SUBSET Nat /\ IsFiniteSet(Roots)
         /\ Cardinality(Roots) \in Nat /\ Cardinality(Roots) <= Cardinality(Packable)
         /\ \A a \in Packable : root[a] \in Roots
         /\ Lists(InOrder(Roots), Roots) /\ InOrder(Roots) \in [1..Cardinality(Roots) -> Roots]
<1>1. Roots \in SUBSET Packable /\ \A a \in Packable : root[a] \in Roots
  BY DEF Roots
<1>2. IsFiniteSet(Packable) /\ Packable \subseteq Nat
  BY PackableFields
<1>3. Roots \in SUBSET Nat /\ IsFiniteSet(Roots) /\ Cardinality(Roots) <= Cardinality(Packable)
  BY <1>1, <1>2, FS_Subset
<1> QED
  BY <1>1, <1>3, FS_CardinalityType, InOrderLists

LEMMA CrewFields ==
  ASSUME graph \in Graphs, root \in [Packable -> Packable], NEW k \in 1..Cardinality(Roots)
  PROVE  /\ Crew(k) \subseteq Packable /\ IsFiniteSet(Crew(k)) /\ Crew(k) # {}
         /\ Clusters[k] = Sorted(Crew(k), BagByBag) /\ Lists(Clusters[k], Crew(k))
         /\ ToSet(Clusters[k]) = Crew(k)
<1>1. Crew(k) \in SUBSET Packable
  BY DEF Crew
<1>2. IsFiniteSet(Crew(k))
  BY <1>1, PackableFields, FS_Subset
<1>3. InOrder(Roots)[k] \in Roots
  BY RootsFields
<1>4. Crew(k) # {}
  BY <1>3 DEF Crew, Roots
<1>5. Clusters[k] = Sorted(Crew(k), BagByBag)
  BY DEF Clusters, Crew
<1>6. IsOrder(Crew(k), BagByBag)
  BY <1>1, BagByBagIsOrder DEF IsOrder
<1>7. Lists(Clusters[k], Crew(k))
  BY <1>2, <1>5, <1>6, SortedLists
<1> QED
  BY <1>1, <1>2, <1>4, <1>5, <1>7, ListFields

(* The crews are all actors, those with one root together. *)
LEMMA CrewsAreApart ==
  ASSUME graph \in Graphs, root \in [Packable -> Packable]
  PROVE  /\ \A a \in Packable : \E k \in 1..Cardinality(Roots) :
              \A l \in 1..Cardinality(Roots) : a \in Crew(l) <=> l = k
         /\ \A a, b \in Packable :
              root[a] = root[b] <=> \E k \in 1..Cardinality(Roots) : {a, b} \subseteq Crew(k)
<1>1. /\ \A x \in Roots : \E k \in 1..Cardinality(Roots) : InOrder(Roots)[k] = x
      /\ \A k, l \in 1..Cardinality(Roots) : InOrder(Roots)[k] = InOrder(Roots)[l] => k = l
      /\ \A a \in Packable : root[a] \in Roots
  BY RootsFields DEF Lists
<1>2. ASSUME NEW a \in Packable
      PROVE  \E k \in 1..Cardinality(Roots) :
               \A l \in 1..Cardinality(Roots) : a \in Crew(l) <=> l = k
  <2>1. PICK k \in 1..Cardinality(Roots) : InOrder(Roots)[k] = root[a]
    BY <1>1
  <2>2. \A l \in 1..Cardinality(Roots) : a \in Crew(l) <=> l = k
    BY <1>1, <2>1 DEF Crew
  <2> QED
    BY <2>2
<1>3. ASSUME NEW a \in Packable, NEW b \in Packable
      PROVE  root[a] = root[b] <=> \E k \in 1..Cardinality(Roots) : {a, b} \subseteq Crew(k)
  <2>1. PICK k \in 1..Cardinality(Roots) : InOrder(Roots)[k] = root[a]
    BY <1>1
  <2>2. root[a] = root[b] => {a, b} \subseteq Crew(k)
    BY <2>1 DEF Crew
  <2>3. \A l \in 1..Cardinality(Roots) : {a, b} \subseteq Crew(l) => root[a] = root[b]
    BY DEF Crew
  <2> QED
    BY <2>2, <2>3
<1> QED
  BY <1>2, <1>3

(* One cluster for each root, with the crew in whatever order. *)
LEMMA CrewsDeal ==
  ASSUME graph \in Graphs, root \in [Packable -> Packable], NEW clusters,
         DOMAIN clusters = 1..Cardinality(Roots),
         clusters = [k \in 1..Cardinality(Roots) |-> clusters[k]],
         \A k \in 1..Cardinality(Roots) : Lists(clusters[k], Crew(k))
  PROVE  Deals(clusters, Packable) /\ Len(clusters) = Cardinality(Roots)
<1> DEFINE n == Cardinality(Roots)
<1>n. n \in Nat
  BY RootsFields
<1>1. ASSUME NEW k \in 1..n
      PROVE  /\ clusters[k] \in Seq(Packable) /\ clusters[k] # <<>>
             /\ ToSet(clusters[k]) = Crew(k) /\ IsInjective(clusters[k])
             /\ Crew(k) \subseteq Packable
  <2>1. Crew(k) \subseteq Packable /\ IsFiniteSet(Crew(k)) /\ Crew(k) # {}
    BY CrewFields
  <2>2. Lists(clusters[k], Crew(k))
    OBVIOUS
  <2>3. /\ clusters[k] \in Seq(Crew(k)) /\ clusters[k] # <<>>
        /\ ToSet(clusters[k]) = Crew(k) /\ IsInjective(clusters[k])
    BY <2>1, <2>2, ListFields
  <2>4. \A x \in Seq(Crew(k)) : x \in Seq(Packable)
    BY <2>1
  <2> QED
    BY <2>1, <2>3, <2>4
<1>2. clusters \in [1..n -> Seq(Packable)]
  BY <1>1
<1>3. clusters \in Seq(Seq(Packable)) /\ Len(clusters) = n
  BY <1>2, <1>n
<1>4. \A a \in Packable : \E k \in 1..n : \A l \in 1..n : a \in Crew(l) <=> l = k
  BY CrewsAreApart
<1>5. \A k \in DOMAIN clusters :
        clusters[k] # <<>> /\ ToSet(clusters[k]) \subseteq Packable /\ IsInjective(clusters[k])
  BY <1>1
<1>6. ASSUME NEW a \in Packable
      PROVE  \E k \in DOMAIN clusters : \A l \in DOMAIN clusters : a \in ToSet(clusters[l]) <=> l = k
  <2>1. PICK k \in 1..n : \A l \in 1..n : a \in Crew(l) <=> l = k
    BY <1>4
  <2>2. \A l \in 1..n : a \in ToSet(clusters[l]) <=> a \in Crew(l)
    BY <1>1
  <2> QED
    BY <2>1, <2>2
<1> QED
  BY <1>3, <1>5, <1>6 DEF Deals

-----------------------------------------------------------------------------
(* The linedance.                                                           *)

(* The line after a step, from the line before it. *)
Longer(crew, line) ==
  IF Followers(crew, line) = {} THEN line ELSE Append(line, Min(Followers(crew, line)))

LEMMA LinesRecursion ==
  ASSUME NEW crew, NEW n \in Nat
  PROVE  Lines(crew, n) = [i \in 0..n |-> IF i = 0 THEN <<>> ELSE Longer(crew, Lines(crew, n)[i - 1])]
<1> DEFINE Steps(m, f) == f = [i \in 0..m |-> IF i = 0 THEN <<>> ELSE Longer(crew, f[i - 1])]
           P(m) == \E f : Steps(m, f)
           Bad == {m \in 0..n : ~P(m)}
<1>1. Bad = {}
  <2> SUFFICES ASSUME Bad # {} PROVE FALSE
    OBVIOUS
  <2>1. Bad \in SUBSET Nat
    OBVIOUS
  <2>2. P(0)
    <3>1. Steps(0, [i \in 0..0 |-> <<>>])
      OBVIOUS
    <3> QED
      BY <3>1
  <2> HIDE DEF Bad, P
  <2>3. PICK m \in Bad : \A k \in Bad : m <= k
    BY <2>1, LeastNatural
  <2>4. m \in 0..n /\ ~P(m)
    BY DEF Bad
  <2>5. m # 0
    BY <2>2, <2>4
  <2>6. P(m - 1)
    BY <2>3, <2>4, <2>5 DEF Bad
  <2>7. PICK f : Steps(m - 1, f)
    BY <2>6 DEF P
  <2> DEFINE g == [i \in 0..m |-> IF i = m THEN Longer(crew, f[m - 1]) ELSE f[i]]
  <2>8. Steps(m, g)
    BY <2>4, <2>5, <2>7
  <2> QED
    BY <2>4, <2>8 DEF P
<1>2. P(n)
  BY <1>1
<1> HIDE DEF P
<1>3. \E f : Steps(n, f)
  BY <1>2 DEF P
<1>4. Lines(crew, n) = CHOOSE f : Steps(n, f)
  BY DEF Lines, Longer
<1> HIDE DEF Steps
<1>5. Steps(n, Lines(crew, n))
  BY <1>3, <1>4
<1> QED
  BY <1>5 DEF Steps

(* No member is in the line twice or before one of its producers. *)
Danced(crew, line) ==
  /\ line \in Seq(crew)
  /\ \A i, j \in 1..Len(line) : line[i] = line[j] => i = j
  /\ \A p \in 1..Len(line) : \A c \in Edges :
       graph.to[c] = line[p] /\ graph.from[c] \in crew => \E q \in 1 .. p - 1 : line[q] = graph.from[c]

(* The line gets longer until nobody may follow. *)
LEMMA LinesAreDanced ==
  ASSUME NEW crew \in SUBSET Nat, NEW n \in Nat, NEW k \in 0..n
  PROVE  /\ Danced(crew, Lines(crew, n)[k])
         /\ Len(Lines(crew, n)[k]) = k \/ Followers(crew, Lines(crew, n)[k]) = {}
<1> DEFINE line(i) == Lines(crew, n)[i]
           P(i) == Danced(crew, line(i)) /\ (Len(line(i)) = i \/ Followers(crew, line(i)) = {})
           Bad == {i \in 0..n : ~P(i)}
<1>1. Bad = {}
  <2> SUFFICES ASSUME Bad # {} PROVE FALSE
    OBVIOUS
  <2>1. Bad \in SUBSET Nat
    OBVIOUS
  <2> HIDE DEF Bad
  <2>2. PICK i \in Bad : \A m \in Bad : i <= m
    BY <2>1, LeastNatural
  <2>3. i \in 0..n /\ ~P(i)
    BY DEF Bad
  <2>4. line(i) = IF i = 0 THEN <<>> ELSE Longer(crew, line(i - 1))
    BY <2>3, LinesRecursion
  <2> HIDE DEF line
  <2>5. i # 0
    <3>1. ASSUME i = 0 PROVE P(i)
      <4>1. line(i) = <<>>
        BY <3>1, <2>4
      <4>2. Danced(crew, <<>>)
        BY DEF Danced
      <4>3. Len(<<>>) = 0
        OBVIOUS
      <4> QED
        BY <3>1, <4>1, <4>2, <4>3
    <3> QED
      BY <3>1, <2>3
  <2>6. i - 1 \in 0..n /\ ~(i <= i - 1)
    BY <2>3, <2>5
  <2>7. P(i - 1)
    BY <2>2, <2>6 DEF Bad
  <2> DEFINE old == line(i - 1)
             new == line(i)
  <2>8. Danced(crew, old) /\ (Len(old) = i - 1 \/ Followers(crew, old) = {})
    BY <2>7
  <2>9. new = Longer(crew, old)
    BY <2>4, <2>5
  <2>10. CASE Followers(crew, old) = {}
    <3>1. new = old
      BY <2>9, <2>10 DEF Longer
    <3> QED
      BY <3>1, <2>3, <2>8, <2>10
  <2>11. CASE Followers(crew, old) # {}
    <3> DEFINE a == Min(Followers(crew, old))
               l == Len(old)
    <3>1. new = Append(old, a) /\ l = i - 1
      BY <2>8, <2>9, <2>11 DEF Longer
    <3>2. a \in Followers(crew, old)
      <4>1. Followers(crew, old) \in SUBSET Nat
        BY DEF Followers
      <4>2. \E x \in Followers(crew, old) : \A y \in Followers(crew, old) : x <= y
        BY <4>1, <2>11, LeastNatural
      <4> QED
        BY <4>2 DEF Min
    <3>3. /\ a \in crew /\ \A q \in 1..l : old[q] # a
          /\ \A c \in Edges : graph.to[c] = a /\ graph.from[c] \in crew
                               => \E q \in 1..l : old[q] = graph.from[c]
      <4>0. old \in Seq(crew) /\ DOMAIN old = 1..l
        BY <2>8 DEF Danced
      <4>1. a \in crew /\ a \notin ToSet(old)
        BY <3>2 DEF Followers
      <4>2. \A c \in Edges : graph.to[c] = a /\ graph.from[c] \in crew => graph.from[c] \in ToSet(old)
        BY <3>2 DEF Followers
      <4> QED
        BY <4>0, <4>1, <4>2 DEF ToSet
    <3> HIDE DEF a
    <3>4. /\ old \in Seq(crew) /\ l \in Nat
          /\ \A p, q \in 1..l : old[p] = old[q] => p = q
          /\ \A p \in 1..l : \A c \in Edges :
               graph.to[c] = old[p] /\ graph.from[c] \in crew => \E q \in 1 .. p - 1 : old[q] = graph.from[c]
      BY <2>8 DEF Danced
    <3>5. /\ new \in Seq(crew) /\ Len(new) = l + 1 /\ new[l + 1] = a
          /\ \A p \in 1..l : new[p] = old[p]
      BY <3>1, <3>3, <3>4, AppendProperties
    <3> HIDE DEF old, new, l
    <3>6. \A p \in 1..Len(new) : p \in 1..l \/ p = l + 1
      BY <3>4, <3>5
    <3>7. \A p, q \in 1..Len(new) : new[p] = new[q] => p = q
      BY <3>3, <3>4, <3>5, <3>6
    <3>8. ASSUME NEW p \in 1..Len(new), NEW c \in Edges, graph.to[c] = new[p], graph.from[c] \in crew
          PROVE  \E q \in 1 .. p - 1 : new[q] = graph.from[c]
      <4>1. CASE p \in 1..l
        <5>1. PICK q \in 1 .. p - 1 : old[q] = graph.from[c]
          BY <4>1, <3>4, <3>5, <3>8
        <5>2. q \in 1..l
          BY <4>1, <3>4
        <5> QED
          BY <5>1, <5>2, <3>5
      <4>2. CASE p = l + 1
        <5>1. PICK q \in 1..l : old[q] = graph.from[c]
          BY <4>2, <3>3, <3>5, <3>8
        <5>2. q \in 1 .. p - 1
          BY <4>2, <3>4
        <5> QED
          BY <5>1, <5>2, <3>5
      <4> QED
        BY <4>1, <4>2, <3>6
    <3>9. Danced(crew, new)
      BY <3>5, <3>7, <3>8 DEF Danced
    <3>10. Len(new) = i
      BY <3>1, <3>5, <2>3 DEF l
    <3> QED
      BY <3>9, <3>10, <2>3 DEF new
  <2> QED
    BY <2>10, <2>11
<1> QED
  BY <1>1

(* Some members of a crew all wait for one another. *)
Cyclic(crew) ==
  \E some \in SUBSET crew \ {{}} : \A a \in some : \E c \in Edges : Ends(c) \subseteq some /\ graph.to[c] = a

(* The crew keeps its members, and producers come before their consumers     *)
(* unless there is a cycle.                                                  *)
LEMMA LinedanceOrders ==
  ASSUME graph \in Graphs, NEW crew \in SUBSET Packable, NEW ids, Lists(ids, crew)
  PROVE  /\ Lists(Linedance(ids), crew)
         /\ ~Cyclic(crew) =>
              \A i, j \in DOMAIN Linedance(ids) : i < j =>
                ~ \E c \in Edges : graph.from[c] = Linedance(ids)[j] /\ graph.to[c] = Linedance(ids)[i]
<1> DEFINE n == Cardinality(crew)
           line == Lines(crew, n)[n]
<1>1. IsFiniteSet(crew) /\ n \in Nat /\ crew \in SUBSET Nat
  BY PackableFields, FS_Subset, FS_CardinalityType
<1>2. ToSet(ids) = crew /\ Len(ids) = n
  BY <1>1, ListFields
<1>3. Linedance(ids) = IF Len(line) = n THEN line ELSE ids
  BY <1>2 DEF Linedance
<1> HIDE DEF n
<1>4. Danced(crew, line) /\ (Len(line) = n \/ Followers(crew, line) = {})
  <2>1. n \in 0..n
    BY <1>1
  <2> QED
    BY <2>1, <1>1, LinesAreDanced
<1> HIDE DEF line
<1>5. /\ line \in Seq(crew) /\ Len(line) \in Nat /\ DOMAIN line = 1..Len(line)
      /\ \A i, j \in 1..Len(line) : line[i] = line[j] => i = j
      /\ \A i \in 1..Len(line) : line[i] \in crew
  BY <1>4, ElementOfSeq DEF Danced
<1>6. CASE Len(line) = n
  <2>1. line \in [1..n -> crew]
    BY <1>5, <1>6
  <2>2. line \in Injection(1..n, crew)
    BY <2>1, <1>5, <1>6 DEF Injection, IsInjective
  <2>3. Cardinality(1..n) = n
    BY <1>1, FS_Interval
  <2>4. line \in Surjection(1..n, crew)
    BY <2>2, <2>3, <1>1, FS_Injection DEF n
  <2>5. Lists(line, crew)
    BY <2>4, <1>5, <1>6 DEF Lists, Surjection, n
  <2>6. ASSUME NEW i \in DOMAIN line, NEW j \in DOMAIN line, i < j,
               NEW c \in Edges, graph.from[c] = line[j], graph.to[c] = line[i]
        PROVE  FALSE
    <3>1. PICK q \in 1 .. i - 1 : line[q] = line[j]
      BY <2>6, <1>4, <1>5 DEF Danced
    <3>2. q \in 1..Len(line) /\ q # j
      BY <2>6, <1>5
    <3> QED
      BY <3>1, <3>2, <2>6, <1>5
  <2> QED
    BY <2>5, <2>6, <1>3, <1>6
<1>7. CASE Len(line) # n
  <2> DEFINE rest == crew \ ToSet(line)
  <2>1. ToSet(line) \subseteq crew /\ rest # {}
    <3>1. ToSet(line) \subseteq crew
      BY <1>5 DEF ToSet
    <3>2. ASSUME rest = {} PROVE FALSE
      <4>1. line \in Surjection(1..Len(line), crew)
        BY <3>2, <1>5 DEF Surjection, ToSet
      <4>2. n <= Len(line)
        BY <4>1, <1>5, FS_SurjCardinalityBound DEF ExistsSurjection, n
      <4>3. line \in Injection(1..Len(line), crew)
        BY <1>5 DEF Injection, IsInjective
      <4> DEFINE l == Len(line)
      <4>l. l \in Nat
        BY <1>5
      <4> HIDE DEF l
      <4>4. Cardinality(1..l) = l
        BY <4>l, FS_Interval
      <4>5. Len(line) <= n
        BY <4>3, <4>4, <1>1, FS_Injection DEF n, l
      <4>6. l <= n /\ n <= l /\ l # n
        BY <4>2, <4>5, <1>7 DEF l
      <4> QED
        BY <4>6, <4>l, <1>1
    <3> QED
      BY <3>1, <3>2
  <2>2. ASSUME NEW a \in rest
        PROVE  \E c \in Edges : Ends(c) \subseteq rest /\ graph.to[c] = a
    <3>1. a \notin Followers(crew, line)
      BY <1>4, <1>7
    <3>2. PICK c \in Edges : /\ graph.to[c] = a /\ graph.from[c] \in crew
                             /\ graph.from[c] \notin ToSet(line)
      BY <3>1, <2>2 DEF Followers
    <3> QED
      BY <3>2, <2>2 DEF Ends
  <2>3. Cyclic(crew)
    BY <2>1, <2>2 DEF Cyclic
  <2> QED
    BY <2>3, <1>3, <1>7
<1> QED
  BY <1>6, <1>7

-----------------------------------------------------------------------------
(* The troupes that are spawned.                                            *)

(* Without cycles inside, no actor is polled before one of its producers. *)
Danceable(t) ==
  ~Cyclic(ToSet(t)) =>
    \A i, j \in DOMAIN t : i < j => ~ \E c \in Edges : graph.from[c] = t[j] /\ graph.to[c] = t[i]

Danceds == [k \in DOMAIN Clusters |-> Linedance(Clusters[k])]

LEMMA ClustersDanced ==
  ASSUME graph \in Graphs, root \in [Packable -> Packable]
  PROVE  /\ Deals(Danceds, Packable) /\ Len(Danceds) = Cardinality(Roots)
         /\ DOMAIN Danceds = 1..Cardinality(Roots)
         /\ \A k \in DOMAIN Danceds : ToSet(Danceds[k]) = Crew(k) /\ Danceable(Danceds[k])
<1> DEFINE n == Cardinality(Roots)
<1>1. DOMAIN Clusters = 1..n /\ DOMAIN Danceds = 1..n /\ \A k \in 1..n : Danceds[k] = Linedance(Clusters[k])
  BY DEF Clusters, Danceds
<1>2. ASSUME NEW k \in 1..n
      PROVE  /\ Lists(Danceds[k], Crew(k)) /\ ToSet(Danceds[k]) = Crew(k)
             /\ Danceable(Danceds[k])
  <2>1. Crew(k) \in SUBSET Packable /\ IsFiniteSet(Crew(k)) /\ Lists(Clusters[k], Crew(k))
    BY CrewFields
  <2>2. /\ Lists(Danceds[k], Crew(k))
        /\ ~Cyclic(Crew(k)) =>
             \A i, j \in DOMAIN Danceds[k] : i < j =>
               ~ \E c \in Edges : graph.from[c] = Danceds[k][j] /\ graph.to[c] = Danceds[k][i]
    BY <2>1, <1>1, LinedanceOrders
  <2>3. ToSet(Danceds[k]) = Crew(k)
    BY <2>1, <2>2, ListFields
  <2> QED
    BY <2>2, <2>3 DEF Danceable
<1>3. Deals(Danceds, Packable) /\ Len(Danceds) = n
  <2>1. Danceds = [k \in 1..n |-> Danceds[k]]
    BY <1>1 DEF Danceds
  <2> QED
    BY <2>1, <1>1, <1>2, CrewsDeal
<1> QED
  BY <1>1, <1>2, <1>3

-----------------------------------------------------------------------------
(* The inductive invariant.                                                 *)

(* Channels that may unite two clusters. *)
Plain == {c \in Edges \ UNION Bundles : Ends(c) \subseteq Packable}

TypeOK ==
  /\ graph \in Graphs
  /\ phase \in {"building", "merging", "done", "failed"}
  /\ todo \subseteq Edges
  /\ root \in [Packable -> Packable] /\ rank \in [Packable -> Nat]
  /\ merged \subseteq {c \in Edges : Ends(c) \subseteq Packable}
  /\ spread \in BOOLEAN
  /\ troupes \in Seq(Seq(Packable))

Started == phase = "building" => merged = {}

(* While clusters are united there are never fewer than there may be. *)
Counted ==
  phase \in {"building", "merging"} =>
    Least(Slots, Cardinality(Packable)) <= Cardinality(Roots)

(* The edges that have been looked at are the smallest, and the plain ones   *)
(* have their ends together.                                                 *)
Seen ==
  phase # "building" =>
    /\ \A m \in merged : \A d \in todo : graph.capacity[m] <= graph.capacity[d]
    /\ \A c \in Plain \ todo : root[graph.from[c]] = root[graph.to[c]]

(* What brings consumers of a family together is a channel outside it. *)
Siblings ==
  \A c \in Edges : \A d \in Family(c) :
    /\ graph.to[c] # graph.to[d]
    /\ graph.to[c] \in Packable /\ graph.to[d] \in Packable
    /\ root[graph.to[c]] = root[graph.to[d]]
    => \E m \in merged \ Family(c) : root[graph.from[m]] = root[graph.to[c]]

(* The troupes are the clusters, each with its producers first. *)
Finished ==
  phase = "done" /\ ~spread =>
    /\ \A a, b : Together(a, b) <=> a \in Packable /\ b \in Packable /\ root[a] = root[b]
    /\ \A k \in DOMAIN troupes : Danceable(troupes[k])

Dealt ==
  phase = "done" =>
    Deals(troupes, Packable) /\ Len(troupes) = Least(Slots, Cardinality(Packable))

Inv ==
  /\ TypeOK /\ Started /\ Counted /\ Seen /\ Siblings
  /\ Finished /\ Dealt /\ FailsOnMixedBundles

LEMMA InitInv == Init => Inv
<1> SUFFICES ASSUME Init PROVE Inv
  OBVIOUS
<1>1. /\ graph \in Graphs /\ phase = "building" /\ todo = {} /\ merged = {} /\ spread = FALSE
      /\ troupes = <<>> /\ root = [a \in Packable |-> a] /\ rank = [a \in Packable |-> 0]
  BY DEF Init
<1>2. TypeOK
  <2>1. <<>> \in Seq(Seq(Packable))
    OBVIOUS
  <2> QED
    BY <1>1, <2>1 DEF TypeOK
<1>3. Started /\ Seen /\ Finished /\ Dealt /\ FailsOnMixedBundles
  BY <1>1 DEF Started, Seen, Finished, Dealt, FailsOnMixedBundles
<1>4. Counted
  <2>1. Roots = Packable
    BY <1>1 DEF Roots
  <2>2. Cardinality(Packable) \in Nat /\ Slots \in Nat
    BY <1>1, PackableFields, SlotsLeft
  <2> QED
    BY <2>1, <2>2, LeastOfTwo DEF Counted
<1>5. Siblings
  BY <1>1 DEF Siblings
<1> QED
  BY <1>2, <1>3, <1>4, <1>5 DEF Inv

LEMMA InvFields ==
  ASSUME Inv
  PROVE  /\ graph \in Graphs /\ root \in [Packable -> Packable] /\ rank \in [Packable -> Nat]
         /\ todo \subseteq Edges /\ merged \subseteq {c \in Edges : Ends(c) \subseteq Packable}
         /\ spread \in BOOLEAN /\ troupes \in Seq(Seq(Packable))
BY DEF Inv, TypeOK

(* The actors are spawned: what is left to show is how. *)
LEMMA SpawnInv ==
  ASSUME Inv, phase \in {"building", "merging"}, NEW clusters, Spawn(clusters),
         todo' = todo, spread' \in BOOLEAN,
         Deals(clusters, Packable), Len(clusters) = Least(Slots, Cardinality(Packable)),
         phase = "building" => Edges = {},
         Finished'
  PROVE  Inv'
<1>1. /\ phase' = "done" /\ troupes' = clusters /\ graph' = graph /\ root' = root
      /\ rank' = rank /\ merged' = merged
  BY DEF Spawn
<1>2. /\ Packable' = Packable /\ Edges' = Edges /\ Slots' = Slots /\ \A c : Ends(c)' = Ends(c)
  BY <1>1, GraphStays
<1>3. TypeOK'
  <2>1. clusters \in Seq(Seq(Packable))
    BY DEF Deals
  <2> QED
    BY <2>1, <1>1, <1>2, InvFields DEF TypeOK
<1>4. Started' /\ Counted' /\ FailsOnMixedBundles'
  BY <1>1 DEF Started, Counted, FailsOnMixedBundles
<1>5. Dealt'
  BY <1>1, <1>2 DEF Dealt, Deals
<1>6. Plain' = Plain
  BY <1>2 DEF Plain
<1>7. /\ \A m \in merged : \A d \in todo : graph.capacity[m] <= graph.capacity[d]
      /\ \A c \in Plain \ todo : root[graph.from[c]] = root[graph.to[c]]
  <2>1. CASE phase = "building"
    <3>1. merged = {} /\ Plain = {}
      BY <2>1 DEF Inv, Started, Plain
    <3> QED
      BY <3>1
  <2>2. CASE phase # "building"
    BY <2>2 DEF Inv, Seen
  <2> QED
    BY <2>1, <2>2
<1>8. Seen'
  BY <1>1, <1>6, <1>7 DEF Seen
<1>9. Siblings'
  BY <1>1, <1>2, FamiliesStay DEF Inv, Siblings
<1> QED
  BY <1>3, <1>4, <1>5, <1>8, <1>9 DEF Inv

LEMMA StartWithoutEdgesInv == ASSUME Inv, StartWithoutEdges PROVE Inv'
<1>1. /\ phase = "building" /\ Edges = {} /\ Spawn(EvenSplit(ActorIds)) /\ spread' = TRUE
      /\ todo' = todo
  BY DEF StartWithoutEdges
<1>2. graph \in Graphs /\ IsFiniteSet(Packable)
  BY InvFields, PackableFields
<1>3. Lists(ActorIds, Packable)
  BY <1>2, BagByBagIsOrder, SortedLists DEF ActorIds
<1>4. /\ Deals(EvenSplit(ActorIds), Packable)
      /\ Len(EvenSplit(ActorIds)) = Least(Slots, Cardinality(Packable))
  BY <1>2, <1>3, EvenSplitDeals
<1>5. Finished'
  BY <1>1 DEF Finished
<1> QED
  BY <1>1, <1>4, <1>5, SpawnInv

LEMMA StartInv == ASSUME Inv, Start PROVE Inv'
<1>1. /\ phase = "building" /\ phase' = "merging" /\ todo' = Edges /\ graph' = graph
      /\ root' = root /\ rank' = rank /\ merged' = merged /\ spread' = spread /\ troupes' = troupes
  BY DEF Start
<1>2. /\ Packable' = Packable /\ Edges' = Edges /\ Slots' = Slots /\ \A c : Ends(c)' = Ends(c)
  BY <1>1, GraphStays
<1>3. TypeOK'
  BY <1>1, <1>2, InvFields DEF TypeOK
<1>4. Started' /\ Finished' /\ Dealt' /\ FailsOnMixedBundles'
  BY <1>1 DEF Started, Finished, Dealt, FailsOnMixedBundles
<1>5. Counted'
  BY <1>1, <1>2 DEF Inv, Counted, Roots
<1>6. Seen'
  <2>1. merged' = {} /\ Plain' \subseteq todo'
    BY <1>1, <1>2 DEF Inv, Started, Plain
  <2> QED
    BY <2>1 DEF Seen
<1>7. Siblings'
  BY <1>1, <1>2, FamiliesStay DEF Inv, Siblings
<1> QED
  BY <1>3, <1>4, <1>5, <1>6, <1>7 DEF Inv

LEMMA FinishInv == ASSUME Inv, Finish PROVE Inv'
<1>1. phase = "merging" /\ todo' = todo
  BY DEF Finish
<1>2. graph \in Graphs /\ IsFiniteSet(Packable) /\ root \in [Packable -> Packable]
  BY InvFields, PackableFields
<1>3. CASE Enough /\ Spawn(Danceds) /\ spread' = spread
  <2>1. /\ Deals(Danceds, Packable) /\ Len(Danceds) = Cardinality(Roots)
        /\ DOMAIN Danceds = 1..Cardinality(Roots)
        /\ \A k \in DOMAIN Danceds : ToSet(Danceds[k]) = Crew(k) /\ Danceable(Danceds[k])
    BY <1>2, ClustersDanced
  <2>2. Cardinality(Roots) = Least(Slots, Cardinality(Packable))
    <3>1. Cardinality(Roots) <= Slots
      BY <1>3 DEF Enough
    <3>2. Least(Slots, Cardinality(Packable)) <= Cardinality(Roots)
      BY <1>1 DEF Inv, Counted
    <3>3. /\ Cardinality(Roots) \in Nat /\ Cardinality(Packable) \in Nat /\ Slots \in Nat
          /\ Cardinality(Roots) <= Cardinality(Packable)
      BY <1>2, RootsFields, PackableFields, SlotsLeft
    <3> QED
      BY <3>1, <3>2, <3>3 DEF Least
  <2>3. /\ graph' = graph /\ root' = root /\ troupes' = Danceds
    BY <1>3 DEF Spawn
  <2>4. Packable' = Packable /\ Edges' = Edges /\ \A c : Ends(c)' = Ends(c)
    BY <2>3, GraphStays
  <2>5. ASSUME NEW a, NEW b
        PROVE  Together(a, b)' <=> a \in Packable /\ b \in Packable /\ root[a] = root[b]
    <3>1. Together(a, b)' <=> \E k \in 1..Cardinality(Roots) : {a, b} \subseteq Crew(k)
      BY <2>1, <2>3 DEF Together
    <3>2. \A k : Crew(k) \subseteq Packable
      BY DEF Crew
    <3>3. a \in Packable /\ b \in Packable =>
            (root[a] = root[b] <=> \E k \in 1..Cardinality(Roots) : {a, b} \subseteq Crew(k))
      BY <1>2, CrewsAreApart
    <3> QED
      BY <3>1, <3>2, <3>3
  <2>6. ASSUME NEW k \in DOMAIN troupes'
        PROVE  Danceable(troupes[k])'
    <3>1. Danceable(Danceds[k])
      BY <2>1, <2>3
    <3> HIDE DEF Danceds
    <3>2. \A crew : Cyclic(crew)' <=> Cyclic(crew)
      BY <2>3, <2>4 DEF Cyclic
    <3>3. troupes'[k] = Danceds[k]
      BY <2>3
    <3> QED
      BY <3>1, <3>2, <3>3, <2>3, <2>4 DEF Danceable
  <2>7. Finished'
    BY <2>3, <2>4, <2>5, <2>6 DEF Finished
  <2> QED
    BY <1>1, <1>3, <2>1, <2>2, <2>7, InvFields, SpawnInv
<1>4. CASE ~Enough /\ Spawn(EvenSplit(Sorted(Packable, ClusterByCluster))) /\ spread' = TRUE
  <2> DEFINE ids == Sorted(Packable, ClusterByCluster)
  <2>1. Lists(ids, Packable)
    BY <1>2, ClusterByClusterIsOrder, SortedLists
  <2> HIDE DEF ids
  <2>2. Deals(EvenSplit(ids), Packable) /\ Len(EvenSplit(ids)) = Least(Slots, Cardinality(Packable))
    BY <1>2, <2>1, EvenSplitDeals
  <2>3. Finished'
    BY <1>4 DEF Finished
  <2>4. Spawn(EvenSplit(ids))
    BY <1>4 DEF ids
  <2> QED
    BY <1>1, <1>4, <2>2, <2>3, <2>4, SpawnInv
<1> QED
  BY <1>3, <1>4 DEF Finish, Danceds

LEMMA LookAtFields ==
  ASSUME Inv, NEW c, LookAt(c)
  PROVE  /\ phase = "merging" /\ ~Enough /\ c \in todo /\ c \in Edges
         /\ \A d \in todo : graph.capacity[c] <= graph.capacity[d]
<1>1. phase = "merging" /\ ~Enough /\ Smallest(c)
  BY DEF LookAt
<1>2. c \in todo /\ todo \subseteq Edges /\ graph \in Graphs
  BY <1>1, InvFields DEF Smallest
<1>3. \A d \in todo : graph.capacity[c] \in Nat /\ graph.capacity[d] \in Nat
  BY <1>2, GraphFields, PackableFields
<1>4. \A d \in todo : ~(graph.capacity[d] < graph.capacity[c])
  BY <1>1 DEF Smallest, Before
<1> QED
  BY <1>1, <1>2, <1>3, <1>4

(* An edge is passed over: it is no plain one, or its ends are together. *)
LEMMA PassOverInv ==
  ASSUME Inv, phase = "merging", NEW c, PassOver(c),
         c \in Plain => root[graph.from[c]] = root[graph.to[c]]
  PROVE  Inv'
<1>1. /\ todo' = todo \ {c} /\ graph' = graph /\ phase' = phase /\ root' = root /\ rank' = rank
      /\ merged' = merged /\ spread' = spread /\ troupes' = troupes
  BY DEF PassOver
<1>2. /\ Packable' = Packable /\ Edges' = Edges /\ Slots' = Slots /\ \A d : Ends(d)' = Ends(d)
  BY <1>1, GraphStays
<1>3. TypeOK'
  BY <1>1, <1>2, InvFields DEF Inv, TypeOK
<1>4. Started' /\ Finished' /\ Dealt' /\ FailsOnMixedBundles'
  BY <1>1 DEF Started, Finished, Dealt, FailsOnMixedBundles
<1>5. Counted'
  BY <1>1, <1>2 DEF Inv, Counted, Roots
<1>6. Seen'
  <2>1. Plain' = Plain
    BY <1>2 DEF Plain
  <2> QED
    BY <1>1, <2>1 DEF Inv, Seen
<1>7. Siblings'
  BY <1>1, <1>2, FamiliesStay DEF Inv, Siblings
<1> QED
  BY <1>3, <1>4, <1>5, <1>6, <1>7 DEF Inv

(* The forest after a union. *)
LEMMA UnionFields ==
  ASSUME Inv, NEW c \in Edges, Ends(c) \subseteq Packable, Apart(c), Union(c)
  PROVE  /\ root' \in [Packable -> Packable] /\ rank' \in [Packable -> Nat]
         /\ root'[graph.from[c]] = root'[graph.to[c]]
         /\ \A x, y \in Packable : root[x] = root[y] => root'[x] = root'[y]
         /\ \A x, y \in Packable : root'[x] = root'[y] =>
              \/ root[x] = root[y]
              \/ root[x] = root[graph.from[c]] /\ root[y] = root[graph.to[c]]
              \/ root[x] = root[graph.to[c]] /\ root[y] = root[graph.from[c]]
         /\ \A x \in Packable :
              root[x] \in {root[graph.from[c]], root[graph.to[c]]}
                => root'[x] = root'[graph.from[c]]
         /\ \E loser \in Roots : {root'[x] : x \in Packable} = Roots \ {loser}
<1> DEFINE a == root[graph.from[c]]
           b == root[graph.to[c]]
           winner == IF rank[a] < rank[b] THEN b ELSE a
           loser == IF rank[a] < rank[b] THEN a ELSE b
<1>1. /\ root' = [x \in Packable |-> IF root[x] \in {a, b} THEN winner ELSE root[x]]
      /\ rank' = IF rank[a] = rank[b] THEN [rank EXCEPT ![a] = @ + 1] ELSE rank
  BY DEF Union
<1>2. /\ root \in [Packable -> Packable] /\ rank \in [Packable -> Nat]
      /\ graph.from[c] \in Packable /\ graph.to[c] \in Packable
  BY InvFields DEF Ends
<1>3. a \in Packable /\ b \in Packable /\ a # b
  BY <1>2 DEF Apart, Ends
<1>4. winner \in {a, b} /\ loser \in {a, b} /\ winner # loser
  BY <1>3
<1>5. rank' \in [Packable -> Nat]
  BY <1>1, <1>2, <1>3
<1>6. root[graph.from[c]] = a /\ root[graph.to[c]] = b
  OBVIOUS
<1>7. a \in Roots /\ b \in Roots
  BY <1>2 DEF Roots
<1> HIDE DEF a, b, winner, loser
<1>8. \A x \in Packable : root'[x] = IF root[x] \in {a, b} THEN winner ELSE root[x]
  BY <1>1
<1>9. root' \in [Packable -> Packable]
  BY <1>1, <1>2, <1>3, <1>4
<1>10. {root'[x] : x \in Packable} = Roots \ {loser}
  <2>1. ASSUME NEW x \in Packable PROVE root'[x] \in Roots \ {loser}
    <3>1. root[x] \in Roots
      BY DEF Roots
    <3> QED
      BY <3>1, <1>4, <1>7, <1>8
  <2>2. ASSUME NEW r \in Roots \ {loser} PROVE \E x \in Packable : root'[x] = r
    <3>1. PICK x \in Packable : root[x] = r
      BY DEF Roots
    <3>2. root'[x] = r
      BY <3>1, <1>4, <1>8
    <3> QED
      BY <3>2
  <2> QED
    BY <2>1, <2>2
<1>11. \A x \in Packable : root[x] \in {a, b} => root'[x] = winner
  BY <1>8
<1>12. root'[graph.from[c]] = winner /\ root'[graph.to[c]] = winner
  BY <1>2, <1>6, <1>11
<1>13. \A x, y \in Packable : root[x] = root[y] => root'[x] = root'[y]
  BY <1>8
<1>14. \A x, y \in Packable : root'[x] = root'[y] =>
         root[x] = root[y] \/ (root[x] = a /\ root[y] = b) \/ (root[x] = b /\ root[y] = a)
  <2> SUFFICES ASSUME NEW x \in Packable, NEW y \in Packable, root'[x] = root'[y]
               PROVE  root[x] = root[y] \/ (root[x] = a /\ root[y] = b) \/ (root[x] = b /\ root[y] = a)
    OBVIOUS
  <2>1. CASE root[x] \in {a, b}
    <3>1. root'[y] \in {a, b}
      BY <2>1, <1>4, <1>8
    <3>2. root[y] \in {a, b}
      BY <3>1, <1>8
    <3> QED
      BY <2>1, <3>2
  <2>2. CASE root[x] \notin {a, b}
    <3>1. root'[x] = root[x]
      BY <2>2, <1>8
    <3>2. root[y] \notin {a, b}
      BY <3>1, <2>2, <1>4, <1>8
    <3> QED
      BY <3>1, <3>2, <1>8
  <2> QED
    BY <2>1, <2>2
<1>15. \A x \in Packable : root[x] \in {a, b} => root'[x] = root'[graph.from[c]]
  BY <1>11, <1>12
<1> QED
  BY <1>5, <1>6, <1>7, <1>4, <1>9, <1>10, <1>12, <1>13, <1>14, <1>15

(* Two clusters are united; a lane has not brought siblings together. *)
LEMMA UnionInv ==
  ASSUME Inv, NEW c, LookAt(c), Ends(c) \subseteq Packable, Apart(c), ~GluesSiblings(c), Union(c)
  PROVE  Inv'
<1>1. /\ merged' = merged \cup {c} /\ todo' = todo \ {c} /\ graph' = graph /\ phase' = phase
      /\ spread' = spread /\ troupes' = troupes
  BY DEF Union
<1>2. /\ phase = "merging" /\ ~Enough /\ c \in todo /\ c \in Edges
      /\ \A d \in todo : graph.capacity[c] <= graph.capacity[d]
  BY LookAtFields
<1>3. /\ Packable' = Packable /\ Edges' = Edges /\ Slots' = Slots /\ \A d : Ends(d)' = Ends(d)
  BY <1>1, GraphStays
<1>4. graph \in Graphs /\ root \in [Packable -> Packable]
  BY InvFields
<1>5. graph.from[c] \in Packable /\ graph.to[c] \in Packable
  BY DEF Ends
<1>6. /\ root' \in [Packable -> Packable] /\ rank' \in [Packable -> Nat]
      /\ root'[graph.from[c]] = root'[graph.to[c]]
      /\ \A x, y \in Packable : root[x] = root[y] => root'[x] = root'[y]
      /\ \A x, y \in Packable : root'[x] = root'[y] =>
           \/ root[x] = root[y]
           \/ root[x] = root[graph.from[c]] /\ root[y] = root[graph.to[c]]
           \/ root[x] = root[graph.to[c]] /\ root[y] = root[graph.from[c]]
      /\ \A x \in Packable :
           root[x] \in {root[graph.from[c]], root[graph.to[c]]}
             => root'[x] = root'[graph.from[c]]
      /\ \E loser \in Roots : {root'[x] : x \in Packable} = Roots \ {loser}
  BY <1>2, UnionFields
<1>7. TypeOK'
  BY <1>1, <1>2, <1>3, <1>6, InvFields DEF Inv, TypeOK
<1>8. Started' /\ Finished' /\ Dealt' /\ FailsOnMixedBundles'
  BY <1>1, <1>2 DEF Started, Finished, Dealt, FailsOnMixedBundles
<1>9. Counted'
  <2>1. PICK loser \in Roots : {root'[x] : x \in Packable} = Roots \ {loser}
    BY <1>6
  <2>2. Roots' = Roots \ {loser}
    BY <2>1, <1>3 DEF Roots
  <2>3. IsFiniteSet(Roots) /\ Cardinality(Roots) \in Nat
    BY <1>4, RootsFields
  <2>4. Cardinality(Roots \ {loser}) = Cardinality(Roots) - 1
    BY <2>3, FS_RemoveElement
  <2>5. Slots \in Nat /\ Cardinality(Packable) \in Nat /\ ~(Cardinality(Roots) <= Slots)
    BY <1>2, <1>4, SlotsLeft, PackableFields DEF Enough
  <2>6. Least(Slots, Cardinality(Packable)) \in Nat /\ Least(Slots, Cardinality(Packable)) <= Slots
    BY <2>5, LeastOfTwo
  <2>7. Least(Slots, Cardinality(Packable)) <= Cardinality(Roots) - 1
    BY <2>3, <2>5, <2>6
  <2> QED
    BY <1>3, <2>2, <2>4, <2>7 DEF Counted
<1>10. Seen'
  <2>1. \A m \in merged' : \A d \in todo' : graph.capacity[m] <= graph.capacity[d]
    BY <1>1, <1>2 DEF Inv, Seen
  <2>2. ASSUME NEW d \in Plain, d \notin todo'
        PROVE  root'[graph.from[d]] = root'[graph.to[d]]
    <3>1. CASE d = c
      BY <3>1, <1>6
    <3>2. CASE d # c
      <4>1. root[graph.from[d]] = root[graph.to[d]]
        BY <2>2, <3>2, <1>1, <1>2 DEF Inv, Seen
      <4>2. graph.from[d] \in Packable /\ graph.to[d] \in Packable
        BY DEF Plain, Ends
      <4> QED
        BY <4>1, <4>2, <1>6
    <3> QED
      BY <3>1, <3>2
  <2>3. Plain' = Plain
    BY <1>3 DEF Plain
  <2> QED
    BY <1>1, <2>1, <2>2, <2>3 DEF Seen
<1>11. Siblings'
  <2>1. ASSUME NEW p \in Edges, NEW q \in Family(p), graph.to[p] # graph.to[q],
               graph.to[p] \in Packable, graph.to[q] \in Packable,
               root'[graph.to[p]] = root'[graph.to[q]]
        PROVE  \E m \in merged' \ Family(p) : root'[graph.from[m]] = root'[graph.to[p]]
    <3>1. CASE root[graph.to[p]] = root[graph.to[q]]
      <4>1. PICK m \in merged \ Family(p) : root[graph.from[m]] = root[graph.to[p]]
        BY <2>1, <3>1 DEF Inv, Siblings
      <4>2. m \in merged' /\ graph.from[m] \in Packable
        BY <1>1, InvFields DEF Ends
      <4>3. root'[graph.from[m]] = root'[graph.to[p]]
        BY <4>1, <4>2, <2>1, <1>6
      <4> QED
        BY <4>2, <4>3
    <3>2. CASE root[graph.to[p]] # root[graph.to[q]]
      <4>1. \/ root[graph.to[p]] = root[graph.from[c]] /\ root[graph.to[q]] = root[graph.to[c]]
            \/ root[graph.to[p]] = root[graph.to[c]] /\ root[graph.to[q]] = root[graph.from[c]]
        BY <2>1, <3>2, <1>6
      <4>2. c \notin Family(p)
        <5>1. ASSUME c \in Family(p) PROVE FALSE
          <6>1. p \in Family(c) /\ q \in Family(c)
            BY <5>1, <1>2, FamilyFields
          <6>2. graph.to[p] \in Consumers(c) \cap Packable /\ graph.to[q] \in Consumers(c) \cap Packable
            BY <2>1, <6>1 DEF Consumers
          <6>3. \A e \in Ends(c) : \E f \in Consumers(c) \cap Packable : root[e] = root[f]
            BY <4>1, <6>2 DEF Ends
          <6> QED
            BY <6>3 DEF GluesSiblings
        <5> QED
          BY <5>1
      <4>3. root'[graph.to[p]] = root'[graph.from[c]]
        BY <4>1, <2>1, <1>6
      <4> QED
        BY <4>2, <4>3, <1>1
    <3> QED
      BY <3>1, <3>2
  <2> QED
    BY <1>1, <1>3, <2>1, FamiliesStay DEF Siblings
<1> QED
  BY <1>7, <1>8, <1>9, <1>10, <1>11 DEF Inv

(* The lookup of a consumer that is not packable fails. *)
LEMMA PanicInv ==
  ASSUME Inv, NEW c, LookAt(c), Ends(c) \subseteq Packable, MayPanic(c), Panic
  PROVE  Inv'
<1>1. /\ phase' = "failed" /\ graph' = graph /\ todo' = todo /\ root' = root /\ rank' = rank
      /\ merged' = merged /\ spread' = spread /\ troupes' = troupes
  BY DEF Panic
<1>2. phase = "merging" /\ c \in Edges
  BY LookAtFields
<1>3. /\ Packable' = Packable /\ Edges' = Edges /\ \A d : Ends(d)' = Ends(d)
  BY <1>1, GraphStays
<1>4. TypeOK'
  BY <1>1, <1>3, InvFields DEF TypeOK
<1>5. Started' /\ Counted' /\ Finished' /\ Dealt'
  BY <1>1 DEF Started, Counted, Finished, Dealt
<1>6. Seen'
  <2>1. Plain' = Plain
    BY <1>3 DEF Plain
  <2> QED
    BY <1>1, <1>2, <2>1 DEF Inv, Seen
<1>7. Siblings'
  BY <1>1, <1>3, FamiliesStay DEF Inv, Siblings
<1>8. FailsOnMixedBundles'
  <2>1. PICK d \in Family(c) : graph.to[d] \notin Packable
    BY DEF MayPanic, Consumers
  <2> QED
    BY <1>1, <1>2, <1>3, <2>1, FamiliesStay DEF FailsOnMixedBundles
<1> QED
  BY <1>4, <1>5, <1>6, <1>7, <1>8 DEF Inv

LEMMA LookAtInv == ASSUME Inv, NEW c, LookAt(c) PROVE Inv'
<1>1. phase = "merging"
  BY DEF LookAt
<1>2. CASE ~(Ends(c) \subseteq Packable) /\ PassOver(c)
  <2>1. c \notin Plain
    BY <1>2 DEF Plain
  <2> QED
    BY <1>1, <1>2, <2>1, PassOverInv
<1>3. CASE Ends(c) \subseteq Packable /\ ~Apart(c) /\ PassOver(c)
  <2>1. root[graph.from[c]] = root[graph.to[c]]
    BY <1>3 DEF Apart, Ends
  <2> QED
    BY <1>1, <1>3, <2>1, PassOverInv
<1>4. CASE GluesSiblings(c) /\ PassOver(c)
  <2>1. PICK a \in Consumers(c) : TRUE
    BY <1>4 DEF GluesSiblings, Ends
  <2>2. c \in UNION Bundles
    BY <2>1 DEF Consumers, Family
  <2>3. c \notin Plain
    BY <2>2 DEF Plain
  <2> QED
    BY <1>1, <1>4, <2>3, PassOverInv
<1>5. CASE Ends(c) \subseteq Packable /\ Apart(c) /\ ~GluesSiblings(c) /\ Union(c)
  BY <1>5, UnionInv
<1>6. CASE Ends(c) \subseteq Packable /\ MayPanic(c) /\ Panic
  BY <1>6, PanicInv
<1> QED
  BY <1>2, <1>3, <1>4, <1>5, <1>6 DEF LookAt

(* What is not touched stays as it was. *)
LEMMA StutterInv == ASSUME Inv, UNCHANGED vars PROVE Inv'
<1>1. /\ graph' = graph /\ phase' = phase /\ todo' = todo /\ root' = root /\ rank' = rank
      /\ merged' = merged /\ spread' = spread /\ troupes' = troupes
  BY DEF vars
<1>2. /\ Packable' = Packable /\ Edges' = Edges /\ Slots' = Slots /\ \A d : Ends(d)' = Ends(d)
  BY <1>1, GraphStays
<1>3. TypeOK' /\ Started' /\ FailsOnMixedBundles'
  BY <1>1, <1>2, FamiliesStay DEF Inv, TypeOK, Started, FailsOnMixedBundles
<1>4. Counted' /\ Siblings' /\ Dealt'
  BY <1>1, <1>2, FamiliesStay DEF Inv, Counted, Roots, Siblings, Dealt, Deals
<1>5. Seen'
  BY <1>1, <1>2 DEF Inv, Seen, Plain
<1>6. Finished'
  <2>1. \A a, b : Together(a, b)' <=> Together(a, b)
    BY <1>1 DEF Together
  <2>2. ASSUME NEW k \in DOMAIN troupes, Danceable(troupes[k]) PROVE Danceable(troupes[k])'
    BY <2>2, <1>1, <1>2 DEF Danceable, Cyclic
  <2> QED
    BY <1>1, <1>2, <2>1, <2>2 DEF Inv, Finished
<1> QED
  BY <1>3, <1>4, <1>5, <1>6 DEF Inv

LEMMA AlwaysInv == Spec => []Inv
<1>1. Init => Inv
  BY InitInv
<1>2. Inv /\ [Next]_vars => Inv'
  <2> SUFFICES ASSUME Inv, [Next]_vars PROVE Inv'
    OBVIOUS
  <2>1. CASE StartWithoutEdges
    BY <2>1, StartWithoutEdgesInv
  <2>2. CASE Start
    BY <2>2, StartInv
  <2>3. ASSUME NEW c \in Channels, LookAt(c) PROVE Inv'
    BY <2>3, LookAtInv
  <2>4. CASE Finish
    BY <2>4, FinishInv
  <2>5. CASE UNCHANGED vars
    BY <2>5, StutterInv
  <2> QED
    BY <2>1, <2>2, <2>3, <2>4, <2>5 DEF Next
<1> QED
  BY <1>1, <1>2, PTL DEF Spec

-----------------------------------------------------------------------------
(* Theorems.                                                                *)

(* The forest has a root for every member of the dynamic troupes, only edges *)
(* whose ends are both packable unite clusters, and what is spawned are      *)
(* sequences of packable actors.                                             *)
THEOREM TypeCorrect == Spec => []TypeOK
<1>1. Inv => TypeOK
  BY DEF Inv
<1> QED
  BY <1>1, AlwaysInv, PTL

(* Whichever way the union-find, the linedance and the dealing out went, every *)
(* member of a dynamic troupe is on exactly one thread, no thread is empty,  *)
(* and there are as many as slots, or as actors (pack_edge_aware).           *)
THEOREM EveryActorPackedOnce == Spec => []PackedOnce
<1>1. Inv => PackedOnce
  BY DEF Inv, Dealt, Deals, PackedOnce
<1> QED
  BY <1>1, AlwaysInv, PTL

(* No plain channel that is left between two threads is smaller than one     *)
(* that was used to unite actors, for all capacities and wirings.            *)
THEOREM SmallestFirst == Spec => []SmallestChannelsFirst
<1>1. ASSUME Inv, Packed, NEW c \in Edges \ UNION Bundles, Ends(c) \subseteq Packable,
             ~ \E k \in DOMAIN troupes : Ends(c) \subseteq ToSet(troupes[k]), NEW m \in merged
      PROVE  graph.capacity[m] <= graph.capacity[c]
  <2>1. phase = "done" /\ ~spread
    BY <1>1 DEF Packed
  <2>2. \A a, b : Together(a, b) <=> a \in Packable /\ b \in Packable /\ root[a] = root[b]
    BY <1>1, <2>1 DEF Inv, Finished
  <2>3. ~Together(graph.from[c], graph.to[c])
    BY <1>1 DEF Together, Ends
  <2>4. root[graph.from[c]] # root[graph.to[c]]
    BY <1>1, <2>2, <2>3 DEF Ends
  <2>5. c \in Plain
    BY <1>1 DEF Plain
  <2>6. c \in todo
    BY <1>1, <2>1, <2>4, <2>5 DEF Inv, Seen
  <2> QED
    BY <1>1, <2>1, <2>6 DEF Inv, Seen
<1>2. Inv => SmallestChannelsFirst
  BY <1>1 DEF SmallestChannelsFirst
<1> QED
  BY <1>2, AlwaysInv, PTL

(* The lanes of a family alone never bring two of its consumers together:    *)
(* one of the unions of their cluster was by a channel outside the family,   *)
(* for any number of bundles, lanes and producers.                           *)
THEOREM SiblingsApart == Spec => []LanesApart
<1>1. ASSUME Inv, Packed, NEW c \in Edges, NEW d \in Family(c), graph.to[c] # graph.to[d],
             Together(graph.to[c], graph.to[d])
      PROVE  \E m \in merged \ Family(c) : Together(graph.to[c], graph.from[m])
  <2>1. \A a, b : Together(a, b) <=> a \in Packable /\ b \in Packable /\ root[a] = root[b]
    BY <1>1 DEF Inv, Finished, Packed
  <2>2. /\ graph.to[c] \in Packable /\ graph.to[d] \in Packable
        /\ root[graph.to[c]] = root[graph.to[d]]
    BY <1>1, <2>1
  <2>3. PICK m \in merged \ Family(c) : root[graph.from[m]] = root[graph.to[c]]
    BY <1>1, <2>2 DEF Inv, Siblings
  <2>4. graph.from[m] \in Packable
    BY <1>1, InvFields DEF Ends
  <2> QED
    BY <2>1, <2>2, <2>3, <2>4
<1>2. Inv => LanesApart
  BY <1>1 DEF LanesApart
<1> QED
  BY <1>2, AlwaysInv, PTL

(* start fails only for a family whose consumers are partly packable: the    *)
(* lookup in would_merge_bundle_siblings has no other way to fail.           *)
THEOREM OnlyMixedBundlesFail == Spec => []FailsOnMixedBundles
<1>1. Inv => FailsOnMixedBundles
  BY DEF Inv
<1> QED
  BY <1>1, AlwaysInv, PTL

(* On a thread whose channels form no cycle every producer is polled before  *)
(* its consumers, for troupes of every size.                                 *)
THEOREM ProducersComeFirst == Spec => []ProducersFirst
<1>1. ASSUME Inv, Packed, NEW k \in DOMAIN troupes,
             ~ \E crew \in SUBSET ToSet(troupes[k]) \ {{}} :
                 \A a \in crew : \E c \in {e \in Edges : Ends(e) \subseteq crew} : graph.to[c] = a
      PROVE  \A i, j \in DOMAIN troupes[k] : i < j =>
               ~ \E c \in Edges : graph.from[c] = troupes[k][j] /\ graph.to[c] = troupes[k][i]
  <2>1. Danceable(troupes[k])
    BY <1>1 DEF Inv, Finished, Packed
  <2>2. ~Cyclic(ToSet(troupes[k]))
    BY <1>1 DEF Cyclic
  <2> QED
    BY <2>1, <2>2 DEF Danceable
<1>2. Inv => ProducersFirst
  BY <1>1 DEF ProducersFirst
<1> QED
  BY <1>2, AlwaysInv, PTL
=============================================================================
