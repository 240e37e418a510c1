-------------------------- MODULE ConfigStoreProofs --------------------------
(***************************************************************************)
(* Proofs about ConfigStore, for lists of any length: what upsert_mapping  *)
(* and remove_mapping make of a list, and that commands which run one at a *)
(* time implement the table of MappingTable.                               *)
(***************************************************************************)
EXTENDS ConfigStore, FiniteSetTheorems, TLAPS

-----------------------------------------------------------------------------
(* Places.                                                                 *)

\* The numbers from 1 to n.
LEMMA UpTo == ASSUME NEW n \in Nat PROVE IsFiniteSet(1 .. n) /\ Cardinality(1 .. n) = n
<1>1. IsFiniteSet(1 .. n) /\ Cardinality(1 .. n) = IF 1 > n THEN 0 ELSE n - 1 + 1
  BY FS_Interval
<1> QED
  BY <1>1

\* A rank that tells places apart has one place for each number.
LEMMA Places ==
    ASSUME NEW K, IsFiniteSet(K), NEW r \in [K -> 1 .. Cardinality(K)],
           \A i, j \in K : r[i] = r[j] => i = j
    PROVE  /\ \A k \in 1 .. Cardinality(K) : Place(K, r, k) \in K /\ r[Place(K, r, k)] = k
           /\ \A i \in K : Place(K, r, r[i]) = i
<1> DEFINE T == 1 .. Cardinality(K)
<1>1. Cardinality(K) \in Nat
  BY FS_CardinalityType
<1>2. IsFiniteSet(T) /\ Cardinality(T) = Cardinality(K)
  BY <1>1, FS_Interval
<1>3. r \in Injection(K, T)
  BY DEF Injection, IsInjective
<1>4. r \in Surjection(K, T)
  <2> HIDE DEF T
  <2> QED  BY <1>2, <1>3, FS_Injection
<1>5. \A k \in T : \E i \in K : r[i] = k
  BY <1>4 DEF Surjection
<1> QED
  BY <1>5 DEF Place

\* Counting from below orders a finite set of numbers.
LEMMA Counting ==
    ASSUME NEW K, K \subseteq Nat, IsFiniteSet(K)
    PROVE  /\ InTurn(K) \in [K -> 1 .. Cardinality(K)]
           /\ \A i, j \in K : i < j => InTurn(K)[i] < InTurn(K)[j]
           /\ \A i, j \in K : InTurn(K)[i] = InTurn(K)[j] => i = j
<1> DEFINE Upto(i) == {j \in K : j <= i}
<1>1. Cardinality(K) \in Nat
  BY FS_CardinalityType
<1>2. \A i \in K : IsFiniteSet(Upto(i)) /\ Cardinality(Upto(i)) <= Cardinality(K)
  BY FS_Subset
<1>3. \A i \in K : Cardinality(Upto(i)) \in Nat /\ Cardinality(Upto(i)) # 0
  BY <1>2, FS_CardinalityType, FS_EmptySet
<1>4. ASSUME NEW i \in K, NEW j \in K, i < j
      PROVE  Cardinality(Upto(i)) < Cardinality(Upto(j))
  <2>1. Upto(i) \in SUBSET Upto(j) /\ j \in Upto(j) /\ j \notin Upto(i)
    <3>1. i \in Nat /\ j \in Nat /\ \A k \in K : k \in Nat
      OBVIOUS
    <3>2. \A k \in K : k <= i => k <= j
      BY <1>4, <3>1
    <3>3. j <= j /\ ~(j <= i)
      BY <1>4, <3>1
    <3> QED  BY <3>2, <3>3
  <2>2. /\ Cardinality(Upto(i)) <= Cardinality(Upto(j))
        /\ Cardinality(Upto(i)) # Cardinality(Upto(j))
    <3> DEFINE S == Upto(i)
               T == Upto(j)
    <3>1. IsFiniteSet(T) /\ S \in SUBSET T /\ S # T
      BY <1>2, <2>1
    <3> HIDE DEF S, T
    <3>2. Cardinality(S) <= Cardinality(T) /\ Cardinality(S) # Cardinality(T)
      BY <3>1, FS_Subset
    <3> QED  BY <3>2 DEF S, T
  <2> QED  BY <1>3, <2>2
<1>5. \A i \in K : Cardinality(Upto(i)) \in 1 .. Cardinality(K)
  BY <1>1, <1>2, <1>3
<1>6. \A i \in K : i \in Nat /\ InTurn(K)[i] = Cardinality(Upto(i))
  BY DEF InTurn
<1>7. InTurn(K) \in [K -> 1 .. Cardinality(K)]
  BY <1>5 DEF InTurn
<1>8. \A i, j \in K : i < j => InTurn(K)[i] < InTurn(K)[j]
  BY <1>4, <1>6
<1>9. \A i, j \in K : InTurn(K)[i] = InTurn(K)[j] => i = j
  <2> SUFFICES ASSUME NEW i \in K, NEW j \in K, InTurn(K)[i] = InTurn(K)[j], i # j
               PROVE  FALSE
    OBVIOUS
  <2>1. i < j \/ j < i
    BY <1>6
  <2>2. InTurn(K)[i] \in 1 .. Cardinality(K)
    BY <1>7
  <2> HIDE DEF Upto
  <2> QED  BY <1>1, <1>8, <2>1, <2>2
<1> QED
  BY <1>7, <1>8, <1>9

\* A set of numbers that is not empty has a least one.
LEMMA Least ==
    ASSUME NEW n \in Nat, NEW K \in SUBSET (1 .. n), K # {}
    PROVE  \E m \in K : \A j \in K : m <= j
<1> DEFINE first == Place(K, InTurn(K), 1)
<1>1. IsFiniteSet(K) /\ K \subseteq Nat
  <2>1. IsFiniteSet(1 .. n)
    BY FS_Interval
  <2>2. IsFiniteSet(K)
    BY <2>1, FS_Subset
  <2>3. K \subseteq Nat
    OBVIOUS
  <2> QED  BY <2>2, <2>3
<1>2. Cardinality(K) \in Nat /\ Cardinality(K) # 0
  BY <1>1, FS_CardinalityType, FS_EmptySet
<1>3. /\ InTurn(K) \in [K -> 1 .. Cardinality(K)]
      /\ \A i, j \in K : i < j => InTurn(K)[i] < InTurn(K)[j]
      /\ \A i, j \in K : InTurn(K)[i] = InTurn(K)[j] => i = j
  BY <1>1, Counting
<1>4. \A k \in 1 .. Cardinality(K) :
          Place(K, InTurn(K), k) \in K /\ InTurn(K)[Place(K, InTurn(K), k)] = k
  BY <1>1, <1>3, Places
<1>5. first \in K /\ InTurn(K)[first] = 1
  BY <1>2, <1>4
<1> HIDE DEF first
<1>6. ASSUME NEW j \in K, ~(first <= j) PROVE FALSE
  <2>1. j \in Nat /\ first \in Nat /\ InTurn(K)[j] \in 1 .. Cardinality(K)
    BY <1>1, <1>3, <1>5
  <2>2. j < first
    BY <1>6, <2>1
  <2> QED  BY <1>2, <1>3, <1>5, <2>1, <2>2
<1> QED
  BY <1>5, <1>6

-----------------------------------------------------------------------------
(* Lists of mappings.                                                      *)

\* What a list has at its places.
LEMMA ListFacts ==
    ASSUME NEW ms \in Seq(MappingSpec)
    PROVE  /\ Len(ms) \in Nat
           /\ \A i \in 1 .. Len(ms) : ms[i] \in MappingSpec /\ ms[i].port \in Nat
           /\ IsFiniteSet(1 .. Len(ms)) /\ Cardinality(1 .. Len(ms)) = Len(ms)
<1>1. Len(ms) \in Nat /\ \A i \in 1 .. Len(ms) : ms[i] \in MappingSpec
  OBVIOUS
<1>2. \A m \in MappingSpec : m.port \in Nat
  BY PortAssumption DEF MappingSpec
<1>3. IsFiniteSet(1 .. Len(ms)) /\ Cardinality(1 .. Len(ms)) = Len(ms)
  BY <1>1, UpTo
<1> QED
  BY <1>1, <1>2, <1>3

\* The i-th mapping goes before the j-th when the list is sorted.
Before(ms, i, j) == ms[i].port < ms[j].port \/ (ms[i].port = ms[j].port /\ i < j)

\* A rank is a place of the list, and ranks are in the order of the ports.
LEMMA Ranks ==
    ASSUME NEW ms \in Seq(MappingSpec)
    PROVE  /\ \A i \in 1 .. Len(ms) : Rank(ms, i) \in 1 .. Len(ms)
           /\ \A i, j \in 1 .. Len(ms) : Before(ms, i, j) => Rank(ms, i) < Rank(ms, j)
           /\ \A i, j \in 1 .. Len(ms) : i = j \/ Before(ms, i, j) \/ Before(ms, j, i)
<1> DEFINE N == 1 .. Len(ms)
           Upto(i) == {j \in N : \/ ms[j].port < ms[i].port
                                 \/ ms[j].port = ms[i].port /\ j <= i}
<1>1. /\ Len(ms) \in Nat /\ IsFiniteSet(N) /\ Cardinality(N) = Len(ms)
      /\ \A i \in N : ms[i].port \in Nat /\ i \in Nat
  BY ListFacts
<1>2. \A i \in N : Upto(i) \in SUBSET N /\ i \in Upto(i)
  BY <1>1
<1>3. \A i, j \in N : Before(ms, i, j) => Upto(i) \in SUBSET Upto(j) /\ j \notin Upto(i)
  BY <1>1 DEF Before
<1>4. \A i \in N : Rank(ms, i) = Cardinality(Upto(i))
  BY DEF Rank
<1>5. \A i, j \in N : i = j \/ Before(ms, i, j) \/ Before(ms, j, i)
  BY <1>1 DEF Before
<1> HIDE DEF Upto, N
<1>6. ASSUME NEW i \in N
      PROVE  IsFiniteSet(Upto(i)) /\ Cardinality(Upto(i)) \in 1 .. Len(ms)
  <2>1. IsFiniteSet(Upto(i)) /\ Cardinality(Upto(i)) <= Len(ms)
    BY <1>1, <1>2, FS_Subset
  <2>2. Cardinality(Upto(i)) \in Nat /\ Cardinality(Upto(i)) # 0
    BY <1>2, <2>1, FS_CardinalityType, FS_EmptySet
  <2> QED  BY <1>1, <2>1, <2>2
<1>7. ASSUME NEW i \in N, NEW j \in N, Before(ms, i, j)
      PROVE  Cardinality(Upto(i)) < Cardinality(Upto(j))
  <2>1. Upto(i) \in SUBSET Upto(j) /\ Upto(i) # Upto(j)
    BY <1>2, <1>3, <1>7
  <2>2. Cardinality(Upto(i)) <= Cardinality(Upto(j)) /\ Cardinality(Upto(i)) # Cardinality(Upto(j))
    BY <1>6, <2>1, FS_Subset
  <2>3. Cardinality(Upto(i)) \in 1 .. Len(ms) /\ Cardinality(Upto(j)) \in 1 .. Len(ms)
    BY <1>6
  <2> QED  BY <1>1, <2>2, <2>3
<1> QED
  BY <1>4, <1>5, <1>6, <1>7 DEF N

\* sort_by_key: the list has the same mappings, in the order of their ports,
\* and of those with one port in the order they had.
LEMMA Sorted ==
    ASSUME NEW ms \in Seq(MappingSpec)
    PROVE  \E g \in [1 .. Len(ms) -> 1 .. Len(ms)] :
              /\ SortByPort(ms) = [k \in 1 .. Len(ms) |-> ms[g[k]]]
              /\ \A i \in 1 .. Len(ms) : \E k \in 1 .. Len(ms) : g[k] = i
              /\ \A k, l \in 1 .. Len(ms) : k < l => Before(ms, g[k], g[l])
<1> DEFINE N == 1 .. Len(ms)
           r == [i \in N |-> Rank(ms, i)]
           g == [k \in N |-> Place(N, r, k)]
<1>1. Len(ms) \in Nat /\ IsFiniteSet(N) /\ Cardinality(N) = Len(ms)
  BY ListFacts
<1>2. /\ \A i \in N : Rank(ms, i) \in N
      /\ \A i, j \in N : Before(ms, i, j) => Rank(ms, i) < Rank(ms, j)
      /\ \A i, j \in N : i = j \/ Before(ms, i, j) \/ Before(ms, j, i)
  BY Ranks
<1>3. \A i, j \in N : i # j => Rank(ms, i) # Rank(ms, j)
  <2> SUFFICES ASSUME NEW i \in N, NEW j \in N, i # j, Rank(ms, i) = Rank(ms, j)
               PROVE  FALSE
    OBVIOUS
  <2>1. Rank(ms, i) \in Nat /\ (Rank(ms, i) < Rank(ms, j) \/ Rank(ms, j) < Rank(ms, i))
    BY <1>1, <1>2
  <2> QED  BY <2>1
<1>4. /\ r \in [N -> 1 .. Cardinality(N)]
      /\ \A i, j \in N : r[i] = r[j] => i = j
  BY <1>1, <1>2, <1>3
<1>5. /\ \A k \in N : Place(N, r, k) \in N /\ r[Place(N, r, k)] = k
      /\ \A i \in N : Place(N, r, r[i]) = i
  <2> HIDE DEF N, r
  <2>1. 1 .. Cardinality(N) = N
    BY <1>1 DEF N
  <2> QED  BY <1>1, <1>4, <2>1, Places
<1>6. SortByPort(ms) = [k \in N |-> ms[g[k]]]
  BY <1>1 DEF SortByPort, Arranged
<1>7. \A i \in N : r[i] \in N /\ g[r[i]] = i
  BY <1>2, <1>5
<1>8. ASSUME NEW k \in N, NEW l \in N, k < l PROVE Before(ms, g[k], g[l])
  <2>1. g[k] \in N /\ g[l] \in N /\ Rank(ms, g[k]) = k /\ Rank(ms, g[l]) = l
    BY <1>5
  <2>2. k \in Nat /\ l \in Nat /\ ~(l < k) /\ k # l
    BY <1>1, <1>8
  <2> QED  BY <1>2, <2>1, <2>2
<1>9. g \in [N -> N]
  BY <1>5
<1> QED
  BY <1>6, <1>7, <1>8, <1>9

\* retain: the list has the mappings of other ports, in the order they had.
LEMMA Retained ==
    ASSUME NEW ms \in Seq(MappingSpec), NEW port
    PROVE  \E n \in Nat : \E g \in [1 .. n -> Kept(ms, port)] :
              /\ Remove(ms, port) = [k \in 1 .. n |-> ms[g[k]]]
              /\ \A i \in Kept(ms, port) : \E k \in 1 .. n : g[k] = i
              /\ \A k, l \in 1 .. n : k < l => g[k] < g[l]
<1> DEFINE K == Kept(ms, port)
           n == Cardinality(K)
           r == InTurn(K)
           g == [k \in 1 .. n |-> Place(K, r, k)]
<1>1. K \in SUBSET (1 .. Len(ms)) /\ K \subseteq Nat /\ IsFiniteSet(1 .. Len(ms))
  BY ListFacts DEF Kept
<1>2. IsFiniteSet(K)
  BY <1>1, FS_Subset
<1>3. n \in Nat
  BY <1>2, FS_CardinalityType
<1>4. /\ r \in [K -> 1 .. n]
      /\ \A i, j \in K : i < j => r[i] < r[j]
      /\ \A i, j \in K : r[i] = r[j] => i = j
  BY <1>1, <1>2, Counting
<1>5. /\ \A k \in 1 .. n : Place(K, r, k) \in K /\ r[Place(K, r, k)] = k
      /\ \A i \in K : Place(K, r, r[i]) = i
  BY <1>2, <1>4, Places
<1>6. Remove(ms, port) = [k \in 1 .. n |-> ms[g[k]]]
  BY DEF Remove, Arranged
<1>7. \A i \in K : r[i] \in 1 .. n /\ g[r[i]] = i
  BY <1>4, <1>5
<1>8. ASSUME NEW k \in 1 .. n, NEW l \in 1 .. n, k < l PROVE g[k] < g[l]
  <2>1. g[k] \in K /\ g[l] \in K /\ r[g[k]] = k /\ r[g[l]] = l
    BY <1>5
  <2> HIDE DEF g, r, n, K
  <2>2. g[k] \in Nat /\ g[l] \in Nat
    BY <1>1, <2>1
  <2>3. k \in Nat /\ l \in Nat
    BY <1>3
  <2>4. ~(l < k) /\ k # l
    BY <1>8, <2>3
  <2>5. g[k] < g[l] \/ g[k] = g[l] \/ g[l] < g[k]
    BY <2>2
  <2> QED  BY <1>4, <2>1, <2>4, <2>5
<1>9. g \in [1 .. n -> K]
  BY <1>5
<1> QED
  BY <1>3, <1>6, <1>7, <1>8, <1>9

\* find: the first mapping of a port, and the only one with nothing before it.
LEMMA FirstFacts ==
    ASSUME NEW ms \in Seq(MappingSpec), NEW port, Matches(ms, port) # {}
    PROVE  /\ First(ms, port) \in Matches(ms, port)
           /\ \A j \in Matches(ms, port) : First(ms, port) <= j
           /\ \A m \in Matches(ms, port) :
                  (\A j \in Matches(ms, port) : m <= j) => m = First(ms, port)
<1>1. Len(ms) \in Nat /\ Matches(ms, port) \in SUBSET (1 .. Len(ms))
  BY ListFacts DEF Matches
<1>2. \E m \in Matches(ms, port) : \A j \in Matches(ms, port) : m <= j
  BY <1>1, Least
<1>3. /\ First(ms, port) \in Matches(ms, port)
      /\ \A j \in Matches(ms, port) : First(ms, port) <= j
  BY <1>2 DEF First
<1>4. \A j \in Matches(ms, port) : j \in Nat
  BY <1>1
<1> QED
  BY <1>3, <1>4

\* A list made of places of another one, with those of a port in their order,
\* has the same entry for it.
LEMMA SameEntry ==
    ASSUME NEW ms \in Seq(MappingSpec), NEW ns \in Seq(MappingSpec), NEW port,
           NEW g \in [1 .. Len(ns) -> 1 .. Len(ms)],
           \A k \in 1 .. Len(ns) : ns[k] = ms[g[k]],
           \A i \in Matches(ms, port) : \E k \in 1 .. Len(ns) : g[k] = i,
           \A k, l \in Matches(ns, port) : k < l => g[k] < g[l]
    PROVE  EntryOf(ns, port) = EntryOf(ms, port)
<1>1. /\ Len(ms) \in Nat /\ Len(ns) \in Nat
      /\ Matches(ms, port) \subseteq 1 .. Len(ms) /\ Matches(ns, port) \subseteq 1 .. Len(ns)
  BY ListFacts DEF Matches
<1>2. \A k \in 1 .. Len(ns) : k \in Matches(ns, port) <=> g[k] \in Matches(ms, port)
  BY DEF Matches
<1>3. CASE Matches(ns, port) = {}
  <2>1. Matches(ms, port) = {}
    BY <1>2, <1>3
  <2> QED  BY <1>3, <2>1 DEF EntryOf
<1>4. CASE Matches(ns, port) # {}
  <2> DEFINE k == First(ns, port)
  <2>1. k \in Matches(ns, port) /\ \A l \in Matches(ns, port) : k <= l
    BY <1>4, FirstFacts
  <2> HIDE DEF k
  <2>2. g[k] \in Matches(ms, port) /\ k \in 1 .. Len(ns)
    BY <1>1, <1>2, <2>1
  <2>3. ASSUME NEW i \in Matches(ms, port) PROVE g[k] <= i
    <3>1. PICK l \in 1 .. Len(ns) : g[l] = i
      OBVIOUS
    <3>2. l \in Matches(ns, port)
      BY <1>2, <3>1
    <3>3. k = l \/ k < l
      BY <1>1, <2>1, <2>2, <3>2
    <3>4. g[k] \in Nat /\ i \in Nat
      BY <1>1, <2>2
    <3> QED  BY <2>1, <3>1, <3>2, <3>3, <3>4
  <2>4. g[k] = First(ms, port)
    BY <2>2, <2>3, FirstFacts
  <2>5. ns[k] = ms[First(ms, port)]
    BY <2>2, <2>4
  <2> QED  BY <1>4, <2>2, <2>5 DEF EntryOf, k
<1> QED
  BY <1>3, <1>4

\* A list made of places of another one is a list of mappings.
LEMMA ListOfPlaces ==
    ASSUME NEW ms \in Seq(MappingSpec), NEW n \in Nat, NEW g \in [1 .. n -> 1 .. Len(ms)]
    PROVE  /\ [k \in 1 .. n |-> ms[g[k]]] \in Seq(MappingSpec)
           /\ Len([k \in 1 .. n |-> ms[g[k]]]) = n
<1>1. \A k \in 1 .. n : ms[g[k]] \in MappingSpec
  BY ListFacts
<1> QED
  BY <1>1

-----------------------------------------------------------------------------
(* upsert_mapping and remove_mapping.                                      *)

\* A mapping that is pushed is the only one of its port, and goes to its place.
LEMMA PushedEntry ==
    ASSUME NEW ms \in Seq(MappingSpec), NEW new \in MappingSpec,
           Matches(ms, new.port) = {}
    PROVE  LET ns == SortByPort(Append(ms, new))
           IN  /\ ns \in Seq(MappingSpec)
               /\ \A p : EntryOf(ns, p) =
                      IF p = new.port
                      THEN [container |-> new.container, shell |-> new.shell]
                      ELSE EntryOf(ms, p)
               /\ WellFormed(ms) => WellFormed(ns)
<1> DEFINE os == Append(ms, new)
           ns == SortByPort(os)
<1>1. /\ os \in Seq(MappingSpec) /\ Len(os) = Len(ms) + 1 /\ Len(ms) \in Nat
      /\ \A i \in 1 .. Len(ms) : os[i] = ms[i]
      /\ os[Len(ms) + 1] = new
  OBVIOUS
<1>2. PICK g \in [1 .. Len(os) -> 1 .. Len(os)] :
          /\ ns = [k \in 1 .. Len(os) |-> os[g[k]]]
          /\ \A i \in 1 .. Len(os) : \E k \in 1 .. Len(os) : g[k] = i
          /\ \A k, l \in 1 .. Len(os) : k < l => Before(os, g[k], g[l])
  BY <1>1, Sorted
<1> HIDE DEF os, ns
<1>3. Len(os) \in Nat /\ \A i \in 1 .. Len(os) : os[i].port \in Nat
  BY <1>1, ListFacts
<1>4. ns \in Seq(MappingSpec) /\ Len(ns) = Len(os)
  BY <1>1, <1>2, <1>3, ListOfPlaces
<1>5. ASSUME NEW p PROVE EntryOf(ns, p) = EntryOf(os, p)
  <2>1. \A k \in 1 .. Len(ns) : ns[k] = os[g[k]]
    BY <1>2, <1>4
  <2>2. \A k, l \in Matches(ns, p) : k < l => g[k] < g[l]
    <3> SUFFICES ASSUME NEW k \in Matches(ns, p), NEW l \in Matches(ns, p), k < l
                 PROVE  g[k] < g[l]
      OBVIOUS
    <3>1. k \in 1 .. Len(os) /\ l \in 1 .. Len(os) /\ ns[k].port = p /\ ns[l].port = p
      BY <1>4 DEF Matches
    <3>2. g[k] \in 1 .. Len(os) /\ os[g[k]].port = p /\ os[g[l]].port = p
      BY <1>4, <2>1, <3>1
    <3>3. Before(os, g[k], g[l]) /\ p \in Nat
      BY <1>2, <1>3, <3>1, <3>2
    <3> QED  BY <3>2, <3>3 DEF Before
  <2>3. \A i \in Matches(os, p) : \E k \in 1 .. Len(ns) : g[k] = i
    BY <1>2, <1>4 DEF Matches
  <2> QED  BY <1>1, <1>4, <2>1, <2>2, <2>3, SameEntry
<1>6. ASSUME NEW p, p # new.port PROVE EntryOf(os, p) = EntryOf(ms, p)
  <2>1. Matches(os, p) = Matches(ms, p)
    BY <1>1, <1>6 DEF Matches
  <2>2. First(os, p) = First(ms, p)
    BY <2>1 DEF First
  <2>3. Matches(ms, p) # {} => First(ms, p) \in 1 .. Len(ms)
    BY FirstFacts DEF Matches
  <2> QED  BY <1>1, <2>1, <2>2, <2>3 DEF EntryOf
<1>7. EntryOf(os, new.port) = [container |-> new.container, shell |-> new.shell]
  <2>1. Matches(os, new.port) = {Len(ms) + 1}
    BY <1>1 DEF Matches
  <2>2. First(os, new.port) = Len(ms) + 1
    BY <2>1 DEF First
  <2> QED  BY <1>1, <2>1, <2>2 DEF EntryOf
<1>8. ASSUME WellFormed(ms) PROVE WellFormed(ns)
  <2>1. \A i, j \in 1 .. Len(os) : i < j => os[i].port # os[j].port
    <3> SUFFICES ASSUME NEW i \in 1 .. Len(os), NEW j \in 1 .. Len(os), i < j
                 PROVE  os[i].port # os[j].port
      OBVIOUS
    <3>1. i \in 1 .. Len(ms) /\ (j \in 1 .. Len(ms) \/ j = Len(ms) + 1)
      BY <1>1
    <3>2. ms[i].port # new.port
      BY <3>1 DEF Matches
    <3>3. j \in 1 .. Len(ms) => ms[i].port # ms[j].port
      BY <1>1, <1>3, <1>8, <3>1 DEF WellFormed
    <3> QED  BY <1>1, <3>1, <3>2, <3>3
  <2> SUFFICES ASSUME NEW k \in 1 .. Len(os), NEW l \in 1 .. Len(os), k < l
               PROVE  ns[k].port < ns[l].port
    BY <1>4 DEF WellFormed
  <2>2. Before(os, g[k], g[l]) /\ g[k] \in 1 .. Len(os) /\ g[l] \in 1 .. Len(os)
    BY <1>2
  <2>3. os[g[k]].port < os[g[l]].port
    BY <2>1, <2>2 DEF Before
  <2> QED  BY <1>2, <2>3
<1> QED
  BY <1>4, <1>5, <1>6, <1>7, <1>8 DEF ns, os

\* upsert_mapping: the entry of the port is updated and no other one, and a
\* list that is in order stays so.
LEMMA UpsertFacts ==
    ASSUME NEW ms \in Seq(MappingSpec), NEW port \in Port, NEW container \in Container,
           NEW shell \in Shell \cup {NoShell, Keep}
    PROVE  LET ns == Upsert(ms, port, container, shell)
           IN  /\ ns \in Seq(MappingSpec)
               /\ \A p : EntryOf(ns, p) =
                      IF p = port THEN Table!Updated(EntryOf(ms, port), container, shell)
                      ELSE EntryOf(ms, p)
               /\ WellFormed(ms) => WellFormed(ns)
<1> DEFINE ns == Upsert(ms, port, container, shell)
           f == First(ms, port)
<1>1. CASE Matches(ms, port) = {}
  <2> DEFINE new == [port |-> port, container |-> container,
                     shell |-> IF shell = Keep THEN NoShell ELSE shell]
  <2>1. new \in MappingSpec /\ new.port = port /\ new.container = container
        /\ new.shell = IF shell = Keep THEN NoShell ELSE shell
    BY DEF MappingSpec
  <2>2. ns = SortByPort(Append(ms, new))
    BY <1>1 DEF Upsert
  <2>3. EntryOf(ms, port) = NoEntry
    BY <1>1 DEF EntryOf
  <2>4. Table!Updated(EntryOf(ms, port), container, shell)
            = [container |-> new.container, shell |-> new.shell]
    BY <2>1, <2>3 DEF Table!Updated
  <2> HIDE DEF new, ns
  <2>5. /\ ns \in Seq(MappingSpec)
        /\ \A p : EntryOf(ns, p) =
               IF p = new.port
               THEN [container |-> new.container, shell |-> new.shell]
               ELSE EntryOf(ms, p)
        /\ WellFormed(ms) => WellFormed(ns)
    BY <1>1, <2>1, <2>2, PushedEntry
  <2> QED  BY <2>1, <2>4, <2>5 DEF ns
<1>2. CASE Matches(ms, port) # {}
  <2>1. /\ f \in 1 .. Len(ms) /\ ms[f] \in MappingSpec /\ ms[f].port = port
        /\ Len(ms) \in Nat
    BY <1>2, FirstFacts, ListFacts DEF Matches
  <2> DEFINE m == [ms[f] EXCEPT !.container = container,
                                !.shell = IF shell = Keep THEN @ ELSE shell]
  <2>2. m \in MappingSpec /\ m.port = port /\ m.container = container
        /\ m.shell = IF shell = Keep THEN ms[f].shell ELSE shell
    BY <2>1 DEF MappingSpec
  <2>3. ns = [ms EXCEPT ![f] = m]
    BY <1>2, <2>1 DEF Upsert
  <2> HIDE DEF m, ns, f
  <2>4. /\ ns \in Seq(MappingSpec) /\ Len(ns) = Len(ms)
        /\ \A i \in 1 .. Len(ms) : ns[i] = IF i = f THEN m ELSE ms[i]
    BY <2>1, <2>2, <2>3
  <2>5. \A i \in 1 .. Len(ms) : ns[i].port = ms[i].port
    BY <2>1, <2>2, <2>4
  <2>6. \A p : Matches(ns, p) = Matches(ms, p)
    BY <2>4, <2>5 DEF Matches
  <2>7. \A p : First(ns, p) = First(ms, p)
    BY <2>6 DEF First
  <2>8. EntryOf(ns, port) = [container |-> m.container, shell |-> m.shell]
    BY <1>2, <2>1, <2>4, <2>6, <2>7 DEF EntryOf, f
  <2>9. EntryOf(ms, port) = [container |-> ms[f].container, shell |-> ms[f].shell]
        /\ EntryOf(ms, port) # NoEntry
    BY <1>2, <2>1, NameAssumption DEF EntryOf, f, MappingSpec
  <2>10. EntryOf(ns, port) = Table!Updated(EntryOf(ms, port), container, shell)
    BY <2>2, <2>8, <2>9 DEF Table!Updated
  <2>11. ASSUME NEW p, p # port PROVE EntryOf(ns, p) = EntryOf(ms, p)
    <3>1. Matches(ms, p) # {} => First(ms, p) \in 1 .. Len(ms) /\ First(ms, p) # f
      BY <2>1, <2>11, FirstFacts DEF Matches
    <3> QED  BY <2>4, <2>6, <2>7, <3>1 DEF EntryOf
  <2>12. WellFormed(ms) => WellFormed(ns)
    BY <2>4, <2>5 DEF WellFormed
  <2> QED  BY <2>4, <2>10, <2>11, <2>12 DEF ns
<1> QED
  BY <1>1, <1>2

\* remove_mapping: the port has no entry any more, the others keep theirs.
LEMMA RemoveFacts ==
    ASSUME NEW ms \in Seq(MappingSpec), NEW port
    PROVE  LET ns == Remove(ms, port)
           IN  /\ ns \in Seq(MappingSpec)
               /\ \A p : EntryOf(ns, p) = IF p = port THEN NoEntry ELSE EntryOf(ms, p)
               /\ WellFormed(ms) => WellFormed(ns)
<1> DEFINE ns == Remove(ms, port)
<1>1. PICK n \in Nat : \E g \in [1 .. n -> Kept(ms, port)] :
          /\ ns = [k \in 1 .. n |-> ms[g[k]]]
          /\ \A i \in Kept(ms, port) : \E k \in 1 .. n : g[k] = i
          /\ \A k, l \in 1 .. n : k < l => g[k] < g[l]
  BY Retained
<1>2. PICK g \in [1 .. n -> Kept(ms, port)] :
          /\ ns = [k \in 1 .. n |-> ms[g[k]]]
          /\ \A i \in Kept(ms, port) : \E k \in 1 .. n : g[k] = i
          /\ \A k, l \in 1 .. n : k < l => g[k] < g[l]
  BY <1>1
<1> HIDE DEF ns
<1>3. /\ Kept(ms, port) \subseteq 1 .. Len(ms) /\ g \in [1 .. n -> 1 .. Len(ms)]
      /\ \A k \in 1 .. n : ms[g[k]].port # port
  BY DEF Kept
<1>4. ns \in Seq(MappingSpec) /\ Len(ns) = n
  BY <1>2, <1>3, ListOfPlaces
<1>5. \A k \in 1 .. Len(ns) : ns[k] = ms[g[k]]
  BY <1>2, <1>4
<1>6. EntryOf(ns, port) = NoEntry
  BY <1>3, <1>4, <1>5 DEF EntryOf, Matches
<1>7. ASSUME NEW p, p # port PROVE EntryOf(ns, p) = EntryOf(ms, p)
  <2>1. \A i \in Matches(ms, p) : \E k \in 1 .. Len(ns) : g[k] = i
    BY <1>2, <1>4, <1>7 DEF Matches, Kept
  <2>2. \A k, l \in Matches(ns, p) : k < l => g[k] < g[l]
    BY <1>2, <1>4 DEF Matches
  <2> QED  BY <1>3, <1>4, <1>5, <2>1, <2>2, SameEntry
<1>8. ASSUME WellFormed(ms) PROVE WellFormed(ns)
  <2> SUFFICES ASSUME NEW k \in 1 .. n, NEW l \in 1 .. n, k < l
               PROVE  ns[k].port < ns[l].port
    BY <1>4 DEF WellFormed
  <2>1. g[k] \in 1 .. Len(ms) /\ g[l] \in 1 .. Len(ms) /\ g[k] < g[l]
    BY <1>2, <1>3
  <2> QED  BY <1>4, <1>5, <1>8, <2>1 DEF WellFormed
<1> QED
  BY <1>4, <1>6, <1>7, <1>8 DEF ns

-----------------------------------------------------------------------------
(* Types.                                                                  *)

Request ==
    [op : {"set"}, port : RequestPort, container : Container \cup Unknown,
     shell : Shell \cup {NoShell, Keep}]
    \cup [op : {"rm"}, port : RequestPort]

Stages == {"metadata", "create", "created", "docker", "load", "truncate", "write"}
Running == [at : Stages, request : Request, cfg : ConfigFile]

\* A command that has asked docker changes the file for a container that exists.
Asked(k) ==
    k.at \in {"load", "truncate", "write"} /\ k.request.op = "set" =>
        k.request.container \in Container

TypeInv ==
    /\ file \in {Missing, Invalid} \cup ConfigFile
    /\ cmd \in [Command -> {None} \cup Running]
    /\ \A c \in Command : cmd[c] # None => Asked(cmd[c])

\* A blank configuration is one, and it is in order.
LEMMA BlankType == Blank \in ConfigFile /\ WellFormed(Blank.mappings) /\ Blank.mappings = <<>>
  BY DEF Blank, ConfigFile, Settings, WellFormed

LEMMA NoneIsNotRunning ==
    /\ None \notin Running
    /\ \A k \in Running : k.at \in Stages /\ k.request \in Request /\ k.cfg \in ConfigFile
    /\ None.at = "idle" /\ "idle" \notin Stages
  BY DEF None, Running, Stages

\* What a command makes of the file it loads is a configuration.
LEMMA ChangedType ==
    ASSUME NEW cfg \in ConfigFile, NEW request \in Request,
           request.op = "set" => request.container \in Container
    PROVE  /\ Changed(cfg, request) \in ConfigFile
           /\ Changed(cfg, request).settings = cfg.settings
           /\ Changed(cfg, request).mappings =
                  IF request.op = "set"
                  THEN Upsert(cfg.mappings, request.port, request.container, request.shell)
                  ELSE Remove(cfg.mappings, request.port)
<1>1. /\ cfg.mappings \in Seq(MappingSpec) /\ cfg.settings \in Settings
      /\ cfg = [settings |-> cfg.settings, mappings |-> cfg.mappings]
  BY DEF ConfigFile
<1>2. /\ request.port \in Port
      /\ request.op = "set" => request.shell \in Shell \cup {NoShell, Keep}
  BY PortAssumption DEF Request
<1> DEFINE ns == IF request.op = "set"
                 THEN Upsert(cfg.mappings, request.port, request.container, request.shell)
                 ELSE Remove(cfg.mappings, request.port)
<1>3. ns \in Seq(MappingSpec)
  BY <1>1, <1>2, UpsertFacts, RemoveFacts
<1>4. Changed(cfg, request) = [settings |-> cfg.settings, mappings |-> ns]
  BY <1>1 DEF Changed
<1> HIDE DEF ns
<1>5. [settings |-> cfg.settings, mappings |-> ns] \in ConfigFile
  BY <1>1, <1>3 DEF ConfigFile
<1> QED
  BY <1>4, <1>5 DEF ns

LEMMA InitTypeInv == Init => TypeInv
  BY FileAssumption DEF Init, TypeInv

\* A command that returns or goes on keeps the type.
LEMMA MovesOn ==
    ASSUME TypeInv, NEW c \in Command, NEW k \in {None} \cup Running,
           k # None => Asked(k), cmd' = [cmd EXCEPT ![c] = k],
           file' \in {Missing, Invalid} \cup ConfigFile
    PROVE  TypeInv'
  BY DEF TypeInv

LEMMA StartStep ==
    ASSUME TypeInv, NEW c \in Command, NEW request \in Request, Start(c, request)
    PROVE  TypeInv'
<1> DEFINE k == [at |-> "metadata", request |-> request, cfg |-> Blank]
<1>1. k \in Running /\ Asked(k)
  BY BlankType DEF Running, Stages, Asked
<1>2. cmd' = [cmd EXCEPT ![c] = k] /\ file' = file
  BY DEF Start
<1> HIDE DEF k
<1> QED
  BY <1>1, <1>2, MovesOn DEF TypeInv

\* The step of a command that stays where it is but for its stage.
LEMMA GotoStep ==
    ASSUME TypeInv, NEW c \in Command, cmd[c] # None, NEW where \in Stages,
           Goto(c, where), file' \in {Missing, Invalid} \cup ConfigFile,
           Asked([cmd[c] EXCEPT !.at = where])
    PROVE  TypeInv'
<1> DEFINE k == [cmd[c] EXCEPT !.at = where]
<1>1. cmd[c] \in Running
  BY DEF TypeInv
<1>2. k \in Running
  BY <1>1 DEF Running
<1>3. cmd' = [cmd EXCEPT ![c] = k]
  BY DEF Goto, TypeInv
<1>4. Asked(k)
  OBVIOUS
<1> HIDE DEF k
<1> QED
  BY <1>2, <1>3, <1>4, MovesOn

LEMMA CommandStepType ==
    ASSUME TypeInv, NEW c \in Command, CommandStep(c)
    PROVE  TypeInv'
<1> DEFINE To(where) == [cmd[c] EXCEPT !.at = where]
<1>1. file \in {Missing, Invalid} \cup ConfigFile /\ Blank \in ConfigFile
  BY BlankType DEF TypeInv
<1>2. cmd[c] # None => /\ cmd[c] \in Running /\ Asked(cmd[c])
                       /\ cmd[c].at \in Stages /\ cmd[c].request \in Request
  BY NoneIsNotRunning DEF TypeInv
<1>3. cmd[c].at # "idle" => cmd[c] # None
  BY NoneIsNotRunning
<1>4. ASSUME cmd[c] # None, NEW where \in Stages
      PROVE  /\ To(where).at = where /\ To(where).request = cmd[c].request
             /\ where \in {"metadata", "create", "created", "docker"} => Asked(To(where))
             /\ cmd[c].request.op # "set" \/ cmd[c].request.container \in Container
                    => Asked(To(where))
  BY <1>2, <1>4 DEF Running, Asked
<1>5. ASSUME Return(c), file' \in {Missing, Invalid} \cup ConfigFile PROVE TypeInv'
  BY <1>5, MovesOn DEF Return
<1>6. cmd[c] # None => AfterMetadata(c) \in Stages /\ Asked(To(AfterMetadata(c)))
  BY <1>4 DEF AfterMetadata, Stages
<1> HIDE DEF To
<1>7. CASE Metadata(c)
  <2>1. cmd[c] # None /\ file' = file
    BY <1>3, <1>7 DEF Metadata
  <2> DEFINE w == IF file = Missing THEN "create" ELSE AfterMetadata(c)
  <2>2. Goto(c, w)
    BY <1>7 DEF Metadata
  <2>3. w \in Stages /\ Asked(To(w))
    BY <1>4, <1>6, <2>1 DEF Stages
  <2> HIDE DEF w
  <2> QED  BY <1>1, <2>1, <2>2, <2>3, GotoStep DEF To
<1>8. CASE Create(c)
  <2>1. cmd[c] # None /\ file' = Blank /\ Goto(c, "created")
    BY <1>3, <1>8 DEF Create
  <2>2. "created" \in Stages /\ Asked(To("created"))
    BY <1>4, <2>1 DEF Stages
  <2> QED  BY <1>1, <2>1, <2>2, GotoStep DEF To
<1>9. CASE CreateWrite(c)
  <2>1. cmd[c] # None /\ file' = Blank /\ Goto(c, AfterMetadata(c))
    BY <1>3, <1>9 DEF CreateWrite
  <2> QED  BY <1>1, <1>6, <2>1, GotoStep DEF To
<1>10. CASE InspectContainer(c)
  <2>1. cmd[c] # None /\ file' = file
    BY <1>3, <1>10 DEF InspectContainer
  <2>2. CASE cmd[c].request.container \notin Unknown /\ Goto(c, "load")
    <3>1. cmd[c].request.op # "set" \/ cmd[c].request.container \in Container
      BY <1>2, <2>1, <2>2 DEF Request
    <3>2. "load" \in Stages /\ Asked(To("load"))
      BY <1>4, <2>1, <3>1 DEF Stages
    <3> QED  BY <1>1, <2>1, <2>2, <3>2, GotoStep DEF To
  <2> QED  BY <1>1, <1>5, <1>10, <2>1, <2>2 DEF InspectContainer
<1>11. CASE Load(c)
  <2>1. cmd[c] # None /\ file' = file /\ cmd[c].at = "load"
    BY <1>3, <1>11 DEF Load
  <2>2. CASE file \notin {Missing, Invalid}
    <3> DEFINE k == [cmd[c] EXCEPT !.at = "truncate", !.cfg = Changed(file, cmd[c].request)]
    <3>1. cmd[c].request.op = "set" => cmd[c].request.container \in Container
      BY <1>2, <2>1 DEF Asked
    <3>2. Changed(file, cmd[c].request) \in ConfigFile
      BY <1>1, <1>2, <2>1, <2>2, <3>1, ChangedType
    <3>3. k \in Running /\ Asked(k)
      BY <1>2, <2>1, <3>1, <3>2 DEF Running, Stages, Asked
    <3>4. cmd' = [cmd EXCEPT ![c] = k]
      BY <1>11, <2>2 DEF Load, TypeInv
    <3> HIDE DEF k
    <3> QED  BY <1>1, <2>1, <3>3, <3>4, MovesOn
  <2> QED  BY <1>1, <1>5, <1>11, <2>1, <2>2 DEF Load
<1>12. CASE SaveTruncate(c)
  <2>1. cmd[c] # None /\ file' = Blank /\ cmd[c].at = "truncate" /\ Goto(c, "write")
    BY <1>3, <1>12 DEF SaveTruncate
  <2>2. "write" \in Stages /\ Asked(To("write"))
    BY <1>2, <1>4, <2>1 DEF Stages, Asked
  <2> QED  BY <1>1, <2>1, <2>2, GotoStep DEF To
<1>13. CASE SaveWrite(c)
  <2>1. cmd[c] \in Running /\ file' = cmd[c].cfg
    BY <1>2, <1>3, <1>13 DEF SaveWrite
  <2> QED  BY <1>5, <1>13, <2>1, NoneIsNotRunning DEF SaveWrite
<1>14. CASE Killed(c)
  BY <1>1, <1>5, <1>14 DEF Killed
<1> QED
  BY <1>7, <1>8, <1>9, <1>10, <1>11, <1>12, <1>13, <1>14 DEF CommandStep

\* What a command is asked for is a request.
LEMMA RequestType ==
    /\ \A p \in RequestPort, n \in Container \cup Unknown, sh \in Shell \cup {NoShell, Keep} :
           [op |-> "set", port |-> p, container |-> n, shell |-> sh] \in Request
    /\ \A p \in RequestPort : [op |-> "rm", port |-> p] \in Request
  BY DEF Request

LEMMA NextTypeInv == TypeInv /\ [Next]_vars => TypeInv'
<1> SUFFICES ASSUME TypeInv, [Next]_vars PROVE TypeInv'
  OBVIOUS
<1>1. CASE UNCHANGED vars
  BY <1>1 DEF TypeInv, vars
<1>2. ASSUME NEW c \in Command, CommandStep(c) PROVE TypeInv'
  BY <1>2, CommandStepType
<1>3. ASSUME NEW c \in Command, NEW p \in RequestPort, NEW n \in Container \cup Unknown,
             NEW sh \in Shell \cup {NoShell, Keep}, ConfigSet(c, p, n, sh)
      PROVE  TypeInv'
  BY <1>3, RequestType, StartStep DEF ConfigSet
<1>4. ASSUME NEW c \in Command, NEW p \in RequestPort, ConfigRm(c, p)
      PROVE  TypeInv'
  BY <1>4, RequestType, StartStep DEF ConfigRm
<1> QED
  BY <1>1, <1>2, <1>3, <1>4 DEF Next

\* The file is absent, no configuration, or one whose mappings have a port, a
\* container and a shell, and so is what a command is about to write.
THEOREM TypeCorrect == Spec => []TypeOK
<1>1. TypeInv => TypeOK
  BY NoneIsNotRunning DEF TypeInv, TypeOK
<1> QED
  BY <1>1, InitTypeInv, NextTypeInv, PTL DEF Spec

-----------------------------------------------------------------------------
(* Commands one at a time, none of them killed in its write.               *)

\* The file f that command k found missing, created or loaded is as it left it.
Follows(k, f) ==
    /\ k.at = "create" => f = Missing
    /\ k.at = "created" => f = Blank
    /\ k.at = "truncate" =>
           f \in ConfigFile /\ k.cfg = Changed(f, k.request)

TableInv ==
    /\ TypeInv
    /\ \A c, d \in Command : cmd[c] # None /\ cmd[d] # None => c = d
    /\ \A c \in Command : cmd[c] # None => Follows(cmd[c], file)

\* What the file says when nobody writes it.
Said == IF file \in {Missing, Invalid} THEN Blank ELSE file

LEMMA ContentsFacts ==
    ASSUME TypeInv, \A c, d \in Command : cmd[c] # None /\ cmd[d] # None => c = d
    PROVE  /\ (\A c \in Command : cmd[c].at # "write") => Contents = Said
           /\ \A c \in Command : cmd[c].at = "write" => Contents = cmd[c].cfg
           /\ Contents \in ConfigFile
<1> DEFINE writing == {c \in Command : cmd[c].at = "write"}
<1>1. Contents = IF writing # {} THEN cmd[CHOOSE c \in writing : TRUE].cfg ELSE Said
  BY DEF Contents, Said
<1>2. \A c \in Command : cmd[c].at = "write" => cmd[c] # None /\ cmd[c].cfg \in ConfigFile
  BY NoneIsNotRunning DEF TypeInv
<1>3. \A c \in Command : cmd[c].at = "write" => writing = {c}
  BY <1>2
<1>4. \A c \in Command : cmd[c].at = "write" => Contents = cmd[c].cfg
  BY <1>1, <1>3
<1>5. Said \in ConfigFile
  BY BlankType DEF Said, TypeInv
<1> QED
  BY <1>1, <1>2, <1>4, <1>5

\* The same of the next state.
LEMMA ContentsFactsNext ==
    ASSUME TableInv', NEW c \in Command, cmd'[c].at = "write"
    PROVE  Contents' = cmd'[c].cfg
<1> DEFINE writing == {d \in Command : cmd'[d].at = "write"}
<1>1. /\ \A d \in Command : cmd'[d].at = "write" => cmd'[d] # None
      /\ \A d, e \in Command : cmd'[d] # None /\ cmd'[e] # None => d = e
  BY NoneIsNotRunning DEF TableInv
<1>2. writing = {c}
  BY <1>1
<1> QED
  BY <1>2 DEF Contents

LEMMA InitTableInv == Init => TableInv
  BY InitTypeInv DEF Init, TableInv

\* A step of command c, which is the only one.
LEMMA AloneStep ==
    ASSUME TableInv, TypeInv', NEW c \in Command, NEW k \in {None} \cup Running,
           cmd' = [cmd EXCEPT ![c] = k],
           \A d \in Command : d # c => cmd[d] = None,
           k # None => Follows(k, file')
    PROVE  TableInv'
  BY DEF TableInv, TypeInv

\* A step that leaves the contents as they are.
LEMMA SameContents ==
    ASSUME TableInv, TableInv', NEW c \in Command,
           \A d \in Command : d # c => cmd[d] = None /\ cmd'[d] = None,
           cmd[c].at # "write", cmd'[c].at # "write", Said' = Said
    PROVE  Contents' = Contents
<1>1. \A d \in Command : cmd[d].at # "write" /\ cmd'[d].at # "write"
  BY NoneIsNotRunning
<1>2. Contents = Said
  BY <1>1, ContentsFacts DEF TableInv
<1>3. Contents' = Said'
  <2>1. /\ TypeInv'
        /\ \A d, e \in Command : cmd'[d] # None /\ cmd'[e] # None => d = e
    BY DEF TableInv
  <2> DEFINE writing == {d \in Command : cmd'[d].at = "write"}
  <2>2. writing = {}
    BY <1>1
  <2> QED  BY <2>2 DEF Contents, Said
<1> QED
  BY <1>2, <1>3

\* The requests that are pending when only command c may run.
LEMMA PendingFacts ==
    ASSUME TableInv, NEW c \in Command, \A d \in Command : d # c => cmd[d] = None
    PROVE  /\ cmd[c].at \in {"idle", "write"} => Pending = {}
           /\ cmd[c].at \notin {"idle", "write"} => Pending = {cmd[c].request}
  BY NoneIsNotRunning DEF Pending

\* The same of the next state.
LEMMA PendingFactsNext ==
    ASSUME NEW c \in Command, \A d \in Command : d # c => cmd'[d] = None
    PROVE  /\ cmd'[c].at \in {"idle", "write"} => Pending' = {}
           /\ cmd'[c].at \notin {"idle", "write"} => Pending' = {cmd'[c].request}
  BY NoneIsNotRunning DEF Pending

\* What a step may make of the contents and of the pending requests: nothing,
\* the call of a request, its failure, or the change it asks for.
Called(request) == Contents' = Contents /\ Pending' = Pending \cup {request}
Failed(request) == Contents' = Contents /\ request \in Pending /\ Pending' = Pending \ {request}

Applied(request) ==
    /\ request \in Pending /\ Pending' = Pending \ {request}
    /\ request.op = "set" => request.container \in Container
    /\ Contents' = Changed(Contents, request)

ContentsStep ==
    \/ Contents' = Contents /\ Pending' = Pending
    \/ \E request \in Request : Called(request) \/ Failed(request) \/ Applied(request)

LEMMA StartTable ==
    ASSUME OneAtATime, TableInv, TypeInv', NEW c \in Command, NEW request \in Request,
           Start(c, request)
    PROVE  TableInv' /\ ContentsStep
<1> DEFINE k == [at |-> "metadata", request |-> request, cfg |-> Blank]
<1>1. /\ \A d \in Command : cmd[d] = None
      /\ cmd' = [cmd EXCEPT ![c] = k] /\ file' = file
  BY DEF Start, Idle
<1>2. k \in Running /\ Follows(k, file') /\ k.at # "write"
  BY BlankType DEF Running, Stages, Follows
<1> HIDE DEF k
<1>3. TableInv'
  BY <1>1, <1>2, AloneStep
<1>4. cmd'[c] = k /\ cmd[c] = None /\ \A d \in Command : d # c => cmd'[d] = None
  BY <1>1 DEF TableInv, TypeInv
<1>5. Contents' = Contents
  BY <1>1, <1>2, <1>3, <1>4, NoneIsNotRunning, SameContents DEF Said
<1>6. Pending = {}
  BY <1>1, <1>4, NoneIsNotRunning, PendingFacts
<1>7. k.at = "metadata" /\ k.request = request
  BY DEF k
<1>8. Pending' = {request}
  BY <1>4, <1>7, PendingFactsNext
<1> QED
  BY <1>3, <1>5, <1>6, <1>8 DEF ContentsStep, Called

LEMMA CommandStepTable ==
    ASSUME ~KilledInWrite, TableInv, TypeInv', NEW c \in Command, CommandStep(c)
    PROVE  TableInv' /\ ContentsStep
<1>1. /\ cmd[c] # None
      /\ cmd[c] \in Running /\ cmd[c].request \in Request /\ Follows(cmd[c], file)
      /\ \A d \in Command : d # c => cmd[d] = None
      /\ cmd \in [Command -> {None} \cup Running] /\ TypeInv
  BY NoneIsNotRunning
     DEF CommandStep, Metadata, Create, CreateWrite, InspectContainer, Load,
         SaveTruncate, SaveWrite, Killed, TableInv, TypeInv
<1>2. /\ Blank \in ConfigFile /\ Missing \notin ConfigFile /\ Invalid \notin ConfigFile
      /\ file \in {Missing, Invalid} \cup ConfigFile /\ Missing # Invalid
  BY <1>1, BlankType, FileAssumption, NameAssumption DEF TypeInv
<1>3. \A d \in Command : d # c => cmd'[d] = None
  BY <1>1 DEF CommandStep, Metadata, Create, CreateWrite, InspectContainer, Load,
              SaveTruncate, SaveWrite, Killed, Goto, Return
\* A step to stage w that leaves the contents as they are.
<1>4. ASSUME NEW k \in {None} \cup Running, cmd' = [cmd EXCEPT ![c] = k],
             k # None => Follows(k, file'),
             cmd[c].at # "write", k.at # "write", Said' = Said,
             k = None \/ k.request = cmd[c].request
      PROVE  TableInv' /\ ContentsStep
  <2>1. TableInv'
    BY <1>1, <1>4, AloneStep
  <2>2. cmd'[c] = k
    BY <1>1, <1>4
  <2>3. Contents' = Contents
    BY <1>1, <1>3, <1>4, <2>1, <2>2, SameContents
  <2>4. Pending = {cmd[c].request}
    BY <1>1, <1>4, NoneIsNotRunning, PendingFacts
  <2>5. CASE k = None
    <3>1. Pending' = {}
      BY <1>3, <2>2, <2>5, NoneIsNotRunning, PendingFactsNext
    <3> QED  BY <1>1, <2>1, <2>3, <2>4, <3>1 DEF ContentsStep, Failed
  <2>6. CASE k # None
    <3>1. k.at \notin {"idle", "write"}
      BY <1>4, <2>6, NoneIsNotRunning
    <3>2. Pending' = {cmd[c].request}
      BY <1>3, <1>4, <2>2, <2>6, <3>1, PendingFactsNext
    <3> QED  BY <2>1, <2>3, <2>4, <3>2 DEF ContentsStep
  <2> QED  BY <2>5, <2>6
<1>5. ASSUME Return(c), cmd[c].at # "write", Said' = Said
      PROVE  TableInv' /\ ContentsStep
  BY <1>4, <1>5, NoneIsNotRunning DEF Return
<1> DEFINE At(w) == [cmd[c] EXCEPT !.at = w]
<1>6. \A w \in Stages : /\ At(w) \in Running /\ At(w).at = w
                        /\ At(w).request = cmd[c].request /\ At(w).cfg = cmd[c].cfg
  BY <1>1 DEF Running
<1>7. ASSUME NEW w \in Stages, Goto(c, w)
      PROVE  cmd' = [cmd EXCEPT ![c] = At(w)]
  BY <1>1, <1>7 DEF Goto
<1> HIDE DEF At
<1>8. ASSUME NEW w \in {"docker", "load"}, Goto(c, w), cmd[c].at # "write", Said' = Said
      PROVE  TableInv' /\ ContentsStep
  <2>1. w \in Stages
    BY DEF Stages
  <2>2. At(w).at = w /\ Follows(At(w), file')
    BY <1>6, <2>1 DEF Follows
  <2> QED  BY <1>4, <1>6, <1>7, <1>8, <2>1, <2>2
<1>9. AfterMetadata(c) \in {"docker", "load"}
  BY DEF AfterMetadata
<1>10. CASE Metadata(c)
  <2>1. file' = file /\ Said' = Said /\ cmd[c].at # "write"
    BY <1>10 DEF Metadata, Said
  <2>2. CASE file = Missing
    <3>1. Goto(c, "create") /\ "create" \in Stages
      BY <1>10, <2>2 DEF Metadata, Stages
    <3>2. At("create").at = "create" /\ Follows(At("create"), file')
      BY <1>6, <2>1, <2>2, <3>1 DEF Follows
    <3> QED  BY <1>4, <1>6, <1>7, <2>1, <3>1, <3>2
  <2> QED  BY <1>8, <1>9, <1>10, <2>1, <2>2 DEF Metadata
<1>11. CASE Create(c)
  <2>1. /\ file = Missing /\ file' = Blank /\ Said' = Said /\ cmd[c].at # "write"
        /\ Goto(c, "created") /\ "created" \in Stages
    BY <1>1, <1>2, <1>11 DEF Create, Said, Follows, Stages
  <2>2. At("created").at = "created" /\ Follows(At("created"), file')
    BY <1>6, <2>1 DEF Follows
  <2> QED  BY <1>4, <1>6, <1>7, <2>1, <2>2
<1>12. CASE CreateWrite(c)
  <2>1. /\ file = Blank /\ file' = Blank /\ Said' = Said /\ cmd[c].at # "write"
        /\ Goto(c, AfterMetadata(c))
    BY <1>1, <1>2, <1>12 DEF CreateWrite, Said, Follows
  <2> QED  BY <1>8, <1>9, <2>1
<1>13. CASE InspectContainer(c)
  <2>1. Said' = Said /\ cmd[c].at # "write"
    BY <1>13 DEF InspectContainer, Said
  <2>2. Goto(c, "load") \/ Return(c)
    BY <1>13 DEF InspectContainer
  <2> QED  BY <1>5, <1>8, <2>1, <2>2
<1>14. CASE Load(c)
  <2>1. file' = file /\ Said' = Said /\ cmd[c].at # "write"
    BY <1>14 DEF Load, Said
  <2>2. CASE file \notin {Missing, Invalid}
    <3> DEFINE k == [cmd[c] EXCEPT !.at = "truncate", !.cfg = Changed(file, cmd[c].request)]
    <3>1. cmd' = [cmd EXCEPT ![c] = k]
      BY <1>1, <1>14, <2>2 DEF Load
    <3>2. cmd'[c] = k
      BY <1>1, <3>1
    <3>3. /\ k.at = "truncate" /\ k.request = cmd[c].request
          /\ k.cfg = Changed(file, cmd[c].request)
      BY <1>1 DEF Running
    <3>4. k \in {None} \cup Running
      BY <1>1, <3>2 DEF TypeInv
    <3> HIDE DEF k
    <3>5. Follows(k, file')
      BY <1>2, <2>1, <2>2, <3>3 DEF Follows
    <3> QED  BY <1>4, <2>1, <3>1, <3>3, <3>4, <3>5
  <2> QED  BY <1>5, <1>14, <2>1, <2>2 DEF Load
<1>15. CASE SaveTruncate(c)
  <2>1. /\ file \in ConfigFile /\ cmd[c].cfg = Changed(file, cmd[c].request)
        /\ file' = Blank /\ Goto(c, "write") /\ "write" \in Stages
        /\ cmd[c].at = "truncate"
    BY <1>1, <1>15 DEF SaveTruncate, Follows, Stages
  <2>2. cmd' = [cmd EXCEPT ![c] = At("write")] /\ At("write").at = "write"
        /\ At("write").cfg = cmd[c].cfg /\ At("write") \in Running
    BY <1>6, <1>7, <2>1
  <2>3. Follows(At("write"), file')
    BY <2>2 DEF Follows
  <2>4. TableInv'
    BY <1>1, <2>2, <2>3, AloneStep
  <2>5. cmd'[c].at = "write" /\ cmd'[c].cfg = cmd[c].cfg
    BY <1>1, <2>2
  <2>6. Contents' = cmd[c].cfg
    BY <2>4, <2>5, ContentsFactsNext
  <2>7. \A d \in Command : cmd[d].at # "write"
    BY <1>1, <2>1, NoneIsNotRunning
  <2>8. Contents = file
    BY <1>1, <1>2, <2>1, <2>7, ContentsFacts DEF TableInv, Said
  <2>9. cmd[c].request.op = "set" => cmd[c].request.container \in Container
    BY <1>1, <2>1 DEF TypeInv, Asked
  <2>10. Pending = {cmd[c].request}
    BY <1>1, <2>1, PendingFacts DEF TableInv
  <2>11. Pending' = {}
    BY <1>3, <2>5, PendingFactsNext
  <2>12. Applied(cmd[c].request)
    BY <2>1, <2>6, <2>8, <2>9, <2>10, <2>11 DEF Applied
  <2> QED  BY <1>1, <2>4, <2>12 DEF ContentsStep
<1>16. CASE SaveWrite(c)
  <2>1. cmd[c].at = "write" /\ file' = cmd[c].cfg /\ cmd' = [cmd EXCEPT ![c] = None]
    BY <1>16 DEF SaveWrite, Return
  <2>2. TableInv'
    BY <1>1, <2>1, AloneStep
  <2>3. Contents = cmd[c].cfg
    BY <1>1, <2>1, ContentsFacts DEF TableInv
  <2>4. \A d \in Command : cmd'[d] = None
    BY <1>1, <1>3, <2>1
  <2>5. Contents' = Said'
    <3> DEFINE writing == {d \in Command : cmd'[d].at = "write"}
    <3>1. writing = {}
      BY <2>4, NoneIsNotRunning
    <3> QED  BY <3>1 DEF Contents, Said
  <2>6. Said' = cmd[c].cfg
    BY <1>1, <1>2, <2>1 DEF Said, Running
  <2>7. Pending = {} /\ Pending' = {}
    BY <1>1, <2>1, <2>4, NoneIsNotRunning, PendingFacts, PendingFactsNext
  <2> QED  BY <2>2, <2>3, <2>5, <2>6, <2>7 DEF ContentsStep
<1>17. CASE Killed(c)
  <2>1. Return(c) /\ cmd[c].at # "write" /\ Said' = Said
    BY <1>17 DEF Killed, Said
  <2> QED  BY <1>5, <2>1
<1> QED
  BY <1>10, <1>11, <1>12, <1>13, <1>14, <1>15, <1>16, <1>17 DEF CommandStep

LEMMA NextTableInv ==
    ASSUME OneAtATime, ~KilledInWrite
    PROVE  TableInv /\ [Next]_vars => TableInv' /\ ContentsStep
<1> SUFFICES ASSUME TableInv, [Next]_vars PROVE TableInv' /\ ContentsStep
  OBVIOUS
<1>1. TypeInv'
  BY NextTypeInv DEF TableInv
<1>2. CASE UNCHANGED vars
  <2>1. Contents' = Contents /\ Pending' = Pending
    BY <1>2 DEF Contents, Pending, vars
  <2>2. TableInv'
    BY <1>1, <1>2 DEF TableInv, vars
  <2> QED  BY <2>1, <2>2 DEF ContentsStep
<1>3. ASSUME NEW c \in Command, CommandStep(c) PROVE TableInv' /\ ContentsStep
  BY <1>1, <1>3, CommandStepTable
<1>4. ASSUME NEW c \in Command, NEW p \in RequestPort, NEW n \in Container \cup Unknown,
             NEW sh \in Shell \cup {NoShell, Keep}, ConfigSet(c, p, n, sh)
      PROVE  TableInv' /\ ContentsStep
  BY <1>1, <1>4, RequestType, StartTable DEF ConfigSet
<1>5. ASSUME NEW c \in Command, NEW p \in RequestPort, ConfigRm(c, p)
      PROVE  TableInv' /\ ContentsStep
  BY <1>1, <1>5, RequestType, StartTable DEF ConfigRm
<1> QED
  BY <1>2, <1>3, <1>4, <1>5 DEF Next

LEMMA ContentsType == ASSUME TableInv PROVE Contents \in ConfigFile
  BY ContentsFacts DEF TableInv

\* The entries of a list are entries of a table.
LEMMA EntryType ==
    ASSUME NEW ms \in Seq(MappingSpec), NEW p
    PROVE  EntryOf(ms, p) \in Table!Entry \cup {NoEntry}
<1>1. CASE Matches(ms, p) = {}
  BY <1>1 DEF EntryOf
<1>2. CASE Matches(ms, p) # {}
  <2>1. First(ms, p) \in 1 .. Len(ms)
    BY <1>2, FirstFacts DEF Matches
  <2>2. ms[First(ms, p)] \in MappingSpec
    BY <2>1, ListFacts
  <2> QED  BY <1>2, <2>2 DEF EntryOf, MappingSpec, Table!Entry
<1> QED
  BY <1>1, <1>2

\* A change of the contents is one of the table.
LEMMA TableStep ==
    ASSUME NEW cfg \in ConfigFile, NEW request \in Request,
           request.op = "set" => request.container \in Container
    PROVE  \A p : EntryOf(Changed(cfg, request).mappings, p) =
               IF p # request.port THEN EntryOf(cfg.mappings, p)
               ELSE IF request.op # "set" THEN NoEntry
               ELSE Table!Updated(EntryOf(cfg.mappings, p), request.container, request.shell)
<1>1. /\ cfg.mappings \in Seq(MappingSpec) /\ request.port \in Port
      /\ request.op = "set" => request.shell \in Shell \cup {NoShell, Keep}
  BY PortAssumption DEF ConfigFile, Request
<1>2. CASE request.op = "set"
  BY <1>1, <1>2, ChangedType, UpsertFacts
<1>3. CASE request.op # "set"
  BY <1>1, <1>3, ChangedType, RemoveFacts
<1> QED
  BY <1>2, <1>3

\* Commands that run one at a time, and are not killed while they write, change
\* the table of mappings as `config set` and `config rm` promise, whatever
\* order and duplicates the file has: the entry of the port they were given, to
\* the container and shell they were given, at once, and nothing else, or
\* nothing at all. (upsert_mapping, remove_mapping)
THEOREM CommandsKeepTheirPromise ==
    ASSUME OneAtATime, ~KilledInWrite
    PROVE  Spec => ImplementsTable
<1> DEFINE table == [p \in Port |-> EntryOf(Contents.mappings, p)]
<1>1. ASSUME Init PROVE Table!Init
  <2>1. Contents \in ConfigFile
    BY <1>1, InitTableInv, ContentsType
  <2>2. Contents.mappings \in Seq(MappingSpec)
    BY <2>1 DEF ConfigFile
  <2>3. \A p \in Port : EntryOf(Contents.mappings, p) \in Table!Entry \cup {NoEntry}
    BY <2>2, EntryType
  <2>4. Pending = {}
    BY <1>1, NoneIsNotRunning DEF Init, Pending
  <2> QED  BY <2>3, <2>4 DEF Table!Init
<1>2. Request \subseteq Table!Request
  BY PortAssumption DEF Request, Table!Request
<1>3. ASSUME TableInv, [Next]_vars
      PROVE  [Table!Next]_<<table, Contents.settings, Pending>>
  <2>1. Contents \in ConfigFile /\ ContentsStep
    BY <1>3, NextTableInv, ContentsType
  <2>2. CASE Contents' = Contents /\ Pending' = Pending
    BY <2>2
  <2>3. ASSUME NEW request \in Request, Called(request) PROVE Table!Next
    <3>1. Table!Call(request)
      BY <2>3 DEF Called, Table!Call
    <3> QED  BY <1>2, <3>1 DEF Table!Next
  <2>4. ASSUME NEW request \in Request, Failed(request) PROVE Table!Next
    <3>1. Table!Fail(request)
      BY <2>4 DEF Failed, Table!Fail
    <3> QED  BY <1>2, <3>1 DEF Table!Next
  <2>5. ASSUME NEW request \in Request, Applied(request) PROVE Table!Next
    <3>1. /\ request \in Pending /\ Pending' = Pending \ {request}
          /\ request.op = "set" => request.container \in Container
          /\ Contents' = Changed(Contents, request)
      BY <2>5 DEF Applied
    <3>2. Contents'.settings = Contents.settings
      BY <2>1, <3>1, ChangedType
    <3>3. table' = [p \in Port |-> EntryOf(Changed(Contents, request).mappings, p)]
      BY <3>1
    <3>4. table' = [table EXCEPT ![request.port] =
                        IF request.op = "set"
                        THEN Table!Updated(@, request.container, request.shell)
                        ELSE NoEntry]
      <4>1. \A p \in Port : table'[p] =
                IF p # request.port THEN table[p]
                ELSE IF request.op # "set" THEN NoEntry
                ELSE Table!Updated(table[p], request.container, request.shell)
        BY <2>1, <3>1, <3>3, TableStep
      <4>2. DOMAIN table = Port /\ DOMAIN table' = Port
        OBVIOUS
      <4>3. /\ table = [p \in Port |-> table[p]]
            /\ table' = [p \in Port |-> table'[p]]
        OBVIOUS
      <4> HIDE DEF table
      <4> QED  BY <4>1, <4>2, <4>3
    <3>5. Table!Apply(request)
      <4> HIDE DEF table
      <4> QED  BY <3>1, <3>2, <3>4 DEF Table!Apply, table
    <3> QED  BY <1>2, <3>5 DEF Table!Next
  <2> QED  BY <2>1, <2>2, <2>3, <2>4, <2>5 DEF ContentsStep
<1> QED
  BY <1>1, <1>3, InitTableInv, NextTableInv, PTL
     DEF Spec, ImplementsTable, Table!Spec, Table!vars

\* The same commands leave a file in order that was in order: no port is ever
\* mapped twice by them. (upsert_mapping, against the bind of start_listener_set)
THEOREM OrderIsKept ==
    ASSUME OneAtATime, ~KilledInWrite
    PROVE  Spec => StaysWellFormed
<1>1. ASSUME TableInv, [Next]_vars, WellFormed(Contents.mappings)
      PROVE  WellFormed(Contents'.mappings)
  <2>1. Contents \in ConfigFile /\ ContentsStep
    BY <1>1, NextTableInv, ContentsType
  <2>2. ASSUME NEW request \in Request,
               request.op = "set" => request.container \in Container,
               Contents' = Changed(Contents, request)
        PROVE  WellFormed(Contents'.mappings)
    <3>1. /\ Contents.mappings \in Seq(MappingSpec) /\ request.port \in Port
          /\ request.op = "set" => request.shell \in Shell \cup {NoShell, Keep}
      BY <2>1, PortAssumption DEF ConfigFile, Request
    <3>2. Contents'.mappings =
              IF request.op = "set"
              THEN Upsert(Contents.mappings, request.port, request.container, request.shell)
              ELSE Remove(Contents.mappings, request.port)
      BY <2>1, <2>2, ChangedType
    <3> QED  BY <1>1, <2>2, <3>1, <3>2, UpsertFacts, RemoveFacts
  <2> QED  BY <1>1, <2>1, <2>2 DEF ContentsStep, Called, Failed, Applied
<1>2. TableInv /\ [Next]_vars =>
          [/\ file \in ConfigFile /\ WellFormed(Contents.mappings)
           => WellFormed(Contents'.mappings)]_vars
  BY <1>1
<1> QED
  BY <1>2, InitTableInv, NextTableInv, PTL DEF Spec, StaysWellFormed

=============================================================================
