------------------------- MODULE VectorStore_proofs -------------------------
(***************************************************************************)
(* Proofs about VectorStore, for every set of ids and vectors, every       *)
(* similarity, degree and beam: the graph holds the live rows, what        *)
(* searches find is a map, links are sound and answers are the best.       *)
(*                                                                         *)
(* The inductive invariant IInv is about three things that have to agree.  *)
(* The rows have one live row per id (RowsOk).  The graph has lists that   *)
(* fit its nodes, flat or growing (Shaped), marks every node of an id but  *)
(* the last as superseded (NodesOnce) and, where it has an index of the    *)
(* ids, one that is right (IndexRight).  The pairs of the graph's live     *)
(* nodes are those of the live rows (Agreed), and what is written or on    *)
(* the disk is whole and agrees in the same way (WritingOk, DiskOk).       *)
(*                                                                         *)
(* Batches and walks are recursive functions.  A recursive function over   *)
(* 0..n exists by induction (WaveStates), and what holds of it does so by  *)
(* another: Induction takes the property as a set of numbers, and follows  *)
(* from the well-foundedness of the naturals.                              *)
(*                                                                         *)
(* The second half is about the links.  Its invariant LInv says that they  *)
(* lead to nodes of their layer (Navigable), in the graph and in the file; *)
(* a walk that starts in a layer stays there, so links chosen from a walk  *)
(* are of the layer too.                                                   *)
(*                                                                         *)
(* The last part is about how work is split, and what runs in parallel     *)
(* without a lock.  Every way of splitting a range gives each item to the  *)
(* body exactly once, for every length, width and threshold (Shares).      *)
(*                                                                         *)
(* A batch that several workers link in waves gives the graph that one     *)
(* gives (Waves).  In the search phase nothing writes, so a node's links   *)
(* are those it chooses in the graph before the wave (Searching); what is  *)
(* written after it are the own links of the wave, which nothing reads,    *)
(* and the lists of other nodes, of which each group has one that no other *)
(* group has (GroupsAre), so that a list is, when it is read, what the     *)
(* wave found (Taking); and which links a node keeps depends on vectors    *)
(* and on that list alone (SameSelect).                                    *)
(***************************************************************************)
EXTENDS Shares, Waves, VectorStore, Orders_proofs

-----------------------------------------------------------------------------
(* Numbers and finite sets.                                                *)

\* A set of integers with an upper bound has a greatest one.
LEMMA GreatestNumber ==
    ASSUME NEW S \in SUBSET Int, S # {}, NEW n \in Int, \A x \in S : x <= n
    PROVE  /\ Most(S) \in S
           /\ \A y \in S : y <= Most(S)
<1> DEFINE T == {n - x : x \in S}
<1>0. T # {}
  <2>1. PICK x \in S : TRUE
    OBVIOUS
  <2>2. n - x \in T
    BY <2>1
  <2> QED BY <2>2
<1>1. T \in SUBSET Nat
  <2> SUFFICES ASSUME NEW x \in S PROVE n - x \in Nat
    OBVIOUS
  <2>1. x \in Int /\ x <= n
    OBVIOUS
  <2> QED BY <2>1
<1>2. PICK t \in T : \A y \in T : t <= y
  BY <1>0, <1>1, LeastNumber
<1>3. PICK x \in S : t = n - x
  OBVIOUS
<1>4. \A y \in S : y <= x
  <2> TAKE y \in S
  <2>1. n - y \in T /\ t <= n - y
    BY <1>2
  <2>2. y \in Int /\ x \in Int
    BY <1>3
  <2> QED BY <1>3, <2>1, <2>2
<1> HIDE DEF T
<1> QED BY <1>3, <1>4 DEF Most

\* Among finitely many there is one with the greatest value.
LEMMA GreatestValue ==
    ASSUME NEW S, IsFiniteSet(S), S # {}, NEW f, \A i \in S : f[i] \in Int
    PROVE  \E i \in S : \A j \in S : f[j] <= f[i]
<1> DEFINE N == {n \in Nat : \A T \in SUBSET S :
                    T # {} /\ Cardinality(T) = n => \E i \in T : \A j \in T : f[j] <= f[i]}
<1>1. 0 \in N
  <2> SUFFICES ASSUME NEW T \in SUBSET S, T # {}, Cardinality(T) = 0 PROVE FALSE
    OBVIOUS
  <2> QED BY FS_Subset, FS_EmptySet
<1>2. ASSUME NEW n \in Nat, n \in N PROVE n + 1 \in N
  <2> SUFFICES ASSUME NEW T \in SUBSET S, T # {}, Cardinality(T) = n + 1
               PROVE  \E i \in T : \A j \in T : f[j] <= f[i]
    OBVIOUS
  <2>1. PICK x \in T : TRUE
    OBVIOUS
  <2> DEFINE U == T \ {x}
  <2>2. U \in SUBSET S /\ Cardinality(U) = n
    <3>1. IsFiniteSet(T)
      BY FS_Subset
    <3>2. Cardinality(U) = Cardinality(T) - 1
      BY <2>1, <3>1, FS_RemoveElement
    <3> QED BY <3>2
  <2>3. CASE U = {}
    <3>1. T = {x}
      BY <2>1, <2>3
    <3> QED BY <3>1
  <2>4. CASE U # {}
    <3>1. PICK i \in U : \A j \in U : f[j] <= f[i]
      BY <1>2, <2>2, <2>4
    <3>2. f[i] \in Int /\ f[x] \in Int /\ \A j \in U : f[j] \in Int
      OBVIOUS
    <3>3. CASE f[x] <= f[i]
      <4>1. \A j \in T : f[j] <= f[i]
        BY <3>1, <3>3
      <4> QED BY <4>1
    <3>4. CASE ~(f[x] <= f[i])
      <4>1. \A j \in T : f[j] <= f[x]
        BY <3>1, <3>2, <3>4
      <4> QED BY <2>1, <4>1
    <3> QED BY <3>3, <3>4
  <2> QED BY <2>3, <2>4
<1>3. Nat \subseteq N
  <2> HIDE DEF N
  <2> QED BY <1>1, <1>2, Induction
<1>4. Cardinality(S) \in Nat
  BY FS_CardinalityType
<1> QED BY <1>3, <1>4

-----------------------------------------------------------------------------
(* A set of numbers in order.                                              *)

\* The members of a finite set of numbers, counted from the least.
LEMMA InOrder ==
    ASSUME NEW n \in Nat, NEW S \in SUBSET (1..n)
    PROVE  LET nth(k) == CHOOSE i \in S : Cardinality({j \in S : j <= i}) = k
           IN  /\ Cardinality(S) \in Nat
               /\ \A k \in 1..Cardinality(S) : nth(k) \in S
               /\ \A k, l \in 1..Cardinality(S) : nth(k) = nth(l) => k = l
               /\ \A i \in S : \E k \in 1..Cardinality(S) : nth(k) = i
<1> DEFINE below(i) == {j \in S : j <= i}
<1> DEFINE rank == [i \in S |-> Cardinality(below(i))]
<1> DEFINE nth(k) == CHOOSE i \in S : Cardinality({j \in S : j <= i}) = k
<1>1. IsFiniteSet(S) /\ Cardinality(S) \in Nat
  <2>1. IsFiniteSet(1..n)
    BY FS_Interval
  <2> QED BY <2>1, FS_Subset, FS_CardinalityType
<1>2. ASSUME NEW i \in S PROVE IsFiniteSet(below(i)) /\ rank[i] \in 1..Cardinality(S)
  <2>1. below(i) \subseteq S /\ i \in below(i)
    OBVIOUS
  <2>2. IsFiniteSet(below(i)) /\ Cardinality(below(i)) <= Cardinality(S)
    BY <1>1, <2>1, FS_Subset
  <2>3. Cardinality(below(i)) \in Nat /\ Cardinality(below(i)) # 0
    BY <2>1, <2>2, FS_CardinalityType, FS_EmptySet
  <2> QED BY <1>1, <2>2, <2>3
<1>3. ASSUME NEW i \in S, NEW j \in S, i < j PROVE rank[i] < rank[j]
  <2>0. i \in Int /\ j \in Int /\ \A k \in S : k \in Int
    OBVIOUS
  <2>1. below(i) \subseteq below(j) /\ j \in below(j) /\ j \notin below(i)
    <3>1. ~(j <= i) /\ j <= j
      BY <1>3, <2>0
    <3>2. ASSUME NEW k \in S, k <= i PROVE k <= j
      BY <1>3, <2>0, <3>2
    <3> QED BY <3>1, <3>2
  <2>2. IsFiniteSet(below(i)) /\ IsFiniteSet(below(j))
    BY <1>2
  <2>3. Cardinality(below(i)) < Cardinality(below(j))
    <3> HIDE DEF below
    <3>1. below(i) # below(j) /\ below(i) \in SUBSET below(j)
      BY <2>1
    <3>2. Cardinality(below(i)) <= Cardinality(below(j)) /\ Cardinality(below(i)) # Cardinality(below(j))
      BY <2>2, <3>1, FS_Subset
    <3>3. Cardinality(below(i)) \in Nat /\ Cardinality(below(j)) \in Nat
      BY <2>2, FS_CardinalityType
    <3> QED BY <3>2, <3>3
  <2> QED BY <2>3
<1>4. \A i, j \in S : rank[i] = rank[j] => i = j
  <2> SUFFICES ASSUME NEW i \in S, NEW j \in S, rank[i] = rank[j], i # j PROVE FALSE
    OBVIOUS
  <2>1. i < j \/ j < i
    OBVIOUS
  <2>2. rank[i] \in Int /\ rank[j] \in Int
    BY <1>2
  <2> HIDE DEF rank
  <2> QED BY <1>3, <2>1, <2>2
<1>5. rank \in Surjection(S, 1..Cardinality(S))
  <2>1. rank \in [S -> 1..Cardinality(S)]
    BY <1>2
  <2>2. rank \in Injection(S, 1..Cardinality(S))
    <3> HIDE DEF rank
    <3> QED BY <1>4, <2>1, Fun_IsInj
  <2>3. IsFiniteSet(1..Cardinality(S)) /\ Cardinality(1..Cardinality(S)) = Cardinality(S)
    BY <1>1, FS_Interval
  <2> HIDE DEF rank
  <2> QED BY <1>1, <2>1, <2>2, <2>3, FS_Injection
<1>6. ASSUME NEW k \in 1..Cardinality(S) PROVE nth(k) \in S /\ rank[nth(k)] = k
  <2>1. PICK i \in S : rank[i] = k
    <3> HIDE DEF rank
    <3> QED BY <1>5 DEF Surjection
  <2>2. Cardinality({j \in S : j <= i}) = k
    BY <2>1
  <2> QED BY <2>2
<1>7. ASSUME NEW i \in S PROVE nth(rank[i]) = i
  <2>1. nth(rank[i]) \in S /\ rank[nth(rank[i])] = rank[i]
    BY <1>2, <1>6
  <2> HIDE DEF nth, rank
  <2> QED BY <1>4, <2>1
<1>8. \A k, l \in 1..Cardinality(S) : nth(k) = nth(l) => k = l
  <2> HIDE DEF nth, rank
  <2> QED BY <1>6
<1>9. \A i \in S : \E k \in 1..Cardinality(S) : nth(k) = i
  <2> HIDE DEF nth
  <2> QED BY <1>2, <1>7
<1> QED BY <1>1, <1>6, <1>8, <1>9

-----------------------------------------------------------------------------
(* Graphs.                                                                 *)

IsGraph(g) == DOMAIN g = DOMAIN EmptyGraph
List(s) == Len(s) \in Nat /\ s = [i \in 1..Len(s) |-> s[i]]

\* What the fields hold; the lists of a sealed graph are empty or say what its
\* flat links say.
Shaped(g) ==
    /\ IsGraph(g)
    /\ g.nodes \in Seq(Node) /\ g.deleted \subseteq Id
    /\ g.sealed \in BOOLEAN /\ g.indexed \in BOOLEAN /\ g.undefined \in BOOLEAN
    /\ g.floats \in Nat
    /\ g.top \in -1..MaxLevel
    /\ List(g.links) /\ Len(g.links) = Len(g.nodes)
    /\ g.sealed => /\ g.links \in {[i \in Ordinals(g) |-> <<>>], Unpacked(g)}
                   /\ Len(g.csr) \in Nat
    /\ ~g.sealed => /\ g.csr = <<>>
                    /\ \A i \in Ordinals(g) : List(g.links[i])

\* Two graphs of the same nodes.
SameNodes(g, h) ==
    /\ h.nodes = g.nodes /\ h.deleted = g.deleted
    /\ h.indexed = g.indexed /\ h.ords = g.ords

LEMMA ListOf ==
    ASSUME NEW R, NEW s \in Seq(R)
    PROVE  List(s) /\ \A i \in 1..Len(s) : s[i] \in R
BY DEF List

LEMMA SeqOf ==
    ASSUME NEW R, NEW n \in Nat, NEW s \in [1..n -> R]
    PROVE  s \in Seq(R) /\ Len(s) = n
OBVIOUS

LEMMA Joined ==
    ASSUME NEW s, NEW t, List(s), List(t)
    PROVE  /\ List(s \o t)
           /\ Len(s \o t) = Len(s) + Len(t)
           /\ \A i \in 1..Len(s) : (s \o t)[i] = s[i]
           /\ \A i \in 1..Len(t) : (s \o t)[Len(s) + i] = t[i]
<1> DEFINE R == {s[i] : i \in 1..Len(s)} \union {t[i] : i \in 1..Len(t)}
<1>1. s \in Seq(R) /\ t \in Seq(R)
  BY DEF List
<1>2. s \o t \in Seq(R)
  <2> HIDE DEF R
  <2> QED BY <1>1
<1> HIDE DEF R
<1>3. Len(s \o t) = Len(s) + Len(t)
  BY <1>1
<1>4. \A i \in 1..Len(s) : (s \o t)[i] = s[i]
  BY <1>1
<1>5. \A i \in 1..Len(t) : (s \o t)[Len(s) + i] = t[i]
  BY <1>1
<1>6. List(s \o t)
  BY <1>2, ListOf
<1> QED BY <1>3, <1>4, <1>5, <1>6

\* The layers a node gets back.
LEMMA Reached ==
    ASSUME NEW g, Len(g.csr) \in Nat, NEW i
    PROVE  LET has == {0} \union {L \in 1..Len(g.csr) : g.csr[L][i] # {}}
           IN  Most(has) \in has /\ \A L \in has : L <= Most(has)
<1> DEFINE has == {0} \union {L \in 1..Len(g.csr) : g.csr[L][i] # {}}
<1> DEFINE n == Len(g.csr)
<1>1. has \in SUBSET Int /\ has # {} /\ \A x \in has : x <= n
  OBVIOUS
<1>0. n \in Int
  OBVIOUS
<1> HIDE DEF has, n
<1>2. Most(has) \in has /\ \A L \in has : L <= Most(has)
  BY <1>0, <1>1, GreatestNumber
<1> QED BY <1>2 DEF has

LEMMA UnpackedLists ==
    ASSUME NEW g, Len(g.csr) \in Nat, Len(g.nodes) \in Nat
    PROVE  /\ List(Unpacked(g)) /\ Len(Unpacked(g)) = Len(g.nodes)
           /\ \A i \in Ordinals(g) : List(Unpacked(g)[i])
<1>1. List(Unpacked(g)) /\ Len(Unpacked(g)) = Len(g.nodes)
  BY DEF Unpacked, Ordinals, List
<1>2. ASSUME NEW i \in Ordinals(g) PROVE List(Unpacked(g)[i])
  <2> DEFINE has == {0} \union {L \in 1..Len(g.csr) : g.csr[L][i] # {}}
  <2>1. Most(has) \in has
    BY Reached
  <2>2. Most(has) \in Nat
    BY <2>1
  <2> DEFINE reached == Most(has)
  <2>3. Unpacked(g)[i] = [L \in 1..reached |-> g.csr[L][i]]
    BY DEF Unpacked
  <2> HIDE DEF reached
  <2>4. reached \in Nat
    BY <2>2 DEF reached
  <2> QED BY <2>3, <2>4 DEF List
<1> QED BY <1>1, <1>2

LEMMA EmptyShaped == Shaped(EmptyGraph)
<1>1. <<>> \in Seq(Node) /\ Len(<<>>) = 0
  OBVIOUS
<1> QED BY <1>1, ConstantsAssumption DEF Shaped, IsGraph, EmptyGraph, List, Ordinals

LEMMA SealShaped ==
    ASSUME NEW g, Shaped(g), NEW d \in BOOLEAN
    PROVE  /\ Shaped(Seal(g, d)) /\ SameNodes(g, Seal(g, d))
           /\ Seal(g, d).undefined = g.undefined
           /\ ~d => Seal(g, d).floats = g.floats
<1> DEFINE layers == Most({Len(g.links[i]) : i \in Ordinals(g)})
<1>1. CASE g.sealed \/ g.nodes = <<>> \/ layers = 0
  <2>1. Seal(g, d) = g
    BY <1>1 DEF Seal
  <2> QED BY <2>1 DEF SameNodes
<1>2. CASE ~(g.sealed \/ g.nodes = <<>> \/ layers = 0)
  <2> DEFINE h == Seal(g, d)
  <2> DEFINE lens == {Len(g.links[i]) : i \in Ordinals(g)}
  <2>1. IsFiniteSet(Ordinals(g)) /\ Ordinals(g) # {} /\ \A i \in Ordinals(g) : Len(g.links[i]) \in Int
    <3>1. Len(g.nodes) \in Nat /\ Len(g.nodes) # 0
      BY <1>2 DEF Shaped
    <3>2. \A i \in Ordinals(g) : Len(g.links[i]) \in Int
      BY <1>2 DEF Shaped, List
    <3>3. IsFiniteSet(1..Len(g.nodes))
      BY <3>1, FS_Interval
    <3>4. 1 \in 1..Len(g.nodes)
      BY <3>1
    <3> QED BY <3>2, <3>3, <3>4 DEF Ordinals
  <2>2. layers \in Nat
    <3> DEFINE f == [i \in Ordinals(g) |-> Len(g.links[i])]
    <3>1. \A i \in Ordinals(g) : f[i] \in Int
      BY <2>1
    <3>2. PICK i \in Ordinals(g) : \A j \in Ordinals(g) : f[j] <= f[i]
      <4> HIDE DEF f
      <4> QED BY <2>1, <3>1, GreatestValue
    <3>3. lens \in SUBSET Int /\ lens # {} /\ \A x \in lens : x <= Len(g.links[i])
      BY <2>1, <3>2
    <3>4. Most(lens) \in lens
      <4> HIDE DEF lens
      <4> QED BY <2>1, <3>3, GreatestNumber
    <3>5. \A x \in lens : x \in Nat
      BY <1>2 DEF Shaped, List
    <3> QED BY <3>4, <3>5
  <2>3. h = [g EXCEPT
               !.csr = [L \in 1..layers |->
                           [i \in Ordinals(g) |-> Neighbours(g, i, L - 1)]],
               !.links = [i \in Ordinals(g) |-> <<>>],
               !.codes = IF g.floats > 0 THEN Len(g.nodes) ELSE @,
               !.floats = IF d THEN 0 ELSE @,
               !.dropped = @ \/ d,
               !.sealed = TRUE]
    BY <1>2 DEF Seal
  <2> HIDE DEF h, layers
  <2>4. /\ IsGraph(h) /\ h.sealed = TRUE /\ SameNodes(g, h) /\ h.undefined = g.undefined
        /\ h.floats = IF d THEN 0 ELSE g.floats
        /\ h.links = [i \in Ordinals(g) |-> <<>>] /\ h.top = g.top
    BY <2>3 DEF Shaped, IsGraph, EmptyGraph, SameNodes
  <2>5. Len(h.csr) \in Nat
    <3>1. h.csr = [L \in 1..layers |-> [i \in Ordinals(g) |-> Neighbours(g, i, L - 1)]]
      BY <2>3 DEF Shaped, IsGraph, EmptyGraph
    <3> QED BY <2>2, <3>1
  <2>6. Len(g.nodes) \in Nat /\ Ordinals(h) = Ordinals(g) /\ h.nodes = g.nodes
    BY <2>4 DEF Shaped, Ordinals, SameNodes
  <2>7. List(h.links) /\ Len(h.links) = Len(h.nodes)
    BY <2>4, <2>6 DEF List, Ordinals
  <2>8. Shaped(h)
    <3>1. h.floats \in Nat
      BY <2>4 DEF Shaped
    <3>2. h.links \in {[i \in Ordinals(h) |-> <<>>], Unpacked(h)}
      BY <2>4, <2>6
    <3> QED BY <2>4, <2>5, <2>7, <3>1, <3>2 DEF Shaped, SameNodes
  <2> QED BY <2>4, <2>8 DEF h
<1> QED BY <1>1, <1>2

LEMMA UnsealShaped ==
    ASSUME NEW g, Shaped(g)
    PROVE  LET h == Unseal(g)
           IN  /\ Shaped(h) /\ SameNodes(g, h) /\ ~h.sealed
               /\ h.undefined = g.undefined /\ h.floats = g.floats
               /\ h.top = g.top /\ h.entry = g.entry
<1> DEFINE h == Unseal(g)
<1>1. CASE ~g.sealed
  BY <1>1 DEF Unseal, SameNodes
<1>2. CASE g.sealed
  <2>1. h = [g EXCEPT !.links = Unpacked(g), !.csr = <<>>, !.sealed = FALSE, !.codes = 0]
    BY <1>2 DEF Unseal
  <2> HIDE DEF h
  <2>2. /\ IsGraph(h) /\ h.sealed = FALSE /\ SameNodes(g, h) /\ h.undefined = g.undefined
        /\ h.floats = g.floats /\ h.links = Unpacked(g) /\ h.csr = <<>>
        /\ h.top = g.top /\ h.entry = g.entry
    BY <2>1 DEF Shaped, IsGraph, EmptyGraph, SameNodes
  <2>3. /\ List(Unpacked(g)) /\ Len(Unpacked(g)) = Len(g.nodes)
        /\ \A i \in Ordinals(g) : List(Unpacked(g)[i])
    BY <1>2, UnpackedLists DEF Shaped
  <2>4. Ordinals(h) = Ordinals(g)
    BY <2>2 DEF Ordinals, SameNodes
  <2>5. Shaped(h)
    BY <2>2, <2>3, <2>4 DEF Shaped, SameNodes
  <2> QED BY <2>2, <2>5 DEF h
<1> QED BY <1>1, <1>2

\* Raising the entry to the highest node of a wave.
LEMMA Raised ==
    ASSUME NEW g, IsGraph(g), g.top \in -1..MaxLevel,
           NEW wave, wave \subseteq Ordinals(g), Len(g.nodes) \in Nat, wave # {},
           \A i \in wave : Len(g.links[i]) \in 1..(MaxLevel + 1)
    PROVE  LET h == Raise(g, wave)
           IN  /\ IsGraph(h) /\ SameNodes(g, h) /\ h.undefined = g.undefined
               /\ h.sealed = g.sealed /\ h.floats = g.floats
               /\ h.links = g.links /\ h.csr = g.csr
               /\ h.top \in -1..MaxLevel /\ h.top >= g.top /\ h.top >= 0
               /\ \/ h.top = g.top /\ h.entry = g.entry
                  \/ h.entry \in wave /\ h.top = Len(g.links[h.entry]) - 1
<1> DEFINE level(i) == Len(g.links[i]) - 1
           levels == {level(i) : i \in wave}
           highest == Most({level(i) : i \in wave})
           first == CHOOSE i \in wave : /\ level(i) = highest
                                        /\ \A j \in wave : level(j) = highest => i <= j
<1>1. Raise(g, wave) = IF highest > g.top THEN [g EXCEPT !.top = highest, !.entry = first] ELSE g
  BY DEF Raise
<1>2. highest \in levels /\ highest \in 0..MaxLevel
  <2>1. \A i \in wave : level(i) \in 0..MaxLevel
    BY ConstantsAssumption
  <2>2. levels \in SUBSET Int /\ levels # {} /\ \A x \in levels : x \in 0..MaxLevel
    BY <2>1
  <2>3. MaxLevel \in Int /\ \A x \in levels : x <= MaxLevel
    BY <2>2, ConstantsAssumption
  <2> HIDE DEF levels
  <2>4. Most(levels) \in levels
    BY <2>2, <2>3, GreatestNumber
  <2>5. highest = Most(levels)
    BY DEF levels
  <2> QED BY <2>2, <2>4, <2>5
<1>3. first \in wave /\ level(first) = highest
  <2> DEFINE F == {i \in wave : level(i) = highest}
  <2>1. F # {} /\ F \in SUBSET Nat
    <3>1. PICK i \in wave : level(i) = highest
      BY <1>2
    <3>2. \A j \in wave : j \in Nat
      BY DEF Ordinals
    <3> QED BY <3>1, <3>2
  <2>2. PICK i \in F : \A j \in F : i <= j
    <3> HIDE DEF F
    <3> QED BY <2>1, LeastNumber
  <2>3. i \in wave /\ level(i) = highest /\ \A j \in wave : level(j) = highest => i <= j
    BY <2>2
  <2> HIDE DEF highest, level
  <2> QED BY <2>3
<1> HIDE DEF highest, first
<1>4. CASE highest > g.top
  <2>1. Raise(g, wave) = [g EXCEPT !.top = highest, !.entry = first]
    BY <1>1, <1>4
  <2> DEFINE h == Raise(g, wave)
  <2> HIDE DEF h
  <2>2. /\ IsGraph(h) /\ SameNodes(g, h) /\ h.undefined = g.undefined
        /\ h.sealed = g.sealed /\ h.floats = g.floats
        /\ h.links = g.links /\ h.csr = g.csr
        /\ h.top = highest /\ h.entry = first
    BY <2>1 DEF IsGraph, EmptyGraph, SameNodes, h
  <2> QED BY <1>2, <1>3, <1>4, <2>2 DEF h
<1>5. CASE ~(highest > g.top)
  <2>1. Raise(g, wave) = g
    BY <1>1, <1>5
  <2> QED BY <1>2, <1>5, <2>1 DEF SameNodes
<1> QED BY <1>4, <1>5

LEMMA UndefinedShaped ==
    ASSUME NEW g, Shaped(g)
    PROVE  LET h == Undefined(g)
           IN  /\ Shaped(h) /\ SameNodes(g, h) /\ h.undefined = TRUE
               /\ h.sealed = g.sealed /\ h.floats = g.floats /\ h.links = g.links
               /\ h.csr = g.csr /\ h.top = g.top /\ h.entry = g.entry
<1> DEFINE h == Undefined(g)
<1>1. h = [g EXCEPT !.undefined = TRUE]
  BY DEF Undefined
<1> HIDE DEF h
<1>2. /\ IsGraph(h) /\ SameNodes(g, h) /\ h.undefined = TRUE
      /\ h.sealed = g.sealed /\ h.floats = g.floats /\ h.links = g.links
      /\ h.csr = g.csr /\ h.top = g.top /\ h.entry = g.entry
  BY <1>1 DEF Shaped, SameNodes, IsGraph, EmptyGraph
<1>3. Ordinals(h) = Ordinals(g) /\ Unpacked(h) = Unpacked(g)
  BY <1>2 DEF Ordinals, Unpacked, SameNodes
<1>4. Shaped(h)
  BY <1>2, <1>3 DEF Shaped, SameNodes
<1> QED BY <1>2, <1>4 DEF h

\* Linking a wave leaves the nodes and the number of their layers.
LEMMA LinkShaped ==
    ASSUME NEW g, Shaped(g), ~g.sealed,
           NEW wave, wave \subseteq Ordinals(g), wave # {},
           \A i \in wave : Len(g.links[i]) \in 1..(MaxLevel + 1)
    PROVE  LET h == LinkWave(g, wave)
           IN  /\ Shaped(h) /\ SameNodes(g, h) /\ ~h.sealed
               /\ h.floats = g.floats
               /\ \A i \in Ordinals(g) : Len(h.links[i]) = Len(g.links[i])
<1> DEFINE picks == [i \in wave |-> Picks(g, i, Len(g.links[i]) - 1)]
           h == LinkWave(g, wave)
           own(i, L) == IF L \in DOMAIN picks[i] THEN picks[i][L] ELSE {}
           back(nb, L) == {i \in wave : nb \in own(i, L)}
           take(nb, L, new) == IF new = {} THEN g.links[nb][L + 1] ELSE TakeLinks(g, nb, L, new)
           entry(i, L) == IF i \in wave THEN own(i, L - 1) ELSE take(i, L - 1, back(i, L - 1))
           links == [i \in Ordinals(g) |-> [L \in 1..Len(g.links[i]) |-> entry(i, L)]]
           missing == \E i \in wave : \E L \in DOMAIN picks[i] :
                           \E nb \in picks[i][L] : L >= Len(g.links[nb])
<1>1. h = IF missing THEN Undefined(g) ELSE [Raise(g, wave) EXCEPT !.links = links]
  BY DEF LinkWave, ApplyLinks
<1> HIDE DEF missing
<1>2. CASE missing
  <2>1. h = Undefined(g)
    BY <1>1, <1>2
  <2> QED BY <2>1, UndefinedShaped
<1>3. CASE ~missing
  <2> DEFINE r == Raise(g, wave)
  <2>0. IsGraph(g) /\ g.top \in -1..MaxLevel /\ Len(g.nodes) \in Nat
    BY DEF Shaped
  <2>1. /\ IsGraph(r) /\ SameNodes(g, r) /\ r.undefined = g.undefined
        /\ r.sealed = g.sealed /\ r.floats = g.floats
        /\ r.links = g.links /\ r.csr = g.csr /\ r.top \in -1..MaxLevel
    BY <2>0, Raised
  <2>2. h = [r EXCEPT !.links = links]
    BY <1>1, <1>3
  <2>3. /\ IsGraph(h) /\ SameNodes(g, h) /\ h.undefined = g.undefined
        /\ h.sealed = g.sealed /\ h.floats = g.floats /\ h.links = links
        /\ h.csr = g.csr /\ h.top = r.top
    <3> HIDE DEF h, r, links
    <3> QED BY <2>1, <2>2 DEF Shaped, SameNodes, IsGraph, EmptyGraph
  <2>4. Ordinals(h) = Ordinals(g) /\ Len(g.nodes) \in Nat
    BY <2>3 DEF Ordinals, SameNodes, Shaped
  <2>5. List(links) /\ Len(links) = Len(g.nodes)
    BY <2>4 DEF List, Ordinals
  <2>6. ASSUME NEW i \in Ordinals(g) PROVE List(links[i]) /\ Len(links[i]) = Len(g.links[i])
    <3>1. Len(g.links[i]) \in Nat
      BY DEF Shaped, List
    <3>2. links[i] = [L \in 1..Len(g.links[i]) |-> entry(i, L)]
      OBVIOUS
    <3> HIDE DEF links, entry
    <3> QED BY <3>1, <3>2 DEF List
  <2> HIDE DEF links, h, r
  <2>7. Shaped(h)
    BY <2>1, <2>3, <2>4, <2>5, <2>6 DEF Shaped, SameNodes
  <2> QED BY <2>3, <2>6, <2>7 DEF h
<1> QED BY <1>2, <1>3

-----------------------------------------------------------------------------
(* Batches.                                                                *)

\* Ids and vectors, and levels for their nodes.
Batch(items, levels) ==
    /\ List(items)
    /\ \A k \in 1..Len(items) :
           items[k].id \in Id /\ items[k].vec \in Vector /\ levels[k] \in 0..MaxLevel

LEMMA Staged ==
    ASSUME NEW g, Shaped(g), ~g.sealed, NEW items, NEW levels, Batch(items, levels)
    PROVE  LET h == Stage(g, items, levels)
           IN  /\ Shaped(h) /\ ~h.sealed /\ h.undefined = g.undefined
               /\ h.indexed = g.indexed /\ h.ords = g.ords
               /\ h.top = g.top /\ h.entry = g.entry
               /\ h.floats = g.floats + Len(items)
               /\ h.deleted = g.deleted \ {items[k].id : k \in 1..Len(items)}
               /\ Len(items) \in Nat /\ Len(h.nodes) = Len(g.nodes) + Len(items)
               /\ \A i \in Ordinals(g) : h.nodes[i] = g.nodes[i] /\ h.links[i] = g.links[i]
               /\ \A k \in 1..Len(items) :
                      /\ h.nodes[Len(g.nodes) + k] = NewNode(items[k].id, items[k].vec, levels[k])
                      /\ h.links[Len(g.nodes) + k] = NoLinks(levels[k])
                      /\ Len(h.links[Len(g.nodes) + k]) = levels[k] + 1
<1> DEFINE h == Stage(g, items, levels)
           n == Len(items)
           nodes == [k \in 1..n |-> NewNode(items[k].id, items[k].vec, levels[k])]
           links == [k \in 1..n |-> NoLinks(levels[k])]
<1>0. n \in Nat /\ Len(g.nodes) \in Nat
  BY DEF Batch, List, Shaped
<1>1. /\ IsGraph(h) /\ h.nodes = g.nodes \o nodes /\ h.links = g.links \o links
      /\ h.floats = g.floats + n
      /\ h.deleted = g.deleted \ {items[k].id : k \in 1..n}
      /\ h.undefined = g.undefined /\ h.sealed = g.sealed
      /\ h.indexed = g.indexed /\ h.ords = g.ords
      /\ h.top = g.top /\ h.entry = g.entry /\ h.csr = g.csr
  BY DEF Stage, Shaped, IsGraph, EmptyGraph
<1>2. nodes \in Seq(Node) /\ Len(nodes) = n
  <2>1. ASSUME NEW k \in 1..n PROVE NewNode(items[k].id, items[k].vec, levels[k]) \in Node
    BY DEF Batch, NewNode, Node
  <2> QED BY <1>0, <2>1
<1>3. List(links) /\ Len(links) = n
  BY <1>0 DEF List
<1>4. /\ h.nodes \in Seq(Node) /\ Len(h.nodes) = Len(g.nodes) + n
      /\ \A i \in Ordinals(g) : h.nodes[i] = g.nodes[i]
      /\ \A k \in 1..n : h.nodes[Len(g.nodes) + k] = nodes[k]
  <2>1. g.nodes \in Seq(Node) /\ List(g.nodes) /\ List(nodes)
    BY <1>2, ListOf DEF Shaped
  <2> DEFINE a == g.nodes
  <2> HIDE DEF nodes, n, h, a
  <2>2. a \o nodes \in Seq(Node)
    BY <1>2, <2>1 DEF a
  <2>3. /\ Len(a \o nodes) = Len(a) + n
        /\ \A i \in 1..Len(a) : (a \o nodes)[i] = a[i]
        /\ \A k \in 1..n : (a \o nodes)[Len(a) + k] = nodes[k]
    BY <1>2, <2>1, Joined DEF a
  <2> QED BY <1>1, <2>2, <2>3 DEF Ordinals, a
<1>5. /\ List(h.links) /\ Len(h.links) = Len(g.nodes) + n
      /\ \A i \in Ordinals(g) : h.links[i] = g.links[i]
      /\ \A k \in 1..n : h.links[Len(g.nodes) + k] = links[k]
  <2>1. List(g.links) /\ Len(g.links) = Len(g.nodes)
    BY DEF Shaped
  <2> DEFINE a == g.links
  <2> HIDE DEF links, n, h, a
  <2>2. /\ List(a \o links) /\ Len(a \o links) = Len(a) + n
        /\ \A i \in 1..Len(a) : (a \o links)[i] = a[i]
        /\ \A k \in 1..n : (a \o links)[Len(a) + k] = links[k]
    <3>1. List(a) /\ List(links)
      BY <1>3, <2>1 DEF a
    <3>2. Len(links) = n
      BY <1>3
    <3> QED BY <3>1, <3>2, Joined
  <2>3. h.links = a \o links
    BY <1>1 DEF a
  <2> QED BY <2>1, <2>2, <2>3 DEF Ordinals, a
<1>6. ASSUME NEW k \in 1..n
      PROVE  /\ nodes[k] = NewNode(items[k].id, items[k].vec, levels[k])
             /\ links[k] = NoLinks(levels[k])
             /\ List(links[k]) /\ Len(links[k]) = levels[k] + 1
  <2>1. levels[k] \in Nat
    BY DEF Batch
  <2> QED BY <2>1 DEF NoLinks, List
<1>7. ASSUME NEW i \in Ordinals(h) PROVE List(h.links[i])
  <2>1. CASE i \in Ordinals(g)
    BY <1>5, <2>1 DEF Shaped
  <2>2. CASE i \notin Ordinals(g)
    <3> HIDE DEF h, links, n
    <3>0. i \in 1..(Len(g.nodes) + n) /\ i \notin 1..Len(g.nodes)
      BY <1>4, <2>2 DEF Ordinals
    <3>1. i - Len(g.nodes) \in 1..n /\ i = Len(g.nodes) + (i - Len(g.nodes))
      <4> DEFINE a == Len(g.nodes)
      <4>1. a \in Nat /\ n \in Nat /\ i \in 1..(a + n) /\ i \notin 1..a
        BY <1>0, <3>0 DEF n
      <4> HIDE DEF a
      <4>2. i - a \in 1..n /\ i = a + (i - a)
        BY <4>1
      <4> QED BY <4>2 DEF a
    <3> QED BY <1>5, <1>6, <3>1
  <2> QED BY <2>1, <2>2
<1>8. h.floats \in Nat /\ h.deleted \subseteq Id
  BY <1>0, <1>1 DEF Shaped
<1>9. Shaped(h)
  <2> HIDE DEF h, n, nodes, links
  <2> QED BY <1>1, <1>4, <1>5, <1>7, <1>8 DEF Shaped
<1> HIDE DEF h, nodes, links
<1> QED BY <1>0, <1>1, <1>4, <1>5, <1>6, <1>9 DEF h

\* One wave of a build, and the waves one after the other.
WaveStep(s, total) ==
    LET size == WaveSize(s.linked, total)
    IN  IF size = 0 \/ s.graph.undefined THEN s
        ELSE [graph  |-> LinkWave(s.graph, (s.linked + 1)..(s.linked + size)),
              linked |-> s.linked + size]

WaveStates(start, total, n) ==
    CHOOSE w : w = [k \in 0..n |-> IF k = 0 THEN start ELSE WaveStep(w[k - 1], total)]

LEMMA WavesGo ==
    ASSUME NEW start, NEW total, NEW n \in Nat
    PROVE  LET w == WaveStates(start, total, n)
           IN  w[0] = start /\ \A k \in 1..n : w[k] = WaveStep(w[k - 1], total)
<1> DEFINE Goes(m, w) == w = [k \in 0..m |-> IF k = 0 THEN start ELSE WaveStep(w[k - 1], total)]
           N == {m \in Nat : \E w : Goes(m, w)}
<1>1. 0 \in N
  <2> DEFINE w == [k \in 0..0 |-> start]
  <2>1. Goes(0, w)
    OBVIOUS
  <2> QED BY <2>1
<1>2. ASSUME NEW m \in Nat, m \in N PROVE m + 1 \in N
  <2>1. PICK w : Goes(m, w)
    BY <1>2
  <2> DEFINE v == [k \in 0..(m + 1) |-> IF k = m + 1 THEN WaveStep(w[m], total) ELSE w[k]]
  <2>2. ASSUME NEW k \in 0..(m + 1)
        PROVE  v[k] = IF k = 0 THEN start ELSE WaveStep(v[k - 1], total)
    <3>1. CASE k = m + 1
      <4>1. v[k] = WaveStep(w[m], total) /\ v[k - 1] = w[m] /\ k # 0
        BY <3>1
      <4> HIDE DEF v
      <4> QED BY <4>1
    <3>2. CASE k = 0
      BY <2>1, <3>2
    <3>3. CASE k # m + 1 /\ k # 0
      <4>1. k \in 0..m /\ k - 1 \in 0..m /\ k - 1 # m + 1
        BY <3>3
      <4>2. v[k] = w[k] /\ v[k - 1] = w[k - 1]
        BY <3>3, <4>1
      <4>3. w[k] = WaveStep(w[k - 1], total)
        BY <2>1, <3>3, <4>1
      <4> HIDE DEF v
      <4> QED BY <3>3, <4>2, <4>3
    <3> QED BY <3>1, <3>2, <3>3
  <2>3. Goes(m + 1, v)
    <3>1. v = [k \in 0..(m + 1) |-> v[k]]
      OBVIOUS
    <3> HIDE DEF v
    <3> QED BY <2>2, <3>1, Zenon
  <2> HIDE DEF Goes, v
  <2> QED BY <2>3
<1>3. n \in N
  <2> HIDE DEF N
  <2> QED BY <1>1, <1>2, Induction
<1>4. Goes(n, WaveStates(start, total, n))
  <2>1. \E w : Goes(n, w)
    BY <1>3
  <2> QED BY <2>1, Zenon DEF WaveStates
<1> DEFINE w == WaveStates(start, total, n)
<1> HIDE DEF w
<1>5. Goes(n, w)
  BY <1>4 DEF w
<1>6. w[0] = start
  BY <1>5
<1>7. ASSUME NEW k \in 1..n PROVE w[k] = WaveStep(w[k - 1], total)
  BY <1>5
<1> QED BY <1>6, <1>7 DEF w

LEMMA BuildIs ==
    ASSUME NEW g, NEW items, NEW levels, NEW d, items # <<>>
    PROVE  LET start == BatchStart(g, items, levels)
           IN  BuildBatch(g, items, levels, d)
                 = Seal(WaveStates(start, Len(start.graph.nodes), Len(items))[Len(items)].graph, d)
BY DEF BuildBatch, WaveStates, WaveStep

\* A state between two waves of a build from nothing.
Growing(s, items, levels) ==
    LET g == s.graph
    IN  /\ Shaped(g) /\ ~g.sealed /\ g.deleted = {} /\ ~g.indexed /\ g.ords = <<>>
        /\ g.floats = Len(items) /\ Len(g.nodes) = Len(items)
        /\ \A k \in 1..Len(items) :
               /\ g.nodes[k] = NewNode(items[k].id, items[k].vec, levels[k])
               /\ Len(g.links[k]) = levels[k] + 1
        /\ s.linked \in 1..Len(items)

LEMMA WaveFits ==
    ASSUME NEW linked \in Nat, NEW total \in Nat, linked <= total
    PROVE  WaveSize(linked, total) \in Nat /\ linked + WaveSize(linked, total) <= total
<1>1. linked \div WaveDivisor \in Int
  BY BeamAssumption
<1> QED BY <1>1 DEF WaveSize

LEMMA BuildStarts ==
    ASSUME NEW items, NEW levels, Batch(items, levels), items # <<>>
    PROVE  LET start == BatchStart(EmptyGraph, items, levels)
           IN  /\ Growing(start, items, levels) /\ ~start.graph.undefined
               /\ start.linked = 1 /\ start.graph.entry = 1
               /\ start.graph.top = levels[1]
               /\ \A k \in 1..Len(items) : start.graph.links[k] = NoLinks(levels[k])
<1> DEFINE h == Stage(EmptyGraph, items, levels)
           g == [h EXCEPT !.indexed = FALSE, !.ords = <<>>, !.codes = 0 + Len(items)]
           e == [g EXCEPT !.top = levels[1], !.entry = 0 + 1]
           n == Len(items)
<1>1. Unseal(EmptyGraph) = EmptyGraph /\ Len(EmptyGraph.nodes) = 0 /\ Ordinals(EmptyGraph) = {}
  BY DEF Unseal, EmptyGraph, Ordinals
<1>2. /\ Shaped(h) /\ ~h.sealed /\ ~h.undefined /\ h.top = -1
      /\ h.floats = n /\ h.deleted = {} /\ n \in Nat /\ Len(h.nodes) = n
      /\ \A k \in 1..n :
             /\ h.nodes[k] = NewNode(items[k].id, items[k].vec, levels[k])
             /\ h.links[k] = NoLinks(levels[k])
             /\ Len(h.links[k]) = levels[k] + 1
  <2>1. Shaped(EmptyGraph) /\ ~EmptyGraph.sealed
    BY EmptyShaped DEF EmptyGraph
  <2>2. /\ Shaped(h) /\ ~h.sealed /\ h.undefined = EmptyGraph.undefined /\ h.top = EmptyGraph.top
        /\ h.floats = EmptyGraph.floats + n
        /\ h.deleted = EmptyGraph.deleted \ {items[k].id : k \in 1..n}
        /\ n \in Nat /\ Len(h.nodes) = Len(EmptyGraph.nodes) + n
        /\ \A k \in 1..n :
             /\ h.nodes[Len(EmptyGraph.nodes) + k] = NewNode(items[k].id, items[k].vec, levels[k])
             /\ h.links[Len(EmptyGraph.nodes) + k] = NoLinks(levels[k])
             /\ Len(h.links[Len(EmptyGraph.nodes) + k]) = levels[k] + 1
    BY <2>1, Staged
  <2>3. /\ EmptyGraph.undefined = FALSE /\ EmptyGraph.top = -1
        /\ EmptyGraph.floats = 0 /\ EmptyGraph.deleted = {}
    BY DEF EmptyGraph
  <2>4. \A k \in 1..n : Len(EmptyGraph.nodes) + k = k
    BY <1>1
  <2> HIDE DEF h, n
  <2> QED BY <1>1, <2>2, <2>3, <2>4
<1>3. n # 0 /\ levels[1] \in 0..MaxLevel
  <2>1. n # 0
    BY <1>2 DEF Batch, List
  <2> QED BY <1>2, <2>1 DEF Batch
<1>4. BatchStart(EmptyGraph, items, levels) = [graph |-> e, linked |-> 0 + 1]
  <2>1. g.top = -1
    BY <1>2 DEF Shaped, IsGraph, EmptyGraph
  <2> HIDE DEF h
  <2> QED BY <1>1, <2>1 DEF BatchStart, h
<1>5. /\ IsGraph(e) /\ e.nodes = h.nodes /\ e.links = h.links /\ e.sealed = h.sealed
      /\ e.deleted = h.deleted /\ e.indexed = FALSE /\ e.ords = <<>> /\ e.csr = h.csr
      /\ e.undefined = h.undefined /\ e.floats = h.floats
      /\ e.top = levels[1] /\ e.entry = 0 + 1
  <2> HIDE DEF h
  <2> QED BY <1>2 DEF Shaped, IsGraph, EmptyGraph
<1> HIDE DEF e, h
<1>6. Shaped(e)
  <2>1. e.top \in -1..MaxLevel
    BY <1>3, <1>5, ConstantsAssumption
  <2>2. Shaped(h) /\ ~h.sealed
    BY <1>2
  <2> QED BY <1>5, <2>1, <2>2 DEF Shaped, Ordinals
<1>7. 0 + 1 = 1 /\ 1 \in 1..n
  BY <1>2, <1>3
<1> HIDE DEF n
<1>8. Growing([graph |-> e, linked |-> 0 + 1], items, levels)
  BY <1>2, <1>5, <1>6, <1>7 DEF Growing, n
<1> QED BY <1>2, <1>4, <1>5, <1>7, <1>8 DEF n

LEMMA WaveGrows ==
    ASSUME NEW items, NEW levels, Batch(items, levels), NEW s, Growing(s, items, levels)
    PROVE  Growing(WaveStep(s, Len(items)), items, levels)
<1> DEFINE g == s.graph
           n == Len(items)
           size == WaveSize(s.linked, n)
           wave == (s.linked + 1)..(s.linked + size)
           h == LinkWave(g, wave)
           t == [graph |-> h, linked |-> s.linked + size]
<1>0. n \in Nat /\ s.linked \in 1..n
  BY DEF Batch, List, Growing
<1>1. size \in Nat /\ s.linked + size <= n
  <2> DEFINE k == s.linked
  <2>1. k \in Nat /\ k <= n
    BY <1>0
  <2> HIDE DEF k, n
  <2>2. WaveSize(k, n) \in Nat /\ k + WaveSize(k, n) <= n
    BY <1>0, <2>1, WaveFits
  <2> QED BY <2>2 DEF k, n
<1>2. CASE size = 0 \/ g.undefined
  BY <1>2 DEF WaveStep
<1>3. CASE ~(size = 0 \/ g.undefined)
  <2>1. WaveStep(s, n) = t
    BY <1>3 DEF WaveStep
  <2>2. wave \subseteq Ordinals(g) /\ wave \subseteq 1..n /\ wave # {}
    <3>1. s.linked + 1 \in wave
      BY <1>0, <1>1, <1>3
    <3>2. Ordinals(g) = 1..n
      BY DEF Growing, Ordinals
    <3>3. wave \subseteq 1..n
      BY <1>0, <1>1
    <3> QED BY <3>1, <3>2, <3>3
  <2>3. \A i \in wave : Len(g.links[i]) \in 1..(MaxLevel + 1)
    <3>1. \A i \in 1..n : levels[i] \in 0..MaxLevel /\ Len(g.links[i]) = levels[i] + 1
      BY DEF Growing, Batch
    <3>2. \A i \in 1..n : Len(g.links[i]) \in 1..(MaxLevel + 1)
      BY <3>1, ConstantsAssumption
    <3> QED BY <2>2, <3>2
  <2>4. Shaped(g) /\ ~g.sealed
    BY DEF Growing
  <2> HIDE DEF wave, h, size, t
  <2>5. /\ Shaped(h) /\ SameNodes(g, h) /\ ~h.sealed /\ h.floats = g.floats
        /\ \A i \in Ordinals(g) : Len(h.links[i]) = Len(g.links[i])
    BY <2>2, <2>3, <2>4, LinkShaped DEF h
  <2>6. t.graph = h /\ t.linked = s.linked + size /\ t.linked \in 1..n
    BY <1>0, <1>1 DEF t
  <2> HIDE DEF n
  <2>7. Growing(t, items, levels)
    BY <2>5, <2>6 DEF Growing, SameNodes, Ordinals, n
  <2> QED BY <2>1, <2>7 DEF n
<1> QED BY <1>2, <1>3

LEMMA BuildGrows ==
    ASSUME NEW items, NEW levels, Batch(items, levels), items # <<>>
    PROVE  LET start == BatchStart(EmptyGraph, items, levels)
               w == WaveStates(start, Len(start.graph.nodes), Len(items))
           IN  \A k \in 0..Len(items) : Growing(w[k], items, levels)
<1> DEFINE start == BatchStart(EmptyGraph, items, levels)
           n == Len(items)
           w == WaveStates(start, Len(start.graph.nodes), n)
           K == {k \in Nat : k <= n => Growing(w[k], items, levels)}
<1>1. Growing(start, items, levels) /\ n \in Nat
  BY BuildStarts DEF Batch, List
<1>2. Len(start.graph.nodes) = n
  BY <1>1 DEF Growing
<1>3. w[0] = start /\ \A k \in 1..n : w[k] = WaveStep(w[k - 1], n)
  <2> HIDE DEF start, n
  <2> QED BY <1>1, <1>2, WavesGo
<1> HIDE DEF w, start
<1>4. 0 \in K
  BY <1>1, <1>3
<1>5. ASSUME NEW k \in Nat, k \in K PROVE k + 1 \in K
  <2> SUFFICES ASSUME k + 1 <= n PROVE Growing(w[k + 1], items, levels)
    OBVIOUS
  <2>1. k + 1 \in 1..n /\ (k + 1) - 1 = k /\ k <= n
    BY <1>1
  <2>2. w[k + 1] = WaveStep(w[k], n)
    BY <1>3, <2>1
  <2>3. Growing(w[k], items, levels)
    BY <1>5, <2>1
  <2> QED BY <2>2, <2>3, WaveGrows
<1>6. Nat \subseteq K
  <2> HIDE DEF K
  <2> QED BY <1>4, <1>5, Induction
<1> QED BY <1>1, <1>6 DEF w, start

\* What is built from nothing has the items as its nodes.
LEMMA BuiltShaped ==
    ASSUME NEW items, NEW levels, Batch(items, levels), NEW d \in BOOLEAN
    PROVE  LET h == BuildBatch(EmptyGraph, items, levels, d)
           IN  /\ Shaped(h) /\ h.deleted = {} /\ ~h.indexed /\ h.ords = <<>>
               /\ Len(h.nodes) = Len(items) /\ Len(items) \in Nat
               /\ ~d => h.floats = Len(items)
               /\ \A k \in 1..Len(items) :
                      h.nodes[k] = NewNode(items[k].id, items[k].vec, levels[k])
<1> DEFINE h == BuildBatch(EmptyGraph, items, levels, d)
<1>0. Len(items) \in Nat
  BY DEF Batch, List
<1>1. CASE items = <<>>
  <2>1. h = EmptyGraph /\ Len(items) = 0
    BY <1>1 DEF BuildBatch, Unseal, EmptyGraph
  <2> QED BY <1>0, <2>1, EmptyShaped DEF EmptyGraph
<1>2. CASE items # <<>>
  <2> DEFINE start == BatchStart(EmptyGraph, items, levels)
             w == WaveStates(start, Len(start.graph.nodes), Len(items))
             g == w[Len(items)].graph
  <2>1. h = Seal(g, d)
    BY <1>2, BuildIs
  <2>2. Growing(w[Len(items)], items, levels)
    <3>1. Len(items) \in 0..Len(items)
      BY <1>0
    <3> QED BY <1>2, <3>1, BuildGrows
  <2> HIDE DEF g, w, h
  <2>3. /\ Shaped(g) /\ g.deleted = {} /\ ~g.indexed /\ g.ords = <<>>
        /\ g.floats = Len(items) /\ Len(g.nodes) = Len(items)
        /\ \A k \in 1..Len(items) :
               g.nodes[k] = NewNode(items[k].id, items[k].vec, levels[k])
    BY <2>2 DEF Growing, g
  <2>4. /\ Shaped(h) /\ SameNodes(g, h) /\ ~d => h.floats = g.floats
    BY <2>1, <2>3, SealShaped
  <2> QED BY <1>0, <2>3, <2>4, SealShaped, <2>1 DEF SameNodes, h
<1> QED BY <1>1, <1>2

-----------------------------------------------------------------------------
(* One more vector.                                                        *)

\* Of the nodes of an id all but the last are superseded.
NodesOnce(g) ==
    \A i, j \in Ordinals(g) : i < j /\ g.nodes[i].id = g.nodes[j].id => g.nodes[i].superseded

\* The index of the ids, when there is one, has the last node of every id.
IndexRight(g) ==
    /\ ~g.indexed => g.ords = <<>>
    /\ g.indexed =>
         /\ DOMAIN g.ords = {g.nodes[i].id : i \in Ordinals(g)}
         /\ \A id \in DOMAIN g.ords : g.ords[id] \in Ordinals(g) /\ g.nodes[g.ords[id]].id = id
         /\ \A i \in Ordinals(g) : i <= g.ords[g.nodes[i].id]

LEMMA IndexEnsured ==
    ASSUME NEW g, Shaped(g), IndexRight(g)
    PROVE  LET h == EnsureIdIndex(g)
           IN  /\ Shaped(h) /\ IndexRight(h) /\ h.indexed
               /\ h.nodes = g.nodes /\ h.deleted = g.deleted /\ h.sealed = g.sealed
               /\ h.links = g.links /\ h.csr = g.csr /\ h.undefined = g.undefined
               /\ h.floats = g.floats /\ h.top = g.top /\ h.entry = g.entry
<1> DEFINE ids == {g.nodes[i].id : i \in Ordinals(g)}
           of(id) == {i \in Ordinals(g) : g.nodes[i].id = id}
           last(id) == Most({i \in Ordinals(g) : g.nodes[i].id = id})
           h == EnsureIdIndex(g)
<1>1. CASE g.indexed
  <2>1. h = g
    BY <1>1 DEF EnsureIdIndex
  <2> QED BY <1>1, <2>1
<1>2. CASE ~g.indexed
  <2>1. h = [g EXCEPT !.indexed = TRUE, !.ords = [id \in ids |-> last(id)]]
    BY <1>2 DEF EnsureIdIndex
  <2>2. ASSUME NEW id \in ids PROVE last(id) \in of(id) /\ \A i \in of(id) : i <= last(id)
    <3> DEFINE S == of(id)
               n == Len(g.nodes)
    <3>1. S # {}
      OBVIOUS
    <3>2. S \in SUBSET Int /\ n \in Int /\ \A i \in S : i <= n
      <4>1. n \in Nat /\ S \subseteq 1..n
        BY DEF Ordinals, Shaped
      <4> HIDE DEF S, n
      <4> QED BY <4>1
    <3> HIDE DEF S, n
    <3>3. Most(S) \in S /\ \A y \in S : y <= Most(S)
      BY <3>1, <3>2, GreatestNumber
    <3> QED BY <3>3 DEF S
  <2> HIDE DEF h, last, ids
  <2>3. /\ IsGraph(h) /\ h.indexed = TRUE /\ h.ords = [id \in ids |-> last(id)]
        /\ h.nodes = g.nodes /\ h.deleted = g.deleted /\ h.sealed = g.sealed
        /\ h.links = g.links /\ h.csr = g.csr /\ h.undefined = g.undefined
        /\ h.floats = g.floats /\ h.top = g.top /\ h.entry = g.entry
    BY <2>1 DEF Shaped, IsGraph, EmptyGraph
  <2>4. Ordinals(h) = Ordinals(g) /\ Unpacked(h) = Unpacked(g)
    BY <2>3 DEF Ordinals, Unpacked
  <2>5. Shaped(h)
    BY <2>3, <2>4 DEF Shaped
  <2>6. DOMAIN h.ords = {h.nodes[i].id : i \in Ordinals(h)}
    BY <2>3, <2>4 DEF ids
  <2>7. \A id \in DOMAIN h.ords : h.ords[id] \in Ordinals(h) /\ h.nodes[h.ords[id]].id = id
    BY <2>2, <2>3, <2>4
  <2>8. ASSUME NEW i \in Ordinals(h) PROVE i <= h.ords[h.nodes[i].id]
    <3>1. g.nodes[i].id \in ids /\ i \in of(g.nodes[i].id)
      BY <2>4 DEF ids
    <3>2. i <= last(g.nodes[i].id)
      BY <2>2, <3>1
    <3>3. h.ords[g.nodes[i].id] = last(g.nodes[i].id)
      BY <2>3, <3>1
    <3> QED BY <2>3, <3>2, <3>3
  <2>9. IndexRight(h)
    BY <2>3, <2>6, <2>7, <2>8 DEF IndexRight
  <2> QED BY <2>3, <2>5, <2>9 DEF h
<1> QED BY <1>1, <1>2 DEF Shaped

\* The nodes of the id are marked, and the index gets the new one.
Marked(g, id) ==
    LET old == IF id \in DOMAIN g.ords THEN {g.ords[id]} ELSE {}
    IN  [g EXCEPT
           !.nodes = [i \in Ordinals(g) |-> [g.nodes[i] EXCEPT !.superseded = @ \/ i \in old]],
           !.ords = [x \in DOMAIN @ \union {id} |-> IF x = id THEN Len(g.nodes) + 1 ELSE @[x]]]

LEMMA MarkedRight ==
    ASSUME NEW g, Shaped(g), ~g.sealed, IndexRight(g), g.indexed, NodesOnce(g), NEW id \in Id
    PROVE  LET h == Marked(g, id)
           IN  /\ Shaped(h) /\ h.indexed /\ Len(h.nodes) = Len(g.nodes)
               /\ DOMAIN h.ords = DOMAIN g.ords \union {id}
               /\ h.ords[id] = Len(g.nodes) + 1
               /\ \A x \in DOMAIN g.ords \ {id} : h.ords[x] = g.ords[x]
               /\ h.deleted = g.deleted /\ ~h.sealed /\ h.links = g.links /\ h.csr = g.csr
               /\ h.undefined = g.undefined /\ h.floats = g.floats
               /\ h.top = g.top /\ h.entry = g.entry
               /\ \A i \in Ordinals(g) :
                     /\ h.nodes[i].id = g.nodes[i].id /\ h.nodes[i].vec = g.nodes[i].vec
                     /\ h.nodes[i].level = g.nodes[i].level
                     /\ g.nodes[i].superseded => h.nodes[i].superseded
                     /\ g.nodes[i].id = id => h.nodes[i].superseded
                     /\ g.nodes[i].id # id => h.nodes[i] = g.nodes[i]
<1> DEFINE old == IF id \in DOMAIN g.ords THEN {g.ords[id]} ELSE {}
           n == Len(g.nodes)
           h == Marked(g, id)
           nodes == [i \in Ordinals(g) |-> [g.nodes[i] EXCEPT !.superseded = @ \/ i \in old]]
           ords == [x \in DOMAIN g.ords \union {id} |-> IF x = id THEN n + 1 ELSE g.ords[x]]
<1>1. h = [g EXCEPT !.nodes = nodes, !.ords = ords]
  BY DEF Marked, Shaped, IsGraph, EmptyGraph
<1>2. n \in Nat /\ \A i \in Ordinals(g) : g.nodes[i] \in Node
  BY DEF Shaped, Ordinals
<1>3. ASSUME NEW i \in Ordinals(g)
      PROVE  /\ nodes[i] \in Node
             /\ nodes[i].id = g.nodes[i].id /\ nodes[i].vec = g.nodes[i].vec
             /\ nodes[i].level = g.nodes[i].level
             /\ nodes[i].superseded = (g.nodes[i].superseded \/ i \in old)
             /\ i \notin old => nodes[i] = g.nodes[i]
  <2>1. nodes[i] = [g.nodes[i] EXCEPT !.superseded = @ \/ i \in old]
    OBVIOUS
  <2>2. g.nodes[i] \in Node
    BY <1>2
  <2> HIDE DEF nodes, old
  <2>3. /\ nodes[i].id = g.nodes[i].id /\ nodes[i].vec = g.nodes[i].vec
        /\ nodes[i].level = g.nodes[i].level
        /\ nodes[i].superseded = (g.nodes[i].superseded \/ i \in old)
    BY <2>1, <2>2 DEF Node
  <2>4. g.nodes[i].superseded \in BOOLEAN /\ nodes[i].superseded \in BOOLEAN
    BY <2>1, <2>2 DEF Node
  <2>5. nodes[i] \in Node
    BY <2>1, <2>2, <2>4 DEF Node
  <2>6. ASSUME i \notin old PROVE nodes[i] = g.nodes[i]
    <3>1. nodes[i].superseded = g.nodes[i].superseded
      BY <2>3, <2>4, <2>6, Zenon
    <3> QED BY <2>2, <2>3, <2>5, <3>1 DEF Node
  <2> QED BY <2>3, <2>5, <2>6
<1>4. nodes \in Seq(Node) /\ Len(nodes) = n
  <2> HIDE DEF n
  <2>1. nodes \in [1..n -> Node]
    BY <1>3 DEF Ordinals, n
  <2> HIDE DEF nodes
  <2> QED BY <1>2, <2>1 DEF n
<1>5. ASSUME NEW i \in Ordinals(g)
      PROVE  /\ g.nodes[i].superseded => nodes[i].superseded
             /\ g.nodes[i].id = id => nodes[i].superseded
             /\ g.nodes[i].id # id => nodes[i] = g.nodes[i]
  <2>1. ASSUME g.nodes[i].id = id PROVE nodes[i].superseded
    <3>1. id \in DOMAIN g.ords /\ i <= g.ords[id]
      BY <2>1 DEF IndexRight
    <3>2. g.ords[id] \in Ordinals(g) /\ g.nodes[g.ords[id]].id = id
      BY <3>1 DEF IndexRight
    <3>3. CASE i = g.ords[id]
      BY <1>3, <3>1, <3>3
    <3>4. CASE i # g.ords[id]
      <4>1. i < g.ords[id]
        BY <1>2, <3>1, <3>2, <3>4 DEF Ordinals
      <4>2. g.nodes[i].superseded
        BY <2>1, <3>2, <4>1 DEF NodesOnce
      <4> QED BY <1>3, <4>2
    <3> QED BY <3>3, <3>4
  <2>2. ASSUME g.nodes[i].id # id PROVE i \notin old
    BY <2>2 DEF IndexRight
  <2> HIDE DEF nodes, old
  <2> QED BY <1>3, <2>1, <2>2
<1> HIDE DEF h, nodes, ords
<1>6. /\ IsGraph(h) /\ h.nodes = nodes /\ h.ords = ords /\ h.indexed = g.indexed
      /\ h.deleted = g.deleted /\ h.sealed = g.sealed /\ h.links = g.links /\ h.csr = g.csr
      /\ h.undefined = g.undefined /\ h.floats = g.floats
      /\ h.top = g.top /\ h.entry = g.entry
  BY <1>1 DEF Shaped, IsGraph, EmptyGraph
<1>7. Ordinals(h) = Ordinals(g)
  BY <1>4, <1>6 DEF Ordinals
<1>8. Shaped(h)
  BY <1>4, <1>6, <1>7 DEF Shaped
<1> QED BY <1>3, <1>4, <1>5, <1>6, <1>8 DEF h, ords

\* The graph before a new node is linked.
Ready(g, id, vec, level) ==
    Stage(Marked(EnsureIdIndex(Unseal(g)), id), <<[id |-> id, vec |-> vec]>>, <<level>>)

LEMMA AddIs ==
    ASSUME NEW g, NEW id, NEW vec, NEW level
    PROVE  LET before == EnsureIdIndex(Unseal(g))
               n == Len(before.nodes) + 1
               staged == Ready(g, id, vec, level)
           IN  Add(g, id, vec, level)
                 = IF before.top < 0 THEN [staged EXCEPT !.top = level, !.entry = n]
                   ELSE IF staged.floats # n THEN Undefined(staged)
                   ELSE LinkWave(staged, {n})
BY DEF Add, Ready, Marked

LEMMA Readied ==
    ASSUME NEW g, Shaped(g), IndexRight(g), NodesOnce(g),
           NEW id \in Id, NEW vec \in Vector, NEW level \in 0..MaxLevel
    PROVE  LET h == Ready(g, id, vec, level)
               n == Len(g.nodes) + 1
               u == Unseal(g)
           IN  /\ Shaped(h) /\ ~h.sealed /\ NodesOnce(h) /\ IndexRight(h)
               /\ h.undefined = g.undefined /\ h.top = g.top /\ h.entry = g.entry
               /\ h.floats = g.floats + 1 /\ h.deleted = g.deleted \ {id}
               /\ Len(g.nodes) \in Nat /\ Len(h.nodes) = n
               /\ h.nodes[n] = NewNode(id, vec, level)
               /\ h.links[n] = NoLinks(level) /\ Len(h.links[n]) = level + 1
               /\ \A i \in Ordinals(g) :
                     /\ h.links[i] = u.links[i]
                     /\ h.nodes[i].id = g.nodes[i].id /\ h.nodes[i].vec = g.nodes[i].vec
                     /\ h.nodes[i].level = g.nodes[i].level
                     /\ g.nodes[i].id = id => h.nodes[i].superseded
                     /\ g.nodes[i].id # id => h.nodes[i] = g.nodes[i]
<1> DEFINE u == Unseal(g)
           b == EnsureIdIndex(u)
           m == Marked(b, id)
           items == <<[id |-> id, vec |-> vec]>>
           levels == <<level>>
           h == Ready(g, id, vec, level)
           n == Len(g.nodes) + 1
<1>1. /\ Shaped(u) /\ SameNodes(g, u) /\ ~u.sealed /\ u.undefined = g.undefined
      /\ u.floats = g.floats /\ u.top = g.top /\ u.entry = g.entry
  BY UnsealShaped
<1> HIDE DEF u
<1>2. IndexRight(u) /\ NodesOnce(u)
  BY <1>1 DEF IndexRight, NodesOnce, SameNodes, Ordinals
<1>3. /\ Shaped(b) /\ IndexRight(b) /\ b.indexed
      /\ b.nodes = u.nodes /\ b.deleted = u.deleted /\ b.sealed = u.sealed
      /\ b.links = u.links /\ b.csr = u.csr /\ b.undefined = u.undefined
      /\ b.floats = u.floats /\ b.top = u.top /\ b.entry = u.entry
  BY <1>1, <1>2, IndexEnsured
<1> HIDE DEF b
<1>4. NodesOnce(b) /\ Ordinals(b) = Ordinals(g) /\ b.nodes = g.nodes /\ ~b.sealed
  BY <1>1, <1>2, <1>3 DEF NodesOnce, SameNodes, Ordinals
<1>5. /\ Shaped(m) /\ m.indexed /\ Len(m.nodes) = Len(b.nodes)
      /\ DOMAIN m.ords = DOMAIN b.ords \union {id}
      /\ m.ords[id] = Len(b.nodes) + 1
      /\ \A x \in DOMAIN b.ords \ {id} : m.ords[x] = b.ords[x]
      /\ m.deleted = b.deleted /\ ~m.sealed /\ m.links = b.links /\ m.csr = b.csr
      /\ m.undefined = b.undefined /\ m.floats = b.floats
      /\ m.top = b.top /\ m.entry = b.entry
      /\ \A i \in Ordinals(b) :
            /\ m.nodes[i].id = b.nodes[i].id /\ m.nodes[i].vec = b.nodes[i].vec
            /\ m.nodes[i].level = b.nodes[i].level
            /\ b.nodes[i].superseded => m.nodes[i].superseded
            /\ b.nodes[i].id = id => m.nodes[i].superseded
            /\ b.nodes[i].id # id => m.nodes[i] = b.nodes[i]
  <2>1. Shaped(b) /\ ~b.sealed /\ IndexRight(b) /\ b.indexed /\ NodesOnce(b)
    BY <1>3, <1>4
  <2> QED BY <2>1, MarkedRight
<1> HIDE DEF m
<1>6. Batch(items, levels) /\ Len(items) = 1 /\ items[1].id = id /\ items[1].vec = vec /\ levels[1] = level
  BY DEF Batch, List
<1> HIDE DEF items, levels
<1>7. /\ Shaped(h) /\ ~h.sealed /\ h.undefined = m.undefined
      /\ h.indexed = m.indexed /\ h.ords = m.ords
      /\ h.top = m.top /\ h.entry = m.entry
      /\ h.floats = m.floats + Len(items)
      /\ h.deleted = m.deleted \ {items[k].id : k \in 1..Len(items)}
      /\ Len(h.nodes) = Len(m.nodes) + Len(items)
      /\ \A i \in Ordinals(m) : h.nodes[i] = m.nodes[i] /\ h.links[i] = m.links[i]
      /\ \A k \in 1..Len(items) :
             /\ h.nodes[Len(m.nodes) + k] = NewNode(items[k].id, items[k].vec, levels[k])
             /\ h.links[Len(m.nodes) + k] = NoLinks(levels[k])
             /\ Len(h.links[Len(m.nodes) + k]) = levels[k] + 1
  <2>1. h = Stage(m, items, levels)
    BY DEF Ready, m, b, u, items, levels
  <2>2. Shaped(m) /\ ~m.sealed /\ Batch(items, levels)
    BY <1>5, <1>6
  <2> HIDE DEF h
  <2> QED BY <2>1, <2>2, Staged
<1> HIDE DEF h
<1>8. Len(m.nodes) = Len(g.nodes) /\ Ordinals(m) = Ordinals(g) /\ Len(g.nodes) \in Nat
  BY <1>4, <1>5 DEF Ordinals, Shaped
<1>9. /\ h.nodes[n] = NewNode(id, vec, level) /\ h.links[n] = NoLinks(level)
      /\ Len(h.links[n]) = level + 1 /\ Len(h.nodes) = n
  <2>1. 1 \in 1..Len(items)
    BY <1>6
  <2> QED BY <1>6, <1>7, <1>8, <2>1
<1>10. h.deleted = g.deleted \ {id} /\ h.floats = g.floats + 1
  <2>1. {items[k].id : k \in 1..Len(items)} = {id}
    BY <1>6
  <2> QED BY <1>1, <1>3, <1>5, <1>6, <1>7, <2>1 DEF SameNodes
<1>11. ASSUME NEW i \in Ordinals(g)
       PROVE  /\ h.links[i] = u.links[i]
              /\ h.nodes[i].id = g.nodes[i].id /\ h.nodes[i].vec = g.nodes[i].vec
              /\ h.nodes[i].level = g.nodes[i].level
              /\ g.nodes[i].superseded => h.nodes[i].superseded
              /\ g.nodes[i].id = id => h.nodes[i].superseded
              /\ g.nodes[i].id # id => h.nodes[i] = g.nodes[i]
  <2>1. h.nodes[i] = m.nodes[i] /\ h.links[i] = u.links[i]
    BY <1>3, <1>5, <1>7, <1>8
  <2> QED BY <1>4, <1>5, <2>1
<1>12. /\ Ordinals(h) = Ordinals(g) \union {n} /\ n \notin Ordinals(g)
       /\ \A i \in Ordinals(g) : i < n
       /\ h.nodes[n].id = id
  <2>1. h.nodes[n].id = id
    BY <1>9 DEF NewNode
  <2>2. Ordinals(g) = 1..Len(g.nodes) /\ Ordinals(h) = 1..n
    BY <1>9 DEF Ordinals
  <2> QED BY <1>8, <2>1, <2>2
<1>13. NodesOnce(h)
  <2> SUFFICES ASSUME NEW i \in Ordinals(h), NEW j \in Ordinals(h), i < j,
                      h.nodes[i].id = h.nodes[j].id
               PROVE  h.nodes[i].superseded
    BY DEF NodesOnce
  <2>1. i \in Ordinals(g)
    <3>1. i # n
      BY <1>8, <1>9 DEF Ordinals
    <3> QED BY <1>12, <3>1
  <2>2. CASE j = n
    BY <1>11, <1>12, <2>1, <2>2
  <2>3. CASE j # n
    <3>1. j \in Ordinals(g)
      BY <1>12, <2>3
    <3>2. g.nodes[i].superseded
      BY <1>11, <2>1, <3>1 DEF NodesOnce
    <3> QED BY <1>11, <2>1, <3>2
  <2> QED BY <2>2, <2>3
<1>14. IndexRight(h)
  <2>1. /\ h.indexed /\ DOMAIN h.ords = DOMAIN b.ords \union {id} /\ h.ords[id] = n
        /\ \A x \in DOMAIN b.ords \ {id} : h.ords[x] = b.ords[x]
    BY <1>4, <1>5, <1>7
  <2>2. DOMAIN b.ords = {g.nodes[i].id : i \in Ordinals(g)}
    BY <1>3, <1>4 DEF IndexRight
  <2>3. DOMAIN h.ords = {h.nodes[i].id : i \in Ordinals(h)}
    BY <1>11, <1>12, <2>1, <2>2
  <2>4. ASSUME NEW x \in DOMAIN h.ords
        PROVE  h.ords[x] \in Ordinals(h) /\ h.nodes[h.ords[x]].id = x
    <3>1. CASE x = id
      BY <1>12, <2>1, <3>1
    <3>2. CASE x # id
      <4>1. x \in DOMAIN b.ords /\ h.ords[x] = b.ords[x]
        BY <2>1, <3>2
      <4>2. b.ords[x] \in Ordinals(g) /\ g.nodes[b.ords[x]].id = x
        BY <1>3, <1>4, <4>1 DEF IndexRight
      <4> QED BY <1>11, <1>12, <4>1, <4>2
    <3> QED BY <3>1, <3>2
  <2>5. ASSUME NEW i \in Ordinals(h) PROVE i <= h.ords[h.nodes[i].id]
    <3>1. CASE h.nodes[i].id = id
      <4>1. i <= n
        BY <1>8, <1>9 DEF Ordinals
      <4> QED BY <2>1, <3>1, <4>1
    <3>2. CASE h.nodes[i].id # id
      <4>1. i \in Ordinals(g) /\ h.nodes[i] = g.nodes[i]
        BY <1>11, <1>12, <3>2
      <4>2. i <= b.ords[g.nodes[i].id]
        BY <1>3, <1>4, <4>1 DEF IndexRight
      <4>3. h.ords[g.nodes[i].id] = b.ords[g.nodes[i].id]
        BY <2>1, <2>2, <3>2, <4>1
      <4> QED BY <4>1, <4>2, <4>3
    <3> QED BY <3>1, <3>2
  <2> QED BY <2>1, <2>3, <2>4, <2>5 DEF IndexRight
<1>15. h.undefined = g.undefined /\ h.top = g.top /\ h.entry = g.entry
  BY <1>1, <1>3, <1>5, <1>7
<1> QED BY <1>7, <1>8, <1>9, <1>10, <1>11, <1>13, <1>14, <1>15 DEF h, u

\* What the proofs of every step need of a graph.
GraphOk(g) == Shaped(g) /\ NodesOnce(g) /\ IndexRight(g)

LEMMA OkKept ==
    ASSUME NEW g, NEW h, GraphOk(g), Shaped(h), SameNodes(g, h)
    PROVE  GraphOk(h)
BY DEF GraphOk, NodesOnce, IndexRight, SameNodes, Ordinals

LEMMA Added ==
    ASSUME NEW g, GraphOk(g),
           NEW id \in Id, NEW vec \in Vector, NEW level \in 0..MaxLevel
    PROVE  LET h == Add(g, id, vec, level)
               n == Len(g.nodes) + 1
           IN  /\ GraphOk(h) /\ ~h.sealed
               /\ h.floats = g.floats + 1 /\ h.deleted = g.deleted \ {id}
               /\ Len(g.nodes) \in Nat /\ Len(h.nodes) = n
               /\ h.nodes[n] = NewNode(id, vec, level)
               /\ \A i \in Ordinals(g) :
                     /\ h.nodes[i].id = g.nodes[i].id /\ h.nodes[i].vec = g.nodes[i].vec
                     /\ h.nodes[i].level = g.nodes[i].level
                     /\ g.nodes[i].id = id => h.nodes[i].superseded
                     /\ g.nodes[i].id # id => h.nodes[i] = g.nodes[i]
<1> DEFINE r == Ready(g, id, vec, level)
           h == Add(g, id, vec, level)
           n == Len(g.nodes) + 1
<1>1. /\ Shaped(r) /\ ~r.sealed /\ NodesOnce(r) /\ IndexRight(r)
      /\ r.floats = g.floats + 1 /\ r.deleted = g.deleted \ {id}
      /\ Len(g.nodes) \in Nat /\ Len(r.nodes) = n
      /\ r.nodes[n] = NewNode(id, vec, level)
      /\ Len(r.links[n]) = level + 1
      /\ \A i \in Ordinals(g) :
            /\ r.nodes[i].id = g.nodes[i].id /\ r.nodes[i].vec = g.nodes[i].vec
            /\ r.nodes[i].level = g.nodes[i].level
            /\ g.nodes[i].id = id => r.nodes[i].superseded
            /\ g.nodes[i].id # id => r.nodes[i] = g.nodes[i]
  BY Readied DEF GraphOk
<1> HIDE DEF r
<1>2. Shaped(h) /\ SameNodes(r, h) /\ ~h.sealed /\ h.floats = r.floats
  <2> DEFINE top == EnsureIdIndex(Unseal(g)).top
             m == Len(EnsureIdIndex(Unseal(g)).nodes) + 1
  <2>1. h = IF top < 0 THEN [r EXCEPT !.top = level, !.entry = m]
            ELSE IF r.floats # m THEN Undefined(r)
            ELSE LinkWave(r, {m})
    BY AddIs, Zenon DEF r
  <2>2. m = n
    <3>1. Shaped(Unseal(g)) /\ SameNodes(g, Unseal(g))
      BY UnsealShaped DEF GraphOk
    <3>2. IndexRight(Unseal(g))
      BY <3>1 DEF IndexRight, SameNodes, Ordinals, GraphOk
    <3>3. EnsureIdIndex(Unseal(g)).nodes = Unseal(g).nodes
      BY <3>1, <3>2, IndexEnsured
    <3> QED BY <3>1, <3>3 DEF SameNodes
  <2> HIDE DEF top, m, h
  <2>3. CASE top < 0
    <3> DEFINE e == [r EXCEPT !.top = level, !.entry = m]
    <3>1. h = e
      BY <2>1, <2>3
    <3>2. /\ IsGraph(e) /\ SameNodes(r, e) /\ e.sealed = r.sealed /\ e.undefined = r.undefined
          /\ e.floats = r.floats /\ e.links = r.links /\ e.csr = r.csr /\ e.top = level
      BY <1>1 DEF Shaped, IsGraph, EmptyGraph, SameNodes
    <3> HIDE DEF e
    <3>3. e.top \in -1..MaxLevel
      BY <3>2, ConstantsAssumption
    <3>4. Shaped(e)
      BY <1>1, <3>2, <3>3 DEF Shaped, SameNodes, Ordinals
    <3> QED BY <1>1, <3>1, <3>2, <3>4
  <2>4. CASE ~(top < 0) /\ r.floats # m
    BY <1>1, <2>1, <2>4, UndefinedShaped
  <2>5. CASE ~(top < 0) /\ ~(r.floats # m)
    <3> DEFINE wave == {n}
    <3>1. wave \subseteq Ordinals(r) /\ wave # {}
      BY <1>1 DEF Ordinals
    <3>2. \A i \in wave : Len(r.links[i]) \in 1..(MaxLevel + 1)
      BY <1>1, ConstantsAssumption
    <3>3. h = LinkWave(r, wave)
      BY <2>1, <2>2, <2>5
    <3> HIDE DEF wave
    <3> QED BY <1>1, <3>1, <3>2, <3>3, LinkShaped
  <2> QED BY <2>3, <2>4, <2>5
<1> HIDE DEF h
<1>3. GraphOk(h)
  BY <1>1, <1>2, OkKept DEF GraphOk
<1> QED BY <1>1, <1>2, <1>3 DEF SameNodes, h

-----------------------------------------------------------------------------
(* What a graph holds.                                                     *)

PairsOf(g) == {<<g.nodes[i].id, Vec(g, i)>> : i \in Live(g)}

LEMMA OneEach ==
    ASSUME NEW g, GraphOk(g), NEW i \in Live(g), NEW j \in Live(g),
           g.nodes[i].id = g.nodes[j].id
    PROVE  i = j
<1>1. i \in Ordinals(g) /\ j \in Ordinals(g) /\ ~g.nodes[i].superseded /\ ~g.nodes[j].superseded
  BY DEF Live
<1>2. ~(i < j) /\ ~(j < i)
  BY <1>1 DEF GraphOk, NodesOnce
<1>3. i \in Int /\ j \in Int
  BY <1>1 DEF Ordinals
<1> QED BY <1>2, <1>3

LEMMA SamePairs ==
    ASSUME NEW g, NEW h, SameNodes(g, h)
    PROVE  Live(h) = Live(g) /\ PairsOf(h) = PairsOf(g)
BY DEF SameNodes, Live, PairsOf, Vec, Ordinals

LEMMA NodeTypes ==
    ASSUME NEW g, Shaped(g), NEW i \in Ordinals(g)
    PROVE  g.nodes[i] \in Node /\ g.nodes[i].id \in Id /\ Vec(g, i) \in Vector
<1>1. g.nodes[i] \in Node
  BY DEF Shaped, Ordinals
<1> QED BY <1>1 DEF Node, Vec

LEMMA AddedPairs ==
    ASSUME NEW g, GraphOk(g),
           NEW id \in Id, NEW vec \in Vector, NEW level \in 0..MaxLevel
    PROVE  PairsOf(Add(g, id, vec, level)) = {p \in PairsOf(g) : p[1] # id} \union {<<id, vec>>}
<1> DEFINE h == Add(g, id, vec, level)
           n == Len(g.nodes) + 1
<1>1. /\ h.deleted = g.deleted \ {id}
      /\ Len(g.nodes) \in Nat /\ Len(h.nodes) = n
      /\ h.nodes[n] = NewNode(id, vec, level)
      /\ \A i \in Ordinals(g) :
            /\ h.nodes[i].id = g.nodes[i].id /\ h.nodes[i].vec = g.nodes[i].vec
            /\ g.nodes[i].id = id => h.nodes[i].superseded
            /\ g.nodes[i].id # id => h.nodes[i] = g.nodes[i]
  BY Added
<1> HIDE DEF h
<1>2. Ordinals(h) = Ordinals(g) \union {n} /\ n \notin Ordinals(g)
  <2>1. Ordinals(h) = 1..n /\ Ordinals(g) = 1..Len(g.nodes)
    BY <1>1 DEF Ordinals
  <2> QED BY <1>1, <2>1
<1> HIDE DEF n
<1>3. h.nodes[n].id = id /\ h.nodes[n].vec = vec /\ ~h.nodes[n].superseded
  BY <1>1 DEF NewNode
<1>4. Live(h) = {i \in Live(g) : g.nodes[i].id # id} \union {n}
  <2>1. ASSUME NEW i \in Ordinals(g)
        PROVE  i \in Live(h) <=> i \in Live(g) /\ g.nodes[i].id # id
    BY <1>1, <1>2 DEF Live
  <2>2. n \in Live(h)
    BY <1>1, <1>2, <1>3 DEF Live
  <2> QED BY <1>2, <2>1, <2>2 DEF Live
<1>5. ASSUME NEW i \in Live(g), g.nodes[i].id # id
      PROVE  h.nodes[i].id = g.nodes[i].id /\ h.nodes[i].vec = g.nodes[i].vec
  BY <1>1 DEF Live
<1>6. PairsOf(h) \subseteq {p \in PairsOf(g) : p[1] # id} \union {<<id, vec>>}
  <2> SUFFICES ASSUME NEW i \in Live(h)
               PROVE  <<h.nodes[i].id, Vec(h, i)>>
                        \in {p \in PairsOf(g) : p[1] # id} \union {<<id, vec>>}
    BY DEF PairsOf
  <2>1. CASE i = n
    BY <1>3, <2>1 DEF Vec
  <2>2. CASE i # n
    <3>1. i \in Live(g) /\ g.nodes[i].id # id
      BY <1>4, <2>2
    <3> QED BY <1>5, <3>1 DEF Vec, PairsOf
  <2> QED BY <2>1, <2>2
<1>7. {p \in PairsOf(g) : p[1] # id} \subseteq PairsOf(h)
  <2> SUFFICES ASSUME NEW i \in Live(g), g.nodes[i].id # id
               PROVE  <<g.nodes[i].id, Vec(g, i)>> \in PairsOf(h)
    BY DEF PairsOf
  <2>1. i \in Live(h)
    BY <1>4
  <2> QED BY <1>5, <2>1 DEF Vec, PairsOf
<1>8. <<id, vec>> \in PairsOf(h)
  BY <1>3, <1>4 DEF Vec, PairsOf
<1> QED BY <1>6, <1>7, <1>8 DEF h

LEMMA Removed ==
    ASSUME NEW g, GraphOk(g), NEW id \in Id
    PROVE  LET h == RemoveId(g, id)
           IN  /\ GraphOk(h) /\ PairsOf(h) = {p \in PairsOf(g) : p[1] # id}
               /\ h.undefined = g.undefined /\ h.floats = g.floats
               /\ h.nodes = g.nodes /\ h.links = g.links /\ h.csr = g.csr
               /\ h.sealed = g.sealed /\ h.top = g.top /\ h.entry = g.entry
<1> DEFINE h == RemoveId(g, id)
<1>1. /\ IsGraph(h) /\ h.nodes = g.nodes /\ h.deleted = g.deleted \union {id}
      /\ h.indexed = g.indexed /\ h.ords = g.ords
      /\ h.undefined = g.undefined /\ h.floats = g.floats
      /\ h.links = g.links /\ h.csr = g.csr
      /\ h.sealed = g.sealed /\ h.top = g.top /\ h.entry = g.entry
  BY DEF RemoveId, GraphOk, Shaped, IsGraph, EmptyGraph
<1> HIDE DEF h
<1>2. Ordinals(h) = Ordinals(g) /\ Unpacked(h) = Unpacked(g)
  BY <1>1 DEF Ordinals, Unpacked
<1>3. Shaped(h)
  BY <1>1, <1>2 DEF Shaped, GraphOk
<1>4. NodesOnce(h) /\ IndexRight(h)
  BY <1>1, <1>2 DEF NodesOnce, IndexRight, GraphOk
<1>5. Live(h) = {i \in Live(g) : g.nodes[i].id # id}
  BY <1>1, <1>2 DEF Live
<1>6. PairsOf(h) = {p \in PairsOf(g) : p[1] # id}
  <2>1. ASSUME NEW i \in Live(g) PROVE Vec(h, i) = Vec(g, i)
    BY <1>1 DEF Vec
  <2>2. PairsOf(h) = {<<g.nodes[i].id, Vec(g, i)>> : i \in {j \in Live(g) : g.nodes[j].id # id}}
    BY <1>1, <1>5 DEF PairsOf, Vec
  <2> QED BY <2>2 DEF PairsOf
<1> QED BY <1>1, <1>3, <1>4, <1>6 DEF GraphOk, h

\* No two items have the same id.
Distinct(items) == \A i, j \in 1..Len(items) : items[i].id = items[j].id => i = j

PairsIn(items) == {<<items[k].id, items[k].vec>> : k \in 1..Len(items)}

LEMMA BuiltRight ==
    ASSUME NEW items, NEW levels, Batch(items, levels), Distinct(items), NEW d \in BOOLEAN
    PROVE  LET h == BuildBatch(EmptyGraph, items, levels, d)
           IN  /\ GraphOk(h) /\ PairsOf(h) = PairsIn(items)
               /\ ~d => h.floats = Len(h.nodes)
<1> DEFINE h == BuildBatch(EmptyGraph, items, levels, d)
<1>1. /\ Shaped(h) /\ h.deleted = {} /\ ~h.indexed /\ h.ords = <<>>
      /\ Len(h.nodes) = Len(items) /\ Len(items) \in Nat
      /\ ~d => h.floats = Len(items)
      /\ \A k \in 1..Len(items) :
             h.nodes[k] = NewNode(items[k].id, items[k].vec, levels[k])
  BY BuiltShaped
<1> HIDE DEF h
<1>2. Ordinals(h) = 1..Len(items)
  BY <1>1 DEF Ordinals
<1>3. ASSUME NEW k \in 1..Len(items)
      PROVE  h.nodes[k].id = items[k].id /\ Vec(h, k) = items[k].vec /\ ~h.nodes[k].superseded
  <2>1. h.nodes[k] = NewNode(items[k].id, items[k].vec, levels[k])
    BY <1>1
  <2> QED BY <2>1 DEF NewNode, Vec
<1>4. Live(h) = 1..Len(items)
  BY <1>1, <1>2, <1>3 DEF Live
<1>5. PairsOf(h) = PairsIn(items)
  BY <1>3, <1>4 DEF PairsOf, PairsIn
<1>6. NodesOnce(h)
  <2>1. ASSUME NEW i \in 1..Len(items), NEW j \in 1..Len(items), i < j PROVE h.nodes[i].id # h.nodes[j].id
    <3>1. i # j
      BY <2>1
    <3> QED BY <1>3, <3>1 DEF Distinct
  <2> QED BY <1>2, <2>1 DEF NodesOnce
<1>7. IndexRight(h)
  BY <1>1 DEF IndexRight
<1> QED BY <1>1, <1>5, <1>6, <1>7 DEF GraphOk, h

LEMMA SurvivorsRight ==
    ASSUME NEW g, GraphOk(g)
    PROVE  LET items == Survivors(g)
           IN  /\ List(items) /\ Len(items) = Cardinality(Live(g)) /\ Len(items) \in Nat
               /\ Distinct(items) /\ PairsIn(items) = PairsOf(g)
               /\ \A k \in 1..Len(items) : \E i \in Live(g) :
                      items[k].id = g.nodes[i].id /\ items[k].vec = Vec(g, i)
               /\ \A k \in 1..Len(items) : items[k].id \in Id /\ items[k].vec \in Vector
<1> DEFINE S == Live(g)
           nth(k) == CHOOSE i \in S : Cardinality({j \in S : j <= i}) = k
           items == Survivors(g)
           c == Cardinality(S)
<1>1. items = [k \in 1..c |-> [id |-> g.nodes[nth(k)].id, vec |-> Vec(g, nth(k))]]
  BY DEF Survivors
<1>2. /\ c \in Nat
      /\ \A k \in 1..c : nth(k) \in S
      /\ \A k, l \in 1..c : nth(k) = nth(l) => k = l
      /\ \A i \in S : \E k \in 1..c : nth(k) = i
  <2> DEFINE n == Len(g.nodes)
  <2>1. n \in Nat /\ S \in SUBSET (1..n)
    BY DEF Live, Ordinals, GraphOk, Shaped
  <2> HIDE DEF S, n
  <2> QED BY <2>1, InOrder
<1> HIDE DEF S, nth, items, c
<1>3. List(items) /\ Len(items) = c
  BY <1>1, <1>2 DEF List
<1>4. ASSUME NEW k \in 1..c
      PROVE  /\ nth(k) \in Live(g)
             /\ items[k].id = g.nodes[nth(k)].id /\ items[k].vec = Vec(g, nth(k))
  BY <1>1, <1>2 DEF S
<1>5. Distinct(items)
  <2> SUFFICES ASSUME NEW k \in 1..c, NEW l \in 1..c, items[k].id = items[l].id PROVE k = l
    BY <1>3 DEF Distinct
  <2>1. nth(k) = nth(l)
    BY <1>4, OneEach
  <2> QED BY <1>2, <2>1
<1>6. PairsIn(items) = PairsOf(g)
  <2>1. PairsIn(items) \subseteq PairsOf(g)
    BY <1>3, <1>4 DEF PairsIn, PairsOf
  <2>2. ASSUME NEW i \in Live(g) PROVE <<g.nodes[i].id, Vec(g, i)>> \in PairsIn(items)
    <3>1. PICK k \in 1..c : nth(k) = i
      BY <1>2 DEF S
    <3> QED BY <1>3, <1>4, <3>1 DEF PairsIn
  <2> QED BY <2>1, <2>2 DEF PairsOf
<1>7. ASSUME NEW k \in 1..c PROVE items[k].id \in Id /\ items[k].vec \in Vector
  <2>1. nth(k) \in Ordinals(g)
    BY <1>4 DEF Live
  <2> QED BY <1>4, <2>1, NodeTypes DEF GraphOk
<1> QED BY <1>2, <1>3, <1>4, <1>5, <1>6, <1>7 DEF items, c, S

LEMMA Compacted ==
    ASSUME NEW g, GraphOk(g), NEW levels, NEW d \in BOOLEAN,
           Stale(g) => \A k \in 1..Cardinality(Live(g)) : levels[k] \in 0..MaxLevel
    PROVE  LET h == Compact(g, levels, d)
           IN  /\ GraphOk(h) /\ PairsOf(h) = PairsOf(g)
               /\ \/ h = g /\ ~Stale(g)
                  \/ h = Undefined(g) /\ g.floats < Len(g.nodes)
                  \/ h = BuildBatch(EmptyGraph, Survivors(g), levels, d)
<1> DEFINE h == Compact(g, levels, d)
<1>1. CASE ~Stale(g)
  BY <1>1 DEF Compact
<1>2. CASE Stale(g) /\ g.floats < Len(g.nodes) /\ Live(g) # {}
  <2>1. h = Undefined(g)
    BY <1>2 DEF Compact
  <2>2. Shaped(Undefined(g)) /\ SameNodes(g, Undefined(g))
    BY UndefinedShaped DEF GraphOk
  <2> QED BY <1>2, <2>1, <2>2, OkKept, SamePairs
<1>3. CASE Stale(g) /\ ~(g.floats < Len(g.nodes) /\ Live(g) # {})
  <2> DEFINE items == Survivors(g)
  <2>1. h = BuildBatch(EmptyGraph, items, levels, d)
    BY <1>3 DEF Compact
  <2>2. Batch(items, levels) /\ Distinct(items) /\ PairsIn(items) = PairsOf(g)
    BY <1>3, SurvivorsRight DEF Batch
  <2> HIDE DEF items
  <2>3. GraphOk(h) /\ PairsOf(h) = PairsOf(g)
    <3> HIDE DEF h
    <3> QED BY <2>1, <2>2, BuiltRight
  <2> QED BY <2>1, <2>3 DEF items
<1> QED BY <1>1, <1>2, <1>3

LEMMA WithLinksOk ==
    ASSUME NEW g, GraphOk(g)
    PROVE  LET h == WithLinks(g)
           IN  /\ GraphOk(h) /\ SameNodes(g, h)
               /\ h.undefined = g.undefined /\ h.floats = g.floats
               /\ h.sealed = g.sealed /\ h.csr = g.csr
               /\ h.top = g.top /\ h.entry = g.entry
               /\ h.links = IF g.sealed THEN Unpacked(g) ELSE g.links
               /\ \A i \in Ordinals(g) : List(h.links[i])
<1> DEFINE h == WithLinks(g)
<1>1. CASE ~g.sealed
  BY <1>1 DEF WithLinks, SameNodes, GraphOk, Shaped
<1>2. CASE g.sealed
  <2>1. h = [g EXCEPT !.links = Unpacked(g)]
    BY <1>2 DEF WithLinks
  <2> HIDE DEF h
  <2>2. /\ IsGraph(h) /\ SameNodes(g, h) /\ h.undefined = g.undefined /\ h.floats = g.floats
        /\ h.sealed = g.sealed /\ h.csr = g.csr /\ h.links = Unpacked(g)
        /\ h.top = g.top /\ h.entry = g.entry
    BY <2>1 DEF GraphOk, Shaped, IsGraph, EmptyGraph, SameNodes
  <2>3. Ordinals(h) = Ordinals(g) /\ Unpacked(h) = Unpacked(g)
    BY <2>2 DEF Ordinals, Unpacked, SameNodes
  <2>4. /\ List(Unpacked(g)) /\ Len(Unpacked(g)) = Len(g.nodes)
        /\ \A i \in Ordinals(g) : List(Unpacked(g)[i])
    BY <1>2, UnpackedLists DEF GraphOk, Shaped
  <2>5. Shaped(h)
    BY <1>2, <2>2, <2>3, <2>4 DEF Shaped, SameNodes, GraphOk
  <2>6. GraphOk(h)
    BY <2>2, <2>5, OkKept
  <2> QED BY <1>2, <2>2, <2>4, <2>6 DEF h
<1> QED BY <1>1, <1>2

\* A graph of which nothing can be reclaimed comes back from its blob.
LEMMA Restored ==
    ASSUME NEW g, GraphOk(g), ~Stale(g)
    PROVE  LET h == Deserialize(Serialize(g))
           IN  /\ GraphOk(h) /\ PairsOf(h) = PairsOf(g) /\ h.undefined = FALSE
               /\ ~h.sealed /\ h.floats = Len(h.nodes) /\ h.deleted = {}
               /\ h.top = g.top /\ h.entry = g.entry
               /\ Len(h.nodes) = Len(g.nodes)
               /\ h.links = WithLinks(g).links /\ h.csr = <<>>
               /\ \A i \in Ordinals(g) :
                     /\ h.nodes[i].id = g.nodes[i].id /\ h.nodes[i].vec = g.nodes[i].vec
                     /\ h.nodes[i].level = g.nodes[i].level /\ ~h.nodes[i].superseded
<1> DEFINE b == Serialize(g)
           nodes == [i \in 1..Len(b.nodes) |-> [b.nodes[i] EXCEPT !.superseded = FALSE]]
           h == Deserialize(b)
<1>1. b.nodes = g.nodes /\ b.links = WithLinks(g).links /\ b.top = g.top /\ b.entry = g.entry
  BY DEF Serialize
<1>2. /\ IsGraph(h) /\ h.nodes = nodes /\ h.links = b.links /\ h.top = b.top /\ h.entry = b.entry
      /\ h.floats = Len(b.nodes) /\ h.deleted = {} /\ h.indexed = FALSE /\ h.ords = <<>>
      /\ h.sealed = FALSE /\ h.undefined = FALSE /\ h.csr = <<>>
  BY DEF Deserialize, EmptyGraph, IsGraph
<1> HIDE DEF b, h
<1>3. Len(g.nodes) \in Nat /\ \A i \in Ordinals(g) : g.nodes[i] \in Node
  BY NodeTypes DEF GraphOk, Shaped
<1>4. ASSUME NEW i \in Ordinals(g)
      PROVE  /\ nodes[i] \in Node /\ nodes[i].id = g.nodes[i].id
             /\ nodes[i].vec = g.nodes[i].vec /\ nodes[i].level = g.nodes[i].level
             /\ nodes[i].superseded = FALSE
  <2>1. nodes[i] = [g.nodes[i] EXCEPT !.superseded = FALSE] /\ g.nodes[i] \in Node
    BY <1>1, <1>3 DEF Ordinals
  <2> HIDE DEF nodes
  <2> QED BY <2>1 DEF Node
<1>5. nodes \in Seq(Node) /\ Len(nodes) = Len(g.nodes)
  <2> DEFINE n == Len(g.nodes)
  <2> HIDE DEF n
  <2>1. nodes \in [1..n -> Node]
    BY <1>1, <1>4 DEF Ordinals, n
  <2>2. n \in Nat
    BY <1>3 DEF n
  <2> HIDE DEF nodes
  <2>3. nodes \in Seq(Node) /\ Len(nodes) = n
    BY <2>1, <2>2
  <2> QED BY <2>3 DEF n
<1> HIDE DEF nodes
<1>6. Ordinals(h) = Ordinals(g)
  BY <1>2, <1>5 DEF Ordinals
<1>7. /\ List(h.links) /\ Len(h.links) = Len(g.nodes)
      /\ \A i \in Ordinals(g) : List(h.links[i])
  <2>1. GraphOk(WithLinks(g)) /\ SameNodes(g, WithLinks(g)) /\ \A i \in Ordinals(g) : List(WithLinks(g).links[i])
    BY WithLinksOk
  <2> QED BY <1>1, <1>2, <2>1 DEF GraphOk, Shaped, SameNodes
<1>8. Shaped(h)
  <2>1. h.floats \in Nat /\ h.top \in -1..MaxLevel
    BY <1>1, <1>2, <1>3 DEF GraphOk, Shaped
  <2> QED BY <1>2, <1>5, <1>6, <1>7, <2>1 DEF Shaped
<1>9. Live(g) = Ordinals(g) /\ Live(h) = Ordinals(g)
  <2>1. Live(g) = Ordinals(g)
    BY DEF Stale, Live
  <2> QED BY <1>2, <1>4, <1>6, <2>1 DEF Live
<1>10. NodesOnce(h)
  <2> SUFFICES ASSUME NEW i \in Ordinals(g), NEW j \in Ordinals(g), i < j,
                      h.nodes[i].id = h.nodes[j].id
               PROVE  FALSE
    BY <1>6 DEF NodesOnce
  <2>1. g.nodes[i].id = g.nodes[j].id
    BY <1>2, <1>4
  <2>2. i = j
    BY <1>9, <2>1, OneEach
  <2>3. i \in Int
    BY DEF Ordinals
  <2> QED BY <2>2, <2>3
<1>11. IndexRight(h)
  BY <1>2 DEF IndexRight
<1>12. PairsOf(h) = PairsOf(g)
  BY <1>2, <1>4, <1>9 DEF PairsOf, Vec
<1> QED BY <1>1, <1>2, <1>4, <1>5, <1>8, <1>10, <1>11, <1>12 DEF GraphOk, h, b

-----------------------------------------------------------------------------
(* The rows.                                                               *)

Row == [id : Id, vec : Vector, live : BOOLEAN]
RowsOnce == \A i, j \in LiveRows : arena[i].id = arena[j].id => i = j
RowsOk == arena \in Seq(Row) /\ RowsOnce /\ count = Cardinality(LiveRows)

LEMMA RowsFinite ==
    ASSUME RowsOk
    PROVE  /\ Len(arena) \in Nat /\ LiveRows \in SUBSET (1..Len(arena))
           /\ IsFiniteSet(LiveRows) /\ count \in Nat
           /\ \A i \in Rows : arena[i] \in Row
<1>1. Len(arena) \in Nat /\ \A i \in Rows : arena[i] \in Row
  BY DEF RowsOk, Rows
<1>2. LiveRows \in SUBSET (1..Len(arena))
  BY DEF LiveRows, Rows
<1>3. IsFiniteSet(1..Len(arena))
  BY <1>1, FS_Interval
<1>4. IsFiniteSet(LiveRows) /\ Cardinality(LiveRows) \in Nat
  BY <1>2, <1>3, FS_Subset, FS_CardinalityType
<1> QED BY <1>1, <1>2, <1>4 DEF RowsOk

LEMMA PackedRight ==
    ASSUME RowsOk
    PROVE  /\ Packed \in Seq([id : Id, vec : Vector, live : {TRUE}])
           /\ Len(Packed) = count /\ List(Packed)
           /\ Distinct(Packed) /\ PairsIn(Packed) = LivePairs
           /\ \A k \in 1..count : \E i \in LiveRows : Packed[k] = arena[i]
           /\ \A k, l \in 1..count : Packed[k] = Packed[l] => k = l
<1> DEFINE S == LiveRows
           nth(k) == CHOOSE i \in S : Cardinality({j \in S : j <= i}) = k
           c == Cardinality(S)
           items == Packed
           T == [id : Id, vec : Vector, live : {TRUE}]
<1>1. items = [k \in 1..c |-> arena[nth(k)]]
  BY DEF Packed
<1>2. /\ c \in Nat
      /\ \A k \in 1..c : nth(k) \in S
      /\ \A k, l \in 1..c : nth(k) = nth(l) => k = l
      /\ \A i \in S : \E k \in 1..c : nth(k) = i
  <2> DEFINE n == Len(arena)
  <2>1. n \in Nat /\ S \in SUBSET (1..n)
    BY RowsFinite
  <2> HIDE DEF S, n
  <2> QED BY <2>1, InOrder
<1> HIDE DEF S, nth, items, c
<1>3. c = count
  BY DEF RowsOk, c, S
<1>4. ASSUME NEW k \in 1..c PROVE nth(k) \in LiveRows /\ items[k] = arena[nth(k)]
  BY <1>1, <1>2 DEF S
<1>5. ASSUME NEW i \in LiveRows PROVE arena[i] \in T
  <2>1. arena[i] \in Row /\ arena[i].live
    BY RowsFinite DEF LiveRows
  <2> QED BY <2>1 DEF Row
<1>6. items \in Seq(T) /\ Len(items) = c
  <2>1. items \in [1..c -> T]
    BY <1>1, <1>4, <1>5
  <2> HIDE DEF T
  <2> QED BY <1>2, <2>1
<1>7. List(items)
  BY <1>6, ListOf
<1>8. ASSUME NEW k \in 1..c, NEW l \in 1..c, items[k].id = items[l].id PROVE k = l
  <2>1. nth(k) = nth(l)
    BY <1>4, <1>8 DEF RowsOk, RowsOnce
  <2> QED BY <1>2, <2>1
<1>9. Distinct(items)
  BY <1>6, <1>8 DEF Distinct
<1>10. PairsIn(items) = LivePairs
  <2>1. PairsIn(items) \subseteq LivePairs
    BY <1>4, <1>6 DEF PairsIn, LivePairs
  <2>2. ASSUME NEW i \in LiveRows PROVE <<arena[i].id, arena[i].vec>> \in PairsIn(items)
    <3>1. PICK k \in 1..c : nth(k) = i
      BY <1>2 DEF S
    <3> QED BY <1>4, <1>6, <3>1 DEF PairsIn
  <2> QED BY <2>1, <2>2 DEF LivePairs
<1> QED BY <1>3, <1>4, <1>6, <1>7, <1>8, <1>9, <1>10 DEF items

-----------------------------------------------------------------------------
(* The inductive invariant.                                                *)

\* What a whole file holds.
Stored(c) ==
    /\ c.rows \in Seq([id : Id, vec : Vector, live : {TRUE}]) /\ Distinct(c.rows)
    /\ c.count = Len(c.rows) /\ c.built \in BOOLEAN
    /\ c.built => /\ GraphOk(Deserialize(c.graph))
                  /\ PairsOf(Deserialize(c.graph)) = PairsIn(c.rows)

Typed == up \in BOOLEAN /\ built \in BOOLEAN /\ dropFloats \in BOOLEAN

\* The graph in use holds the live rows.
Agreed == built /\ ~graph.undefined => PairsOf(graph) = LivePairs

\* Nothing is left in memory without a store.
DownEmpty == ~up => arena = <<>> /\ ~built /\ graph = EmptyGraph /\ writing = <<>>

\* What is being written is the store as it is.
WritingOk ==
    writing # <<>> =>
        /\ Stored(writing[1]) /\ PairsIn(writing[1].rows) = LivePairs
        /\ writing[1].built = built /\ ~graph.undefined

DiskOk == disk \in {NoFile, Torn} \/ Stored(disk)

IInv ==
    /\ Typed /\ RowsOk /\ GraphOk(graph) /\ Agreed /\ DownEmpty /\ WritingOk /\ DiskOk

LEMMA EmptyOk ==
    /\ GraphOk(EmptyGraph) /\ PairsOf(EmptyGraph) = {} /\ EmptyGraph.undefined = FALSE
    /\ Ordinals(EmptyGraph) = {}
<1>1. Ordinals(EmptyGraph) = {} /\ EmptyGraph.undefined = FALSE
  BY DEF EmptyGraph, Ordinals
<1>2. NodesOnce(EmptyGraph) /\ PairsOf(EmptyGraph) = {}
  BY <1>1 DEF NodesOnce, PairsOf, Live
<1>3. IndexRight(EmptyGraph)
  BY DEF IndexRight, EmptyGraph
<1> QED BY <1>1, <1>2, <1>3, EmptyShaped DEF GraphOk

LEMMA NoRows ==
    ASSUME arena = <<>>
    PROVE  LiveRows = {} /\ LivePairs = {} /\ Rows = {}
<1>1. Rows = {}
  BY DEF Rows
<1> QED BY <1>1 DEF LiveRows, LivePairs

LEMMA InitOk == Init => IInv
<1> SUFFICES ASSUME Init PROVE IInv
  OBVIOUS
<1>1. arena = <<>> /\ graph = EmptyGraph /\ count = 0 /\ writing = <<>> /\ up = TRUE /\ built = FALSE
  BY DEF Init
<1>2. RowsOk
  <2>1. LiveRows = {}
    BY <1>1, NoRows
  <2>2. arena \in Seq(Row)
    BY <1>1
  <2> QED BY <1>1, <2>1, <2>2, FS_EmptySet DEF RowsOk, RowsOnce
<1>3. GraphOk(graph)
  BY <1>1, EmptyOk
<1>4. Typed
  BY <1>1, ConstantsAssumption DEF Init, Typed
<1>5. DiskOk
  BY DEF Init, DiskOk
<1>6. Agreed /\ DownEmpty /\ WritingOk
  BY <1>1 DEF Agreed, DownEmpty, WritingOk
<1> QED BY <1>2, <1>3, <1>4, <1>5, <1>6 DEF IInv

\* One row with the id, when there is one.
LEMMA OneRow ==
    ASSUME RowsOk, NEW id \in Id, RowOf(id) # {}
    PROVE  \E r \in LiveRows : RowOf(id) = {r} /\ arena[r].id = id
<1>1. PICK r \in LiveRows : arena[r].id = id
  BY DEF RowOf
<1>2. RowOf(id) = {r}
  BY <1>1 DEF RowOf, RowsOk, RowsOnce
<1> QED BY <1>1, <1>2

\* What an overwritten row does to the rows.
LEMMA ReplacedRows ==
    ASSUME RowsOk, NEW id \in Id, NEW vec \in Vector, RowOf(id) # {},
           arena' = [i \in Rows |-> IF i \in RowOf(id) THEN [arena[i] EXCEPT !.vec = vec]
                                                       ELSE arena[i]],
           count' = count
    PROVE  RowsOk' /\ LivePairs' = {p \in LivePairs : p[1] # id} \union {<<id, vec>>}
<1>1. PICK r \in LiveRows : RowOf(id) = {r} /\ arena[r].id = id
  BY OneRow
<1>2. Len(arena) \in Nat /\ \A i \in Rows : arena[i] \in Row
  BY RowsFinite
<1>3. ASSUME NEW i \in Rows
      PROVE  /\ arena'[i] \in Row /\ arena'[i].id = arena[i].id /\ arena'[i].live = arena[i].live
             /\ i = r => arena'[i].vec = vec
             /\ i # r => arena'[i] = arena[i]
  <2>1. CASE i = r
    <3>1. arena'[i] = [arena[i] EXCEPT !.vec = vec] /\ arena[i] \in Row
      BY <1>1, <1>2, <2>1
    <3> QED BY <2>1, <3>1 DEF Row
  <2>2. CASE i # r
    BY <1>1, <1>2, <2>2
  <2> QED BY <2>1, <2>2
<1>4. arena' \in Seq(Row) /\ Rows' = Rows
  <2> DEFINE n == Len(arena)
  <2>1. arena' \in [1..n -> Row]
    BY <1>3 DEF Rows
  <2> HIDE DEF n
  <2>2. n \in Nat
    BY <1>2 DEF n
  <2>3. arena' \in Seq(Row) /\ Len(arena') = n
    BY <2>1, <2>2, SeqOf
  <2> QED BY <2>3 DEF Rows, n
<1>5. LiveRows' = LiveRows
  BY <1>3, <1>4 DEF LiveRows
<1>6. RowsOk'
  <2>1. \A i \in LiveRows : arena'[i].id = arena[i].id
    BY <1>3 DEF LiveRows
  <2>2. RowsOnce'
    BY <1>5, <2>1 DEF RowsOnce, RowsOk
  <2> QED BY <1>4, <1>5, <2>2 DEF RowsOk
<1>7. LivePairs' = {<<arena'[i].id, arena'[i].vec>> : i \in LiveRows}
  BY <1>5 DEF LivePairs
<1>8. r \in Rows /\ LiveRows \subseteq Rows
  BY DEF LiveRows
<1>9. ASSUME NEW i \in LiveRows, i # r PROVE arena[i].id # id /\ arena'[i] = arena[i]
  BY <1>1, <1>3, <1>8, <1>9 DEF RowsOk, RowsOnce
<1>10. arena'[r].id = id /\ arena'[r].vec = vec
  BY <1>1, <1>3, <1>8
<1>11. LivePairs' \subseteq {p \in LivePairs : p[1] # id} \union {<<id, vec>>}
  <2> SUFFICES ASSUME NEW i \in LiveRows
               PROVE  <<arena'[i].id, arena'[i].vec>> \in {p \in LivePairs : p[1] # id} \union {<<id, vec>>}
    BY <1>7
  <2>1. CASE i = r
    BY <1>10, <2>1
  <2>2. CASE i # r
    BY <1>9, <2>2 DEF LivePairs
  <2> QED BY <2>1, <2>2
<1>12. {p \in LivePairs : p[1] # id} \union {<<id, vec>>} \subseteq LivePairs'
  <2>1. ASSUME NEW i \in LiveRows, arena[i].id # id PROVE <<arena[i].id, arena[i].vec>> \in LivePairs'
    <3>1. i # r
      BY <1>1, <2>1
    <3> QED BY <1>7, <1>9, <3>1
  <2>2. <<id, vec>> \in LivePairs'
    BY <1>7, <1>10
  <2>3. ASSUME NEW p \in LivePairs, p[1] # id PROVE p \in LivePairs'
    <3>1. PICK i \in LiveRows : p = <<arena[i].id, arena[i].vec>>
      BY DEF LivePairs
    <3>2. arena[i].id # id
      BY <2>3, <3>1
    <3> QED BY <2>1, <3>1, <3>2
  <2> QED BY <2>2, <2>3
<1> QED BY <1>6, <1>11, <1>12

\* A new row at the end.
LEMMA AddedRows ==
    ASSUME RowsOk, NEW id \in Id, NEW vec \in Vector, RowOf(id) = {},
           arena' = Append(arena, [id |-> id, vec |-> vec, live |-> TRUE]),
           count' = count + 1
    PROVE  RowsOk' /\ LivePairs' = {p \in LivePairs : p[1] # id} \union {<<id, vec>>}
<1> DEFINE row == [id |-> id, vec |-> vec, live |-> TRUE]
           n == Len(arena)
<1>1. n \in Nat /\ arena \in Seq(Row) /\ row \in Row /\ IsFiniteSet(LiveRows)
  BY RowsFinite DEF RowsOk, Row
<1>2. /\ arena' \in Seq(Row) /\ Len(arena') = n + 1 /\ arena'[n + 1] = row
      /\ \A i \in 1..n : arena'[i] = arena[i]
  <2> HIDE DEF row
  <2> QED BY <1>1 DEF row
<1>3. Rows' = Rows \union {n + 1} /\ n + 1 \notin Rows
  BY <1>1, <1>2 DEF Rows
<1>4. arena'[n + 1].id = id /\ arena'[n + 1].vec = vec /\ arena'[n + 1].live
  BY <1>2
<1>5. \A i \in Rows : arena'[i] = arena[i]
  BY <1>2 DEF Rows
<1> HIDE DEF n, row
<1>6. LiveRows' = LiveRows \union {n + 1} /\ n + 1 \notin LiveRows
  BY <1>3, <1>4, <1>5 DEF LiveRows
<1>7. \A i \in LiveRows : arena[i].id # id /\ arena'[i] = arena[i]
  BY <1>5 DEF RowOf, LiveRows
<1>8. RowsOnce'
  <2> SUFFICES ASSUME NEW i \in LiveRows', NEW j \in LiveRows', arena'[i].id = arena'[j].id
               PROVE  i = j
    BY DEF RowsOnce
  <2>1. CASE i = n + 1 \/ j = n + 1
    BY <1>4, <1>6, <1>7, <2>1
  <2>2. CASE i # n + 1 /\ j # n + 1
    <3>1. i \in LiveRows /\ j \in LiveRows
      BY <1>6, <2>2
    <3> QED BY <1>7, <3>1 DEF RowsOnce, RowsOk
  <2> QED BY <2>1, <2>2
<1>9. Cardinality(LiveRows') = count + 1
  BY <1>1, <1>6, FS_AddElement DEF RowsOk
<1>10. RowsOk'
  BY <1>2, <1>8, <1>9 DEF RowsOk
<1>11. LivePairs' = LivePairs \union {<<id, vec>>}
  <2>1. LivePairs' = {<<arena'[i].id, arena'[i].vec>> : i \in LiveRows \union {n + 1}}
    BY <1>6 DEF LivePairs
  <2>2. LivePairs' = {<<arena'[i].id, arena'[i].vec>> : i \in LiveRows} \union {<<id, vec>>}
    BY <1>4, <2>1
  <2>3. {<<arena'[i].id, arena'[i].vec>> : i \in LiveRows} = LivePairs
    BY <1>7 DEF LivePairs
  <2> QED BY <2>2, <2>3
<1>12. \A p \in LivePairs : p[1] # id
  BY <1>7 DEF LivePairs
<1> QED BY <1>10, <1>11, <1>12

\* A row that is no longer live.
LEMMA RemovedRows ==
    ASSUME RowsOk, NEW id \in Id, RowOf(id) # {},
           arena' = [i \in Rows |-> IF i \in RowOf(id) THEN [arena[i] EXCEPT !.live = FALSE]
                                                       ELSE arena[i]],
           count' = count - 1
    PROVE  RowsOk' /\ LivePairs' = {p \in LivePairs : p[1] # id}
<1>1. PICK r \in LiveRows : RowOf(id) = {r} /\ arena[r].id = id
  BY OneRow
<1>2. Len(arena) \in Nat /\ IsFiniteSet(LiveRows) /\ \A i \in Rows : arena[i] \in Row
  BY RowsFinite
<1>3. ASSUME NEW i \in Rows
      PROVE  /\ arena'[i] \in Row
             /\ i = r => ~arena'[i].live
             /\ i # r => arena'[i] = arena[i]
  <2>1. CASE i = r
    <3>1. arena'[i] = [arena[i] EXCEPT !.live = FALSE] /\ arena[i] \in Row
      BY <1>1, <1>2, <2>1
    <3> QED BY <2>1, <3>1 DEF Row
  <2>2. CASE i # r
    BY <1>1, <1>2, <2>2
  <2> QED BY <2>1, <2>2
<1>4. arena' \in Seq(Row) /\ Rows' = Rows
  <2> DEFINE n == Len(arena)
  <2>1. arena' \in [1..n -> Row]
    BY <1>3 DEF Rows
  <2> HIDE DEF n
  <2>2. n \in Nat
    BY <1>2 DEF n
  <2>3. arena' \in Seq(Row) /\ Len(arena') = n
    BY <2>1, <2>2, SeqOf
  <2> QED BY <2>3 DEF Rows, n
<1>5. LiveRows' = LiveRows \ {r} /\ \A i \in LiveRows \ {r} : arena'[i] = arena[i]
  BY <1>3, <1>4 DEF LiveRows
<1>6. \A i \in LiveRows \ {r} : arena[i].id # id
  BY <1>1 DEF RowsOk, RowsOnce
<1>7. RowsOk'
  <2>1. RowsOnce'
    <3> SUFFICES ASSUME NEW i \in LiveRows', NEW j \in LiveRows', arena'[i].id = arena'[j].id
                 PROVE  i = j
      BY DEF RowsOnce
    <3>1. i \in LiveRows /\ j \in LiveRows /\ arena[i].id = arena[j].id
      <4>1. i \in LiveRows \ {r} /\ j \in LiveRows \ {r}
        BY <1>5
      <4>2. arena'[i] = arena[i] /\ arena'[j] = arena[j]
        BY <1>5, <4>1
      <4> QED BY <4>1, <4>2
    <3>2. RowsOnce
      BY DEF RowsOk
    <3> QED BY <3>1, <3>2, Zenon DEF RowsOnce
  <2>2. Cardinality(LiveRows') = count - 1
    BY <1>2, <1>5, FS_RemoveElement DEF RowsOk
  <2> QED BY <1>4, <2>1, <2>2 DEF RowsOk
<1>8. LivePairs' = {<<arena[i].id, arena[i].vec>> : i \in LiveRows \ {r}}
  BY <1>5 DEF LivePairs
<1>9. LivePairs' = {p \in LivePairs : p[1] # id}
  <2>1. ASSUME NEW p \in LivePairs, p[1] # id PROVE p \in LivePairs'
    <3>1. PICK i \in LiveRows : p = <<arena[i].id, arena[i].vec>>
      BY DEF LivePairs
    <3>2. i # r
      BY <1>1, <2>1, <3>1
    <3> QED BY <1>8, <3>1, <3>2
  <2>2. ASSUME NEW p \in LivePairs' PROVE p \in LivePairs /\ p[1] # id
    <3>1. PICK i \in LiveRows \ {r} : p = <<arena[i].id, arena[i].vec>>
      BY <1>8
    <3> QED BY <1>6, <3>1 DEF LivePairs
  <2> QED BY <2>1, <2>2
<1> QED BY <1>7, <1>9

-----------------------------------------------------------------------------
(* Each step keeps the invariant.                                          *)

\* After an operation of the owner it is the rows and the graph that count.
LEMMA OwnerStep ==
    ASSUME IInv, Calm, up' = up, writing' = writing, disk' = disk, dropFloats' = dropFloats,
           built' \in BOOLEAN, RowsOk', GraphOk(graph'),
           built' /\ ~graph'.undefined => PairsOf(graph') = LivePairs'
    PROVE  IInv'
<1>1. up' = TRUE /\ writing' = <<>>
  BY DEF Calm, IInv, Typed
<1>2. Typed'
  BY <1>1 DEF IInv, Typed
<1>3. DownEmpty' /\ WritingOk'
  BY <1>1 DEF DownEmpty, WritingOk
<1>4. DiskOk'
  BY DEF IInv, DiskOk
<1>5. Agreed'
  BY DEF Agreed
<1>6. GraphOk(graph)'
  OBVIOUS
<1> QED BY <1>2, <1>3, <1>4, <1>5, <1>6 DEF IInv

LEMMA ReplaceOk ==
    ASSUME IInv, NEW id \in Id, NEW vec \in Vector, NEW level \in IF built THEN 0..MaxLevel ELSE {0},
           Replace(id, vec, level)
    PROVE  IInv' /\ LivePairs' = {p \in LivePairs : p[1] # id} \union {<<id, vec>>}
<1>1. RowsOk' /\ LivePairs' = {p \in LivePairs : p[1] # id} \union {<<id, vec>>}
  BY ReplacedRows DEF Replace, IInv
<1>2. GraphOk(graph') /\ (built' /\ ~graph'.undefined => PairsOf(graph') = LivePairs')
  <2>1. CASE built
    <3> DEFINE r == RemoveId(graph, id)
    <3>1. level \in 0..MaxLevel /\ graph' = Add(r, id, vec, level)
      BY <2>1 DEF Replace
    <3>2. GraphOk(r) /\ PairsOf(r) = {p \in PairsOf(graph) : p[1] # id}
      BY Removed DEF IInv
    <3> HIDE DEF r
    <3>3. GraphOk(graph') /\ PairsOf(graph') = {p \in PairsOf(r) : p[1] # id} \union {<<id, vec>>}
      BY <3>1, <3>2, Added, AddedPairs
    <3>4. PairsOf(graph) = LivePairs
      BY <2>1 DEF IInv, Agreed, Replace, CountWrite, Calm
    <3> QED BY <1>1, <3>2, <3>3, <3>4
  <2>2. CASE ~built
    BY <2>2 DEF Replace, IInv
  <2> QED BY <2>1, <2>2
<1>3. /\ Calm /\ up' = up /\ writing' = writing /\ disk' = disk /\ dropFloats' = dropFloats
      /\ built' \in BOOLEAN
  BY DEF Replace, CountWrite, IInv, Typed
<1>4. IInv'
  BY <1>1, <1>2, <1>3, OwnerStep
<1> QED BY <1>1, <1>4

LEMMA AddRowOk ==
    ASSUME IInv, NEW id \in Id, NEW vec \in Vector, NEW level \in IF built THEN 0..MaxLevel ELSE {0},
           AddRow(id, vec, level)
    PROVE  IInv' /\ LivePairs' = {p \in LivePairs : p[1] # id} \union {<<id, vec>>}
<1>1. RowsOk' /\ LivePairs' = {p \in LivePairs : p[1] # id} \union {<<id, vec>>}
  BY AddedRows DEF AddRow, IInv
<1>2. GraphOk(graph') /\ (built' /\ ~graph'.undefined => PairsOf(graph') = LivePairs')
  <2>1. CASE built
    <3>1. level \in 0..MaxLevel /\ graph' = Add(graph, id, vec, level)
      BY <2>1 DEF AddRow
    <3>2. GraphOk(graph)
      BY DEF IInv
    <3>3. GraphOk(graph') /\ PairsOf(graph') = {p \in PairsOf(graph) : p[1] # id} \union {<<id, vec>>}
      BY <3>1, <3>2, Added, AddedPairs
    <3>4. PairsOf(graph) = LivePairs
      BY <2>1 DEF IInv, Agreed, AddRow, CountWrite, Calm
    <3> QED BY <1>1, <3>3, <3>4
  <2>2. CASE ~built
    BY <2>2 DEF AddRow, IInv
  <2> QED BY <2>1, <2>2
<1>3. /\ Calm /\ up' = up /\ writing' = writing /\ disk' = disk /\ dropFloats' = dropFloats
      /\ built' \in BOOLEAN
  BY DEF AddRow, CountWrite, IInv, Typed
<1>4. IInv'
  BY <1>1, <1>2, <1>3, OwnerStep
<1> QED BY <1>1, <1>4

LEMMA RemoveRowOk ==
    ASSUME IInv, NEW id \in Id, RemoveRow(id)
    PROVE  /\ IInv' /\ LivePairs' = {p \in LivePairs : p[1] # id}
           /\ graph'.undefined = graph.undefined
<1>1. RowsOk' /\ LivePairs' = {p \in LivePairs : p[1] # id}
  BY RemovedRows DEF RemoveRow, IInv
<1>2. /\ GraphOk(graph') /\ (built' /\ ~graph'.undefined => PairsOf(graph') = LivePairs')
      /\ graph'.undefined = graph.undefined
  <2>1. CASE built
    <3>1. graph' = RemoveId(graph, id)
      BY <2>1 DEF RemoveRow
    <3>2. GraphOk(graph)
      BY DEF IInv
    <3>3. /\ GraphOk(graph') /\ PairsOf(graph') = {p \in PairsOf(graph) : p[1] # id}
          /\ graph'.undefined = graph.undefined
      BY <3>1, <3>2, Removed
    <3>4. PairsOf(graph) = LivePairs
      BY <2>1 DEF IInv, Agreed, RemoveRow, CountWrite, Calm
    <3> QED BY <1>1, <3>3, <3>4
  <2>2. CASE ~built
    BY <2>2 DEF RemoveRow, IInv
  <2> QED BY <2>1, <2>2
<1>3. /\ Calm /\ up' = up /\ writing' = writing /\ disk' = disk /\ dropFloats' = dropFloats
      /\ built' \in BOOLEAN
  BY DEF RemoveRow, CountWrite, IInv, Typed
<1>4. IInv'
  BY <1>1, <1>2, <1>3, OwnerStep
<1> QED BY <1>1, <1>2, <1>4

\* The rows and what is counted of them are left alone.
LEMMA SameRows ==
    ASSUME arena' = arena
    PROVE  LiveRows' = LiveRows /\ LivePairs' = LivePairs /\ (RowsOk /\ count' = count => RowsOk')
<1>1. Rows' = Rows
  BY DEF Rows
<1>2. LiveRows' = LiveRows
  BY <1>1 DEF LiveRows
<1> QED BY <1>2 DEF LivePairs, RowsOk, RowsOnce

LEMMA BuildOk ==
    ASSUME IInv, NEW levels \in Levels(IF built THEN 0 ELSE count), Build(levels)
    PROVE  IInv' /\ LivePairs' = LivePairs
<1>1. RowsOk' /\ LivePairs' = LivePairs
  BY SameRows DEF Build, IInv
<1>2. built' \in BOOLEAN
  BY DEF Build
<1>3. GraphOk(graph') /\ (built' /\ ~graph'.undefined => PairsOf(graph') = LivePairs')
  <2>1. CASE built' /\ ~built
    <3>1. graph' = BuildBatch(EmptyGraph, Packed, levels, dropFloats)
      BY <2>1 DEF Build
    <3>2. Batch(Packed, levels) /\ Distinct(Packed) /\ PairsIn(Packed) = LivePairs
      <4>1. /\ Packed \in Seq([id : Id, vec : Vector, live : {TRUE}])
            /\ Len(Packed) = count /\ List(Packed)
            /\ Distinct(Packed) /\ PairsIn(Packed) = LivePairs
        BY PackedRight DEF IInv
      <4>2. levels \in [1..count -> 0..MaxLevel]
        BY <2>1 DEF Levels
      <4>3. \A k \in 1..count : Packed[k] \in [id : Id, vec : Vector, live : {TRUE}]
        BY <4>1, ListOf
      <4> QED BY <4>1, <4>2, <4>3 DEF Batch
    <3>3. dropFloats \in BOOLEAN
      BY DEF IInv, Typed
    <3>4. GraphOk(graph') /\ PairsOf(graph') = PairsIn(Packed)
      BY <3>1, <3>2, <3>3, BuiltRight
    <3> QED BY <1>1, <3>2, <3>4
  <2>2. CASE ~(built' /\ ~built)
    <3>1. graph' = graph
      BY <2>2 DEF Build
    <3>2. built' => built
      BY <1>2, <2>2 DEF IInv, Typed
    <3> QED BY <1>1, <3>1, <3>2 DEF IInv, Agreed
  <2> QED BY <2>1, <2>2
<1>4. Calm /\ up' = up /\ writing' = writing /\ disk' = disk /\ dropFloats' = dropFloats
  BY DEF Build
<1>5. IInv'
  BY <1>1, <1>2, <1>3, <1>4, OwnerStep
<1> QED BY <1>1, <1>5

LEMMA FindOk ==
    ASSUME IInv, Find
    PROVE  IInv' /\ LivePairs' = LivePairs /\ graph'.undefined = graph.undefined
<1>1. RowsOk' /\ LivePairs' = LivePairs
  BY SameRows DEF Find, IInv
<1>2. Shaped(graph') /\ SameNodes(graph, graph') /\ graph'.undefined = graph.undefined
  <2>1. Shaped(graph) /\ dropFloats \in BOOLEAN /\ graph' = Seal(graph, dropFloats)
    BY DEF IInv, Typed, GraphOk, Find
  <2> QED BY <2>1, SealShaped
<1>3. GraphOk(graph') /\ PairsOf(graph') = PairsOf(graph)
  BY <1>2, OkKept, SamePairs DEF IInv
<1>4. built' \in BOOLEAN /\ (built' /\ ~graph'.undefined => PairsOf(graph') = LivePairs')
  BY <1>1, <1>2, <1>3 DEF IInv, Agreed, Find, Typed
<1>5. Calm /\ up' = up /\ writing' = writing /\ disk' = disk /\ dropFloats' = dropFloats
  BY DEF Find
<1>6. IInv'
  BY <1>1, <1>3, <1>4, <1>5, OwnerStep
<1> QED BY <1>1, <1>2, <1>6

\* A graph just compacted has nothing to reclaim.
LEMMA CompactedClean ==
    ASSUME NEW g, GraphOk(g), NEW levels, NEW d \in BOOLEAN,
           Stale(g) => \A k \in 1..Cardinality(Live(g)) : levels[k] \in 0..MaxLevel,
           ~Compact(g, levels, d).undefined
    PROVE  ~Stale(Compact(g, levels, d))
<1> DEFINE h == Compact(g, levels, d)
           items == Survivors(g)
<1>1. CASE h = g /\ ~Stale(g)
  BY <1>1
<1>2. CASE h = Undefined(g)
  BY <1>2, UndefinedShaped DEF GraphOk
<1>3. CASE h = BuildBatch(EmptyGraph, items, levels, d) /\ Stale(g)
  <2>1. Batch(items, levels)
    BY <1>3, SurvivorsRight DEF Batch
  <2> HIDE DEF items, h
  <2>2. /\ h.deleted = {} /\ Len(h.nodes) = Len(items)
        /\ \A k \in 1..Len(items) :
               h.nodes[k] = NewNode(items[k].id, items[k].vec, levels[k])
    BY <1>3, <2>1, BuiltShaped
  <2>3. ASSUME NEW k \in Ordinals(h) PROVE ~h.nodes[k].superseded
    <3>1. h.nodes[k] = NewNode(items[k].id, items[k].vec, levels[k])
      BY <2>2 DEF Ordinals
    <3> QED BY <3>1 DEF NewNode
  <2>4. ~Stale(h)
    BY <2>2, <2>3 DEF Stale
  <2> QED BY <2>4 DEF h
<1>4. CASE ~Stale(g)
  BY <1>4 DEF Compact
<1> QED BY <1>1, <1>2, <1>3, <1>4, Compacted

\* As many survivors as there are live rows.
LEMMA AsManyLive ==
    ASSUME IInv, built, ~graph.undefined
    PROVE  Cardinality(Live(graph)) = Cardinality(LiveRows)
<1> DEFINE f == [i \in Live(graph) |-> CHOOSE r \in LiveRows : arena[r].id = graph.nodes[i].id]
<1>1. PairsOf(graph) = LivePairs
  BY DEF IInv, Agreed
<1>2. ASSUME NEW i \in Live(graph)
      PROVE  f[i] \in LiveRows /\ arena[f[i]].id = graph.nodes[i].id
  <2>1. <<graph.nodes[i].id, Vec(graph, i)>> \in LivePairs
    BY <1>1 DEF PairsOf
  <2>2. \E r \in LiveRows : arena[r].id = graph.nodes[i].id
    BY <2>1 DEF LivePairs
  <2> QED BY <2>2
<1>3. f \in [Live(graph) -> LiveRows]
  BY <1>2
<1> HIDE DEF f
<1>4. \A i, j \in Live(graph) : f[i] = f[j] => i = j
  <2> SUFFICES ASSUME NEW i \in Live(graph), NEW j \in Live(graph), f[i] = f[j] PROVE i = j
    OBVIOUS
  <2>1. graph.nodes[i].id = graph.nodes[j].id
    BY <1>2
  <2> QED BY <2>1, OneEach DEF IInv
<1>5. f \in Injection(Live(graph), LiveRows)
  BY <1>3, <1>4, Fun_IsInj
<1>6. ASSUME NEW r \in LiveRows PROVE \E i \in Live(graph) : f[i] = r
  <2>1. <<arena[r].id, arena[r].vec>> \in PairsOf(graph)
    BY <1>1 DEF LivePairs
  <2>2. PICK i \in Live(graph) : graph.nodes[i].id = arena[r].id
    BY <2>1 DEF PairsOf
  <2>3. f[i] = r
    BY <1>2, <2>2 DEF IInv, RowsOk, RowsOnce
  <2> QED BY <2>3
<1>7. f \in Surjection(Live(graph), LiveRows)
  BY <1>3, <1>6, Fun_IsSurj
<1>8. IsFiniteSet(LiveRows)
  BY RowsFinite DEF IInv
<1> QED BY <1>5, <1>7, <1>8, FS_Injection

LEMMA SaveOk ==
    ASSUME IInv, NEW levels \in Levels(IF built /\ Stale(graph) THEN count ELSE 0), Save(levels)
    PROVE  /\ IInv' /\ LivePairs' = LivePairs
           /\ \/ graph'.undefined /\ disk' = disk
              \/ ~graph'.undefined /\ (disk' = disk \/ disk' = Torn)
<1> DEFINE c == IF built THEN Compact(graph, levels, dropFloats) ELSE graph
<1>1. /\ Calm /\ writing = <<>> /\ ~graph.undefined /\ up
      /\ up' = up /\ arena' = arena /\ count' = count /\ built' = built /\ dropFloats' = dropFloats
      /\ IF c.undefined \/ (built /\ ~SerializeReads(c))
         THEN graph' = Undefined(c) /\ writing' = writing /\ disk' = disk
         ELSE /\ graph' = IF built THEN WithLinks(c) ELSE c
              /\ \/ writing' = <<Content(c)>> /\ disk' = Torn
                 \/ writing' = writing /\ disk' = disk
  BY DEF Save, Calm
<1>2. RowsOk' /\ LivePairs' = LivePairs
  BY <1>1, SameRows DEF IInv
<1>3. built =>
        /\ GraphOk(graph) /\ dropFloats \in BOOLEAN
        /\ Stale(graph) => \A k \in 1..Cardinality(Live(graph)) : levels[k] \in 0..MaxLevel
  <2> SUFFICES ASSUME built
               PROVE  /\ GraphOk(graph) /\ dropFloats \in BOOLEAN
                      /\ Stale(graph) => \A k \in 1..Cardinality(Live(graph)) : levels[k] \in 0..MaxLevel
    OBVIOUS
  <2>1. Cardinality(Live(graph)) = count
    BY <1>1, AsManyLive DEF IInv, RowsOk
  <2>2. Stale(graph) => levels \in [1..count -> 0..MaxLevel]
    BY DEF Levels
  <2> QED BY <2>1, <2>2 DEF IInv, Typed
<1>4. GraphOk(c) /\ (built /\ ~c.undefined => PairsOf(c) = LivePairs /\ ~Stale(c))
  <2>1. CASE built
    <3>1. c = Compact(graph, levels, dropFloats)
      BY <2>1
    <3> HIDE DEF c
    <3>2. GraphOk(c) /\ PairsOf(c) = PairsOf(graph)
      BY <1>3, <2>1, <3>1, Compacted
    <3>3. ~c.undefined => ~Stale(c)
      BY <1>3, <2>1, <3>1, CompactedClean
    <3> QED BY <1>1, <2>1, <3>2, <3>3 DEF IInv, Agreed
  <2>2. CASE ~built
    BY <2>2 DEF IInv
  <2> QED BY <2>1, <2>2
<1> HIDE DEF c
<1>5. CASE c.undefined \/ (built /\ ~SerializeReads(c))
  <2>1. graph' = Undefined(c) /\ writing' = <<>> /\ disk' = disk
    BY <1>1, <1>5
  <2>2. Shaped(Undefined(c)) /\ SameNodes(c, Undefined(c)) /\ Undefined(c).undefined = TRUE
    BY <1>4, UndefinedShaped DEF GraphOk
  <2>3. GraphOk(graph') /\ graph'.undefined
    BY <1>4, <2>1, <2>2, OkKept
  <2>4. IInv'
    BY <1>1, <1>2, <2>1, <2>3, OwnerStep DEF IInv, Typed
  <2> QED BY <1>2, <2>1, <2>3, <2>4
<1>6. CASE ~(c.undefined \/ (built /\ ~SerializeReads(c)))
  <2>1. graph' = IF built THEN WithLinks(c) ELSE c
    BY <1>1, <1>6
  <2>2. GraphOk(graph') /\ SameNodes(c, graph') /\ graph'.undefined = c.undefined
    <3>1. GraphOk(WithLinks(c)) /\ SameNodes(c, WithLinks(c)) /\ WithLinks(c).undefined = c.undefined
      BY <1>4, WithLinksOk
    <3>2. SameNodes(c, c)
      BY DEF SameNodes
    <3> QED BY <1>4, <2>1, <3>1, <3>2
  <2>3. ~graph'.undefined /\ PairsOf(graph') = PairsOf(c)
    BY <1>6, <2>2, SamePairs
  <2>4. CASE writing' = writing /\ disk' = disk
    <3>1. IInv'
      BY <1>1, <1>2, <1>4, <1>6, <2>2, <2>3, <2>4, OwnerStep DEF IInv, Typed
    <3> QED BY <1>2, <2>3, <2>4, <3>1
  <2>5. CASE writing' = <<Content(c)>> /\ disk' = Torn
    <3> DEFINE k == Content(c)
    <3>1. /\ Packed \in Seq([id : Id, vec : Vector, live : {TRUE}])
          /\ Len(Packed) = count
          /\ Distinct(Packed) /\ PairsIn(Packed) = LivePairs
      BY PackedRight DEF IInv
    <3>2. k.rows = Packed /\ k.count = count /\ k.built = built
          /\ (built => k.graph = Serialize(c))
      BY DEF Content
    <3>3. built => GraphOk(Deserialize(k.graph)) /\ PairsOf(Deserialize(k.graph)) = LivePairs
      <4> SUFFICES ASSUME built
                   PROVE  GraphOk(Deserialize(k.graph)) /\ PairsOf(Deserialize(k.graph)) = LivePairs
        OBVIOUS
      <4>1. ~Stale(c) /\ PairsOf(c) = LivePairs
        BY <1>4, <1>6
      <4> HIDE DEF k
      <4> QED BY <1>4, <3>2, <4>1, Restored
    <3> HIDE DEF k
    <3>4. built \in BOOLEAN
      BY DEF IInv, Typed
    <3>5. Stored(k)
      BY <3>1, <3>2, <3>3, <3>4 DEF Stored
    <3>6. writing' # <<>> /\ writing'[1] = k
      BY <2>5 DEF k
    <3>7. WritingOk'
      BY <1>1, <1>2, <2>3, <3>1, <3>2, <3>5, <3>6 DEF WritingOk
    <3>8. DiskOk'
      BY <2>5 DEF DiskOk
    <3>9. Typed' /\ DownEmpty'
      BY <1>1 DEF IInv, Typed, DownEmpty
    <3>10. Agreed'
      BY <1>1, <1>2, <1>4, <1>6, <2>3 DEF Agreed
    <3>11. GraphOk(graph)'
      BY <2>2
    <3>12. IInv'
      BY <1>2, <3>7, <3>8, <3>9, <3>10, <3>11 DEF IInv
    <3> QED BY <1>2, <2>3, <2>5, <3>12
  <2> QED BY <1>1, <1>6, <2>4, <2>5
<1> QED BY <1>5, <1>6

LEMMA WrittenOk ==
    ASSUME IInv, Written
    PROVE  /\ IInv' /\ LivePairs' = LivePairs
           /\ graph' = graph /\ up' = up /\ up /\ built' = built /\ ~graph.undefined
           /\ disk' \in {NoFile, Torn} \/ PairsIn(disk'.rows) = LivePairs
<1>1. /\ up /\ writing # <<>> /\ disk' \in {writing[1], Torn} /\ writing' = <<>>
      /\ arena' = arena /\ count' = count /\ graph' = graph /\ up' = up /\ built' = built
      /\ dropFloats' = dropFloats
  BY DEF Written
<1>2. Stored(writing[1]) /\ PairsIn(writing[1].rows) = LivePairs /\ ~graph.undefined
  BY <1>1 DEF IInv, WritingOk
<1>3. RowsOk' /\ LivePairs' = LivePairs
  BY <1>1, SameRows DEF IInv
<1>4. DiskOk'
  BY <1>1, <1>2 DEF DiskOk
<1>5. Typed' /\ DownEmpty' /\ WritingOk'
  BY <1>1 DEF IInv, Typed, DownEmpty, WritingOk
<1>6. Agreed' /\ GraphOk(graph)'
  BY <1>1, <1>3 DEF IInv, Agreed
<1>7. IInv'
  BY <1>3, <1>4, <1>5, <1>6 DEF IInv
<1> QED BY <1>1, <1>2, <1>3, <1>7

LEMMA CrashOk ==
    ASSUME IInv, Crash
    PROVE  IInv' /\ up' = FALSE /\ disk' = disk
<1>1. /\ up' = FALSE /\ arena' = <<>> /\ count' = 0 /\ built' = FALSE /\ graph' = EmptyGraph
      /\ writing' = <<>> /\ dropFloats' = dropFloats /\ disk' = disk
  BY DEF Crash
<1>2. RowsOk'
  <2>1. Rows' = {} /\ LiveRows' = {}
    <3>1. Rows' = {}
      BY <1>1 DEF Rows
    <3> QED BY <3>1 DEF LiveRows
  <2>2. arena' \in Seq(Row)
    BY <1>1
  <2> QED BY <1>1, <2>1, <2>2, FS_EmptySet DEF RowsOk, RowsOnce
<1>3. GraphOk(graph)'
  BY <1>1, EmptyOk
<1>4. Typed' /\ DownEmpty' /\ WritingOk' /\ Agreed'
  BY <1>1 DEF IInv, Typed, DownEmpty, WritingOk, Agreed
<1>5. DiskOk'
  BY <1>1 DEF IInv, DiskOk
<1> QED BY <1>1, <1>2, <1>3, <1>4, <1>5 DEF IInv

LEMMA LoadOk ==
    ASSUME IInv, Load
    PROVE  IInv' /\ up' = TRUE /\ ~graph'.undefined /\ LivePairs' = PairsIn(disk.rows) /\ disk' = disk
<1>1. /\ ~up /\ disk \notin {NoFile, Torn} /\ up' = TRUE
      /\ arena' = disk.rows /\ count' = disk.count /\ built' = disk.built
      /\ graph' = IF disk.built THEN Deserialize(disk.graph) ELSE EmptyGraph
      /\ dropFloats' = dropFloats /\ writing' = writing /\ disk' = disk
  BY DEF Load
<1>2. Stored(disk) /\ writing = <<>>
  BY <1>1 DEF IInv, DiskOk, DownEmpty
<1> DEFINE rows == disk.rows
           n == Len(rows)
<1>3. n \in Nat /\ rows \in Seq(Row) /\ \A k \in 1..n : rows[k] \in Row /\ rows[k].live
  <2>1. rows \in Seq([id : Id, vec : Vector, live : {TRUE}])
    BY <1>2 DEF Stored
  <2>2. \A k \in 1..n : rows[k] \in [id : Id, vec : Vector, live : {TRUE}]
    BY <2>1, ListOf
  <2>3. \A k \in 1..n : rows[k] \in Row /\ rows[k].live
    BY <2>2 DEF Row
  <2>4. n \in Nat /\ rows = [k \in 1..n |-> rows[k]]
    BY <2>1
  <2> HIDE DEF rows, n
  <2>5. rows \in [1..n -> Row]
    BY <2>3, <2>4
  <2>6. rows \in Seq(Row)
    BY <2>4, <2>5, SeqOf
  <2> QED BY <2>3, <2>4, <2>6
<1>4. LiveRows' = 1..n
  BY <1>1, <1>3 DEF LiveRows, Rows
<1>5. LivePairs' = PairsIn(rows)
  BY <1>1, <1>4 DEF LivePairs, PairsIn
<1>6. RowsOk'
  <2>1. Cardinality(1..n) = n
    BY <1>3, FS_Interval
  <2>2. RowsOnce'
    <3> SUFFICES ASSUME NEW i \in LiveRows', NEW j \in LiveRows', arena'[i].id = arena'[j].id
                 PROVE  i = j
      BY DEF RowsOnce
    <3> QED BY <1>1, <1>2, <1>4 DEF Stored, Distinct
  <2>3. count' = n
    BY <1>1, <1>2 DEF Stored
  <2> QED BY <1>1, <1>3, <1>4, <2>1, <2>2, <2>3 DEF RowsOk
<1>7. /\ GraphOk(graph') /\ ~graph'.undefined
      /\ built' => PairsOf(graph') = LivePairs'
  <2>1. CASE disk.built
    <3>1. graph' = Deserialize(disk.graph)
      BY <1>1, <2>1
    <3>2. graph'.undefined = FALSE
      BY <3>1 DEF Deserialize, EmptyGraph
    <3>3. GraphOk(graph') /\ PairsOf(graph') = PairsIn(rows)
      BY <1>2, <2>1, <3>1 DEF Stored
    <3> QED BY <1>5, <3>2, <3>3
  <2>2. CASE ~disk.built
    BY <1>1, <2>2, EmptyOk
  <2> QED BY <2>1, <2>2
<1>8. Typed' /\ DownEmpty' /\ WritingOk' /\ DiskOk'
  BY <1>1, <1>2 DEF IInv, Typed, DownEmpty, WritingOk, DiskOk, Stored
<1>9. Agreed' /\ GraphOk(graph)'
  BY <1>7 DEF Agreed
<1> QED BY <1>1, <1>5, <1>6, <1>7, <1>8, <1>9 DEF IInv

LEMMA CreateOk ==
    ASSUME IInv, Create
    PROVE  IInv' /\ ~up /\ up' = TRUE /\ ~graph'.undefined /\ LivePairs' = {} /\ disk' = disk
<1>1. /\ ~up /\ up' = TRUE /\ arena' = arena /\ count' = count /\ built' = built /\ graph' = graph
      /\ dropFloats' = dropFloats /\ writing' = writing /\ disk' = disk
  BY DEF Create
<1>2. arena = <<>> /\ ~built /\ graph = EmptyGraph /\ writing = <<>>
  BY <1>1 DEF IInv, DownEmpty
<1>3. RowsOk' /\ LivePairs' = {}
  BY <1>1, <1>2, SameRows, NoRows DEF IInv
<1>4. Typed' /\ DownEmpty' /\ WritingOk' /\ DiskOk' /\ Agreed'
  BY <1>1, <1>2 DEF IInv, Typed, DownEmpty, WritingOk, DiskOk, Agreed
<1>5. GraphOk(graph)' /\ ~graph'.undefined
  BY <1>1, <1>2, EmptyOk
<1> QED BY <1>1, <1>3, <1>4, <1>5 DEF IInv

LEMMA NextOk == IInv /\ [Next]_vars => IInv'
<1> SUFFICES ASSUME IInv, [Next]_vars PROVE IInv'
  OBVIOUS
<1>1. CASE Next
  <2>1. ASSUME NEW id \in Id, NEW vec \in Vector, NEW level \in IF built THEN 0..MaxLevel ELSE {0},
               Replace(id, vec, level) \/ AddRow(id, vec, level)
        PROVE  IInv'
    BY <2>1, ReplaceOk, AddRowOk
  <2>2. ASSUME NEW id \in Id, RemoveRow(id) PROVE IInv'
    BY <2>2, RemoveRowOk
  <2>3. ASSUME NEW levels \in Levels(IF built THEN 0 ELSE count), Build(levels) PROVE IInv'
    BY <2>3, BuildOk
  <2>4. ASSUME NEW levels \in Levels(IF built /\ Stale(graph) THEN count ELSE 0), Save(levels)
        PROVE  IInv'
    BY <2>4, SaveOk
  <2>5. CASE Find \/ Written \/ Crash \/ Load \/ Create
    BY <2>5, FindOk, WrittenOk, CrashOk, LoadOk, CreateOk
  <2> QED BY <1>1, <2>1, <2>2, <2>3, <2>4, <2>5 DEF Next
<1>2. CASE UNCHANGED vars
  <2>1. /\ up' = up /\ arena' = arena /\ count' = count /\ built' = built /\ graph' = graph
        /\ dropFloats' = dropFloats /\ writing' = writing /\ disk' = disk
    BY <1>2 DEF vars
  <2>2. RowsOk' /\ LivePairs' = LivePairs
    BY <2>1, SameRows DEF IInv
  <2>3. Typed' /\ DownEmpty' /\ WritingOk' /\ DiskOk' /\ Agreed' /\ GraphOk(graph)'
    BY <2>1, <2>2 DEF IInv, Typed, DownEmpty, WritingOk, DiskOk, Agreed
  <2> QED BY <2>2, <2>3 DEF IInv
<1> QED BY <1>1, <1>2

\* The rows, the graph and the file keep their shapes and agree in every
\* behaviour of the store.
THEOREM Invariance == Spec => []IInv
BY InitOk, NextOk, PTL DEF Spec

\* The variables have their types, the row count is the number of live rows,
\* and the index of the ids points at nodes of these ids.
THEOREM TypeCorrect == Spec => []TypeOK
<1>1. IInv => TypeOK
  <2> SUFFICES ASSUME IInv PROVE TypeOK
    OBVIOUS
  <2>1. up \in BOOLEAN /\ built \in BOOLEAN /\ arena \in Seq([id : Id, vec : Vector, live : BOOLEAN])
        /\ count = Cardinality(LiveRows)
    BY DEF IInv, Typed, RowsOk, Row
  <2>2. /\ graph.nodes \in Seq(Node) /\ Len(graph.links) = Len(graph.nodes)
        /\ graph.sealed => graph.links \in {[i \in Ordinals(graph) |-> <<>>], Unpacked(graph)}
        /\ ~graph.sealed => graph.csr = <<>>
        /\ graph.top \in -1..MaxLevel /\ graph.deleted \subseteq Id
    BY DEF IInv, GraphOk, Shaped
  <2>3. \A id \in DOMAIN graph.ords : graph.nodes[graph.ords[id]].id = id
    BY DEF IInv, GraphOk, IndexRight, Shaped
  <2>4. built \/ writing = <<>> \/ ~writing[1].built
    BY DEF IInv, WritingOk
  <2> QED BY <2>1, <2>2, <2>3, <2>4 DEF TypeOK
<1> QED BY <1>1, Invariance, PTL

\* The graph in use holds exactly the live rows, one node each: what was
\* overwritten or removed never comes back, and no row is left out.
THEOREM GraphRight == Spec => []GraphAgrees
<1>1. IInv => GraphAgrees
  <2> SUFFICES ASSUME IInv, built, ~graph.undefined
               PROVE  GraphPairs = LivePairs /\ Cardinality(Live(graph)) = Cardinality(LiveRows)
    BY DEF GraphAgrees
  <2>1. GraphPairs = LivePairs
    BY DEF IInv, Agreed, PairsOf, GraphPairs
  <2> QED BY <2>1, AsManyLive
<1> QED BY <1>1, Invariance, PTL

-----------------------------------------------------------------------------
(* The store is a map.                                                     *)

\* Pairs of which no two have the same id.
Single(pairs) ==
    /\ pairs \subseteq Id \X Vector
    /\ \A p, q \in pairs : p[1] = q[1] => p = q

MapNow == IF up /\ ~graph.undefined THEN AsMap(LivePairs) ELSE Torn
SavedNow == IF disk \in {NoFile, Torn} THEN NoFile ELSE AsMap(PairsIn(disk.rows))

LEMMA MapIs ==
    ASSUME IInv
    PROVE  /\ (IF up /\ ~graph.undefined THEN AsMap(IF built THEN GraphPairs ELSE LivePairs) ELSE Torn)
                = MapNow
           /\ (IF disk \in {NoFile, Torn} THEN NoFile ELSE AsMap(RowsOf(disk))) = SavedNow
<1>1. built /\ ~graph.undefined => GraphPairs = LivePairs
  BY DEF IInv, Agreed, PairsOf, GraphPairs
<1>2. RowsOf(disk) = PairsIn(disk.rows)
  BY DEF RowsOf, PairsIn
<1> QED BY <1>1, <1>2 DEF MapNow, SavedNow

LEMMA MapFits ==
    ASSUME NEW pairs, Single(pairs)
    PROVE  AsMap(pairs) \notin {NoFile, Torn}
<1> DEFINE ids == {p[1] : p \in pairs}
           vecs == {{vec} : vec \in Vector}
<1>1. ids \in SUBSET Id
  BY DEF Single
<1>2. ASSUME NEW id \in ids PROVE {p[2] : p \in {r \in pairs : r[1] = id}} \in vecs
  <2>1. PICK p \in pairs : p[1] = id
    OBVIOUS
  <2>2. {r \in pairs : r[1] = id} = {p}
    BY <2>1 DEF Single
  <2>3. p[2] \in Vector
    BY <2>1 DEF Single
  <2> QED BY <2>2, <2>3
<1>3. AsMap(pairs) \in [ids -> vecs]
  BY <1>2 DEF AsMap
<1> HIDE DEF ids
<1> QED BY <1>1, <1>3, MarksAssumption

LEMMA LiveSingle ==
    ASSUME RowsOk
    PROVE  Single(LivePairs)
<1>1. \A i \in LiveRows : arena[i].id \in Id /\ arena[i].vec \in Vector
  BY RowsFinite DEF LiveRows, Row
<1>2. LivePairs \subseteq Id \X Vector
  BY <1>1 DEF LivePairs
<1>3. ASSUME NEW p \in LivePairs, NEW q \in LivePairs, p[1] = q[1] PROVE p = q
  <2>1. PICK i \in LiveRows : p = <<arena[i].id, arena[i].vec>>
    BY DEF LivePairs
  <2>2. PICK j \in LiveRows : q = <<arena[j].id, arena[j].vec>>
    BY DEF LivePairs
  <2>3. i = j
    BY <1>3, <2>1, <2>2 DEF RowsOk, RowsOnce
  <2> QED BY <2>1, <2>2, <2>3
<1> QED BY <1>2, <1>3 DEF Single

LEMMA StoredSingle ==
    ASSUME NEW c, Stored(c)
    PROVE  Single(PairsIn(c.rows))
<1>1. \A k \in 1..Len(c.rows) : c.rows[k].id \in Id /\ c.rows[k].vec \in Vector
  <2>1. c.rows \in Seq([id : Id, vec : Vector, live : {TRUE}])
    BY DEF Stored
  <2>2. \A k \in 1..Len(c.rows) : c.rows[k] \in [id : Id, vec : Vector, live : {TRUE}]
    BY <2>1, ListOf
  <2> QED BY <2>2
<1>2. PairsIn(c.rows) \subseteq Id \X Vector
  BY <1>1 DEF PairsIn
<1>3. ASSUME NEW p \in PairsIn(c.rows), NEW q \in PairsIn(c.rows), p[1] = q[1] PROVE p = q
  <2>1. PICK i \in 1..Len(c.rows) : p = <<c.rows[i].id, c.rows[i].vec>>
    BY DEF PairsIn
  <2>2. PICK j \in 1..Len(c.rows) : q = <<c.rows[j].id, c.rows[j].vec>>
    BY DEF PairsIn
  <2>3. i = j
    BY <1>3, <2>1, <2>2 DEF Stored, Distinct
  <2> QED BY <2>1, <2>2, <2>3
<1> QED BY <1>2, <1>3 DEF Single

With(pairs, id, vec) == {p \in pairs : p[1] # id} \union {<<id, vec>>}

PutIn(m, id, vecs) == [x \in DOMAIN m \union {id} |-> IF x = id THEN vecs ELSE m[x]]

LEMMA MapPut ==
    ASSUME NEW pairs, NEW id, NEW vec
    PROVE  AsMap(With(pairs, id, vec)) = PutIn(AsMap(pairs), id, {vec})
<1> DEFINE more == {p \in pairs : p[1] # id} \union {<<id, vec>>}
           ids == {p[1] : p \in pairs}
           of(ps, x) == {p[2] : p \in {r \in ps : r[1] = x}}
<1>1. {p[1] : p \in more} = ids \union {id}
  <2>1. <<id, vec>> \in more /\ <<id, vec>>[1] = id
    OBVIOUS
  <2>2. \A p \in more : p[1] = id \/ p \in pairs
    OBVIOUS
  <2>3. \A p \in pairs : p[1] # id => p \in more
    OBVIOUS
  <2> HIDE DEF more
  <2> QED BY <2>1, <2>2, <2>3
<1>2. ASSUME NEW x \in ids \union {id}
      PROVE  of(more, x) = IF x = id THEN {vec} ELSE of(pairs, x)
  <2>1. CASE x = id
    <3>1. {r \in more : r[1] = x} = {<<id, vec>>}
      BY <2>1
    <3>2. {p[2] : p \in {<<id, vec>>}} = {vec}
      OBVIOUS
    <3>3. of(more, x) = {p[2] : p \in {<<id, vec>>}}
      BY <3>1
    <3> QED BY <2>1, <3>2, <3>3
  <2>2. CASE x # id
    <3>1. {r \in more : r[1] = x} = {r \in pairs : r[1] = x}
      BY <2>2
    <3> QED BY <2>2, <3>1
  <2> QED BY <2>1, <2>2
<1>3. AsMap(pairs) = [x \in ids |-> of(pairs, x)]
  BY DEF AsMap
<1>4. AsMap(more) = [x \in ids \union {id} |-> of(more, x)]
  BY <1>1 DEF AsMap
<1> HIDE DEF more, ids, of
<1>5. DOMAIN AsMap(pairs) = ids /\ \A x \in ids : AsMap(pairs)[x] = of(pairs, x)
  BY <1>3
<1>6. AsMap(more) = [x \in DOMAIN AsMap(pairs) \union {id} |->
                        IF x = id THEN {vec} ELSE AsMap(pairs)[x]]
  BY <1>2, <1>4, <1>5
<1> QED BY <1>6 DEF more, With, PutIn

LEMMA MapDrop ==
    ASSUME NEW pairs, NEW id
    PROVE  AsMap({p \in pairs : p[1] # id})
             = [x \in DOMAIN AsMap(pairs) \ {id} |-> AsMap(pairs)[x]]
<1> DEFINE less == {p \in pairs : p[1] # id}
           ids == {p[1] : p \in pairs}
           of(ps, x) == {p[2] : p \in {r \in ps : r[1] = x}}
<1>1. {p[1] : p \in less} = ids \ {id}
  OBVIOUS
<1>2. ASSUME NEW x \in ids \ {id} PROVE of(less, x) = of(pairs, x)
  <2>1. {r \in less : r[1] = x} = {r \in pairs : r[1] = x}
    BY <1>2
  <2> QED BY <2>1
<1>3. AsMap(pairs) = [x \in ids |-> of(pairs, x)]
  BY DEF AsMap
<1>4. AsMap(less) = [x \in ids \ {id} |-> of(less, x)]
  BY <1>1 DEF AsMap
<1> HIDE DEF less, ids, of
<1>5. DOMAIN AsMap(pairs) = ids /\ \A x \in ids : AsMap(pairs)[x] = of(pairs, x)
  BY <1>3
<1>6. AsMap(less) = [x \in DOMAIN AsMap(pairs) \ {id} |-> AsMap(pairs)[x]]
  BY <1>2, <1>4, <1>5
<1> QED BY <1>6 DEF less

LEMMA MapNone == AsMap({}) = <<>>
BY DEF AsMap

\* Each step is one of the map, or leaves it alone.
LEMMA MapStep ==
    ASSUME IInv, IInv', [Next]_vars
    PROVE  [Map!Next]_(Map!vars)
<1> DEFINE Closes == MapNow' = Torn /\ SavedNow' = SavedNow
           Stays == MapNow' = MapNow /\ SavedNow' = SavedNow
           Puts == \E id \in Id, vec \in {{v} : v \in Vector} :
                       /\ MapNow # Torn
                       /\ MapNow' = [x \in DOMAIN MapNow \union {id} |->
                                        IF x = id THEN vec ELSE MapNow[x]]
                       /\ SavedNow' = SavedNow
           Drops == \E id \in Id :
                       /\ MapNow # Torn
                       /\ MapNow' = [x \in DOMAIN MapNow \ {id} |-> MapNow[x]]
                       /\ SavedNow' = SavedNow
           Starts == MapNow # Torn /\ SavedNow' = NoFile /\ MapNow' = MapNow
           Ends == MapNow # Torn /\ SavedNow' = MapNow /\ MapNow' = MapNow
           Loads == MapNow = Torn /\ SavedNow # NoFile /\ MapNow' = SavedNow /\ SavedNow' = SavedNow
           Creates == MapNow = Torn /\ MapNow' = <<>> /\ SavedNow' = SavedNow
<1>1. SUFFICES Closes \/ Stays \/ Puts \/ Drops \/ Starts \/ Ends \/ Loads \/ Creates
  <2> DEFINE m == IF up /\ ~graph.undefined THEN AsMap(IF built THEN GraphPairs ELSE LivePairs) ELSE Torn
             s == IF disk \in {NoFile, Torn} THEN NoFile ELSE AsMap(RowsOf(disk))
  <2>1. m = MapNow /\ s = SavedNow
    BY MapIs
  <2>2. m' = MapNow' /\ s' = SavedNow'
    <3>1. built' /\ ~graph'.undefined => GraphPairs' = LivePairs'
      BY DEF IInv, Agreed, PairsOf, GraphPairs
    <3>2. RowsOf(disk') = PairsIn(disk'.rows)
      BY DEF RowsOf, PairsIn
    <3> QED BY <3>1, <3>2 DEF MapNow, SavedNow
  <2>3. (m' = Torn /\ s' = s) => Map!Close
    BY DEF Map!Close
  <2>4. (m' = m /\ s' = s) => UNCHANGED (Map!vars)
    BY DEF Map!vars
  <2>5. (m # Torn /\ s' = NoFile /\ m' = m) => Map!StartSave
    BY DEF Map!StartSave, Map!Open
  <2>6. (m # Torn /\ s' = m /\ m' = m) => Map!EndSave
    BY DEF Map!EndSave, Map!Open
  <2>7. (m = Torn /\ s # NoFile /\ m' = s /\ s' = s) => Map!Load
    BY DEF Map!Load, Map!Open
  <2>8. (m = Torn /\ m' = <<>> /\ s' = s) => Map!Create
    BY DEF Map!Create, Map!Open
  <2>9. ASSUME NEW id \in Id, m # Torn, m' = [x \in DOMAIN m \ {id} |-> m[x]], s' = s
        PROVE  Map!Drop(id)
    BY <2>9 DEF Map!Drop, Map!Open
  <2>10. ASSUME NEW id \in Id, NEW vec \in {{v} : v \in Vector}, m # Torn, s' = s,
                m' = [x \in DOMAIN m \union {id} |-> IF x = id THEN vec ELSE m[x]]
         PROVE  Map!Put(id, vec)
    BY <2>10 DEF Map!Put, Map!Open
  <2> HIDE DEF m, s
  <2>11. Map!Close \/ Map!StartSave \/ Map!EndSave \/ Map!Load \/ Map!Create => Map!Next
    BY DEF Map!Next
  <2>12. \A id \in Id : Map!Drop(id) => Map!Next
    BY DEF Map!Next
  <2>13. \A id \in Id : \A vec \in {{v} : v \in Vector} : Map!Put(id, vec) => Map!Next
    BY DEF Map!Next
  <2>14. ASSUME Puts PROVE Map!Next
    <3>1. PICK id \in Id, vec \in {{v} : v \in Vector} :
              /\ MapNow # Torn
              /\ MapNow' = [x \in DOMAIN MapNow \union {id} |->
                               IF x = id THEN vec ELSE MapNow[x]]
              /\ SavedNow' = SavedNow
      BY <2>14
    <3>2. Map!Put(id, vec)
      BY <2>1, <2>2, <2>10, <3>1
    <3> QED BY <2>13, <3>2
  <2>15. ASSUME Drops PROVE Map!Next
    <3>1. PICK id \in Id :
              /\ MapNow # Torn
              /\ MapNow' = [x \in DOMAIN MapNow \ {id} |-> MapNow[x]]
              /\ SavedNow' = SavedNow
      BY <2>15
    <3>2. Map!Drop(id)
      BY <2>1, <2>2, <2>9, <3>1
    <3> QED BY <2>12, <3>2
  <2> QED BY <2>1, <2>2, <2>3, <2>4, <2>5, <2>6, <2>7, <2>8, <2>11, <2>14, <2>15
<1>2. Single(LivePairs) /\ AsMap(LivePairs) \notin {NoFile, Torn}
  BY LiveSingle, MapFits DEF IInv
<1>3. disk' = disk => SavedNow' = SavedNow
  BY DEF SavedNow
<1>4. Calm => up /\ ~graph.undefined /\ MapNow = AsMap(LivePairs) /\ MapNow # Torn
  BY <1>2 DEF Calm, MapNow
<1> DEFINE Open == up' /\ ~graph'.undefined
<1>5. Open => MapNow' = AsMap(LivePairs')
  BY DEF MapNow
<1>6. ~Open => MapNow' = Torn
  BY DEF MapNow
<1> HIDE DEF Open
<1>7. ASSUME NEW id \in Id, NEW vec \in Vector,
             NEW level \in IF built THEN 0..MaxLevel ELSE {0},
             Replace(id, vec, level) \/ AddRow(id, vec, level)
      PROVE  Closes \/ Puts
  <2>1. Calm /\ disk' = disk
    BY <1>7 DEF Replace, AddRow, CountWrite
  <2>2. LivePairs' = {p \in LivePairs : p[1] # id} \union {<<id, vec>>}
    BY <1>7, ReplaceOk, AddRowOk
  <2>3. CASE Open
    <3>1. MapNow' = [x \in DOMAIN MapNow \union {id} |->
                        IF x = id THEN {vec} ELSE MapNow[x]]
      <4> DEFINE pairs == LivePairs
      <4>1. /\ MapNow' = AsMap(With(pairs, id, vec))
            /\ MapNow = AsMap(pairs)
        BY <1>4, <1>5, <2>1, <2>2, <2>3 DEF With
      <4> HIDE DEF pairs
      <4>2. AsMap(With(pairs, id, vec)) = PutIn(AsMap(pairs), id, {vec})
        BY MapPut, Zenon
      <4>3. MapNow' = PutIn(MapNow, id, {vec})
        BY <4>1, <4>2, Zenon
      <4> QED BY <4>3 DEF PutIn
    <3>2. {vec} \in {{v} : v \in Vector}
      OBVIOUS
    <3> QED BY <1>3, <1>4, <2>1, <3>1, <3>2
  <2>4. CASE ~Open
    BY <1>3, <1>6, <2>1, <2>4
  <2> QED BY <2>3, <2>4
<1>8. ASSUME NEW id \in Id, RemoveRow(id) PROVE Drops
  <2>1. Calm /\ disk' = disk /\ up' = up
    BY <1>8 DEF RemoveRow, CountWrite
  <2>2. LivePairs' = {p \in LivePairs : p[1] # id} /\ graph'.undefined = graph.undefined
    BY <1>8, RemoveRowOk
  <2>3. Open
    BY <1>4, <2>1, <2>2 DEF Open
  <2>4. MapNow' = [x \in DOMAIN MapNow \ {id} |-> MapNow[x]]
    <3> DEFINE pairs == LivePairs
    <3>1. MapNow' = AsMap({p \in pairs : p[1] # id}) /\ MapNow = AsMap(pairs)
      BY <1>4, <1>5, <2>1, <2>2, <2>3
    <3> HIDE DEF pairs
    <3>2. AsMap({p \in pairs : p[1] # id})
            = [x \in DOMAIN AsMap(pairs) \ {id} |-> AsMap(pairs)[x]]
      BY MapDrop, Zenon
    <3> QED BY <3>1, <3>2, Zenon
  <2> QED BY <1>3, <1>4, <2>1, <2>4
<1>9. ASSUME Calm, disk' = disk, LivePairs' = LivePairs PROVE Closes \/ Stays
  BY <1>3, <1>4, <1>5, <1>6, <1>9
<1>10. ASSUME NEW levels \in Levels(IF built THEN 0 ELSE count), Build(levels) PROVE Closes \/ Stays
  BY <1>9, <1>10, BuildOk DEF Build
<1>11. ASSUME NEW levels \in Levels(IF built /\ Stale(graph) THEN count ELSE 0), Save(levels)
       PROVE  Closes \/ Stays \/ Starts
  <2>1. Calm /\ up' = up
    BY <1>11 DEF Save
  <2>2. /\ LivePairs' = LivePairs
        /\ \/ graph'.undefined /\ disk' = disk
           \/ ~graph'.undefined /\ (disk' = disk \/ disk' = Torn)
    BY <1>11, SaveOk
  <2>3. CASE disk' = disk
    BY <1>9, <2>1, <2>2, <2>3
  <2>4. CASE disk' = Torn /\ ~graph'.undefined
    <3>1. SavedNow' = NoFile
      BY <2>4 DEF SavedNow
    <3>2. Open
      BY <1>4, <2>1, <2>4 DEF Open
    <3> QED BY <1>4, <1>5, <2>1, <2>2, <3>1, <3>2
  <2> QED BY <2>2, <2>3, <2>4
<1>12. ASSUME Find PROVE Closes \/ Stays
  BY <1>9, <1>12, FindOk DEF Find
<1>13. ASSUME Written PROVE Starts \/ Ends
  <2>1. /\ LivePairs' = LivePairs
        /\ graph' = graph /\ up' = up /\ up /\ built' = built /\ ~graph.undefined
        /\ disk' \in {NoFile, Torn} \/ PairsIn(disk'.rows) = LivePairs
    BY <1>13, WrittenOk
  <2>2. MapNow = AsMap(LivePairs) /\ MapNow' = MapNow /\ MapNow # Torn
    BY <1>2, <2>1 DEF MapNow
  <2>3. CASE disk' \in {NoFile, Torn}
    <3>1. SavedNow' = NoFile
      BY <2>3 DEF SavedNow
    <3> QED BY <2>2, <3>1
  <2>4. CASE disk' \notin {NoFile, Torn}
    <3>1. SavedNow' = MapNow
      BY <2>1, <2>2, <2>4 DEF SavedNow
    <3> QED BY <2>2, <3>1
  <2> QED BY <2>3, <2>4
<1>14. ASSUME Crash PROVE Closes
  BY <1>3, <1>6, <1>14, CrashOk DEF Open
<1>15. ASSUME Load PROVE Loads
  <2>1. up' = TRUE /\ ~graph'.undefined /\ LivePairs' = PairsIn(disk.rows) /\ disk' = disk
    BY <1>15, LoadOk
  <2>2. ~up /\ disk \notin {NoFile, Torn} /\ Stored(disk)
    BY <1>15 DEF Load, IInv, DiskOk
  <2>3. MapNow = Torn /\ SavedNow = AsMap(PairsIn(disk.rows))
    BY <2>2 DEF MapNow, SavedNow
  <2>4. SavedNow # NoFile
    BY <2>2, <2>3, StoredSingle, MapFits
  <2>5. MapNow' = SavedNow
    BY <1>5, <2>1, <2>3 DEF Open
  <2> QED BY <1>3, <2>1, <2>3, <2>4, <2>5
<1>16. ASSUME Create PROVE Creates
  <2>1. ~up /\ up' = TRUE /\ ~graph'.undefined /\ LivePairs' = {} /\ disk' = disk
    BY <1>16, CreateOk
  <2>2. MapNow = Torn
    BY <2>1 DEF MapNow
  <2>3. MapNow' = <<>>
    BY <1>5, <2>1, MapNone DEF Open
  <2> QED BY <1>3, <2>1, <2>2, <2>3
<1>17. ASSUME UNCHANGED vars PROVE Stays
  <2>1. /\ up' = up /\ graph' = graph /\ disk' = disk /\ arena' = arena
    BY <1>17 DEF vars
  <2>2. LivePairs' = LivePairs
    BY <2>1, SameRows
  <2> QED BY <1>3, <2>1, <2>2 DEF MapNow
<1> HIDE DEF Closes, Stays, Puts, Drops, Starts, Ends, Loads, Creates
<1>18. ASSUME Next PROVE Closes \/ Stays \/ Puts \/ Drops \/ Starts \/ Ends \/ Loads \/ Creates
  BY <1>7, <1>8, <1>10, <1>11, <1>12, <1>13, <1>14, <1>15, <1>16, <1>18 DEF Next
<1> QED BY <1>17, <1>18

\* What searches find is a map from ids to vectors: an add puts, a removal
\* drops, building, sealing and compacting change nothing, and what a finished
\* save wrote comes back as it was.
THEOREM StoreIsMap == Spec => IsMap
<1>1. Init => Map!Init
  <2> SUFFICES ASSUME Init PROVE Map!Init
    OBVIOUS
  <2>1. arena = <<>> /\ up = TRUE /\ graph = EmptyGraph /\ built = FALSE /\ disk = NoFile
    BY DEF Init
  <2>2. LivePairs = {} /\ ~graph.undefined
    BY <2>1, NoRows, EmptyOk
  <2> QED BY <2>1, <2>2, MapNone DEF Map!Init
<1>2. IInv /\ IInv' /\ [Next]_vars => [Map!Next]_(Map!vars)
  BY MapStep
<1> QED BY <1>1, <1>2, Invariance, PTL DEF Spec, IsMap, Map!Spec

-----------------------------------------------------------------------------
(* Recursive functions and finite sets.                                    *)

Steps(w, n, s, next) == w = [k \in 0..n |-> IF k = 0 THEN s ELSE next[<<k, w[k - 1]>>]]

\* A function defined step by step exists, and keeps what every step keeps.
LEMMA Iterated ==
    ASSUME NEW n \in Nat, NEW s, NEW next, NEW St,
           s \in St[0], \A k \in 1..n : \A x \in St[k - 1] : next[<<k, x>>] \in St[k]
    PROVE  \E w : Steps(w, n, s, next) /\ \A k \in 0..n : w[k] \in St[k]
<1> DEFINE Goes(m, w) == /\ w = [k \in 0..m |-> IF k = 0 THEN s ELSE next[<<k, w[k - 1]>>]]
                         /\ \A k \in 0..m : w[k] \in St[k]
           N == {m \in Nat : m <= n => \E w : Goes(m, w)}
<1>1. 0 \in N
  <2> DEFINE w == [k \in 0..0 |-> s]
  <2>1. Goes(0, w)
    OBVIOUS
  <2> QED BY <2>1
<1>2. ASSUME NEW m \in Nat, m \in N PROVE m + 1 \in N
  <2> SUFFICES ASSUME m + 1 <= n PROVE \E w : Goes(m + 1, w)
    OBVIOUS
  <2>1. PICK w : Goes(m, w)
    BY <1>2
  <2> DEFINE v == [k \in 0..(m + 1) |-> IF k = m + 1 THEN next[<<m + 1, w[m]>>] ELSE w[k]]
  <2>2. ASSUME NEW k \in 0..(m + 1)
        PROVE  v[k] = (IF k = 0 THEN s ELSE next[<<k, v[k - 1]>>]) /\ v[k] \in St[k]
    <3>1. CASE k = m + 1
      <4>1. v[k] = next[<<k, w[m]>>] /\ v[k - 1] = w[m] /\ k # 0
        BY <3>1
      <4>2. k \in 1..n /\ k - 1 = m /\ w[m] \in St[m]
        BY <2>1, <3>1
      <4> HIDE DEF v
      <4> QED BY <4>1, <4>2
    <3>2. CASE k = 0
      BY <2>1, <3>2
    <3>3. CASE k # m + 1 /\ k # 0
      <4>1. k \in 0..m /\ k - 1 \in 0..m /\ k - 1 # m + 1
        BY <3>3
      <4>2. v[k] = w[k] /\ v[k - 1] = w[k - 1]
        BY <3>3, <4>1
      <4>3. w[k] = next[<<k, w[k - 1]>>] /\ w[k] \in St[k]
        BY <2>1, <3>3, <4>1
      <4> HIDE DEF v
      <4> QED BY <3>3, <4>2, <4>3
    <3> QED BY <3>1, <3>2, <3>3
  <2>3. Goes(m + 1, v)
    <3>1. v = [k \in 0..(m + 1) |-> v[k]]
      OBVIOUS
    <3> HIDE DEF v
    <3> QED BY <2>2, <3>1, Zenon
  <2> HIDE DEF Goes, v
  <2> QED BY <2>3
<1>3. n \in N
  <2> HIDE DEF N
  <2> QED BY <1>1, <1>2, Induction
<1> QED BY <1>3 DEF Steps

LEMMA Kept ==
    ASSUME NEW n \in Nat, NEW w, NEW St,
           w[0] \in St[0], \A k \in 1..n : w[k - 1] \in St[k - 1] => w[k] \in St[k]
    PROVE  \A k \in 0..n : w[k] \in St[k]
<1> DEFINE N == {m \in Nat : m <= n => w[m] \in St[m]}
<1>1. 0 \in N
  OBVIOUS
<1>2. ASSUME NEW m \in Nat, m \in N PROVE m + 1 \in N
  <2> SUFFICES ASSUME m + 1 <= n PROVE w[m + 1] \in St[m + 1]
    OBVIOUS
  <2>1. m + 1 \in 1..n /\ (m + 1) - 1 = m /\ w[m] \in St[m]
    BY <1>2
  <2> QED BY <2>1
<1> HIDE DEF N
<1>3. Nat \subseteq N
  BY <1>1, <1>2, Induction
<1> QED BY <1>3 DEF N

-----------------------------------------------------------------------------
(* The most similar.                                                       *)

\* What comparing the nodes of a graph with q needs.
Comparable(g, q) ==
    /\ Len(g.nodes) \in Nat /\ q \in Vector
    /\ \A i \in Ordinals(g) : Vec(g, i) \in Vector

LEMMA NodesFinite ==
    ASSUME NEW g, Len(g.nodes) \in Nat, NEW S, S \subseteq Ordinals(g)
    PROVE  IsFiniteSet(S) /\ Cardinality(S) \in Nat /\ Cardinality(S) <= Len(g.nodes)
<1>1. IsFiniteSet(Ordinals(g)) /\ Cardinality(Ordinals(g)) = Len(g.nodes)
  BY FS_Interval DEF Ordinals
<1> QED BY <1>1, FS_Subset, FS_CardinalityType

LEMMA ClosestIn ==
    ASSUME NEW g, NEW q, Comparable(g, q), NEW S, S \subseteq Ordinals(g), S # {}
    PROVE  /\ Closest(g, S, q) \in S
           /\ \A j \in S : Sim(Vec(g, j), q) <= Sim(Vec(g, Closest(g, S, q)), q)
<1> DEFINE f == [i \in S |-> Sim(Vec(g, i), q)]
<1>1. IsFiniteSet(S)
  BY NodesFinite DEF Comparable
<1>2. \A i \in S : f[i] \in Int
  BY SimAssumption DEF Comparable
<1>3. \E i \in S : \A j \in S : f[j] <= f[i]
  <2> HIDE DEF f
  <2> QED BY <1>1, <1>2, GreatestValue
<1>4. \E i \in S : \A j \in S : Sim(Vec(g, j), q) <= Sim(Vec(g, i), q)
  BY <1>3
<1> HIDE DEF f
<1> QED BY <1>4 DEF Closest

LEMMA NearestSome ==
    ASSUME NEW g, NEW q, Comparable(g, q), NEW S, S \subseteq Ordinals(g), S # {},
           NEW k \in Nat \ {0}
    PROVE  Nearest(g, S, q, k) # {} /\ Nearest(g, S, q, k) \subseteq S
<1> DEFINE c == Closest(g, S, q)
<1>1. c \in S /\ \A j \in S : Sim(Vec(g, j), q) <= Sim(Vec(g, c), q)
  BY ClosestIn
<1>2. \A j \in S : Sim(Vec(g, j), q) \in Int
  BY SimAssumption DEF Comparable
<1> HIDE DEF c
<1>3. {j \in S : Sim(Vec(g, j), q) > Sim(Vec(g, c), q)} = {}
  BY <1>1, <1>2
<1>4. Cardinality({j \in S : Sim(Vec(g, j), q) > Sim(Vec(g, c), q)}) < k
  BY <1>3, FS_EmptySet
<1> QED BY <1>1, <1>4 DEF Nearest

\* No two nodes have the same vector.
VecsOnce(g) == \A i, j \in Ordinals(g) : Vec(g, i) = Vec(g, j) => i = j

LEMMA NearestFew ==
    ASSUME NEW g, NEW q, Comparable(g, q), VecsOnce(g), NEW S, S \subseteq Ordinals(g),
           NEW k \in Nat
    PROVE  Nearest(g, S, q, k) \subseteq S /\ Cardinality(Nearest(g, S, q, k)) <= k
<1> DEFINE near == Nearest(g, S, q, k)
           f == [i \in S |-> -Sim(Vec(g, i), q)]
<1>1. near \subseteq S /\ IsFiniteSet(near) /\ near \subseteq Ordinals(g) /\ Cardinality(near) \in Nat
  <2>1. near \subseteq S
    BY DEF Nearest
  <2> QED BY <2>1, NodesFinite DEF Comparable
<1>2. \A j \in S : Sim(Vec(g, j), q) \in Int
  BY SimAssumption DEF Comparable
<1>3. CASE near = {}
  BY <1>3, FS_EmptySet, <1>1
<1>4. CASE near # {}
  <2>1. \A i \in near : f[i] \in Int
    BY <1>1, <1>2
  <2>2. PICK x \in near : \A j \in near : f[j] <= f[x]
    <3> HIDE DEF near, f
    <3> QED BY <1>1, <1>4, <2>1, GreatestValue
  <2>3. ASSUME NEW j \in near PROVE Sim(Vec(g, j), q) >= Sim(Vec(g, x), q)
    <3>1. j \in S /\ x \in S /\ f[j] <= f[x]
      BY <1>1, <2>2
    <3> HIDE DEF near
    <3>2. -Sim(Vec(g, j), q) <= -Sim(Vec(g, x), q)
      BY <3>1
    <3> QED BY <1>2, <3>1, <3>2
  <2> DEFINE better == {j \in S : Sim(Vec(g, j), q) > Sim(Vec(g, x), q)}
  <2>4. Cardinality(better) < k
    BY DEF Nearest
  <2>5. near \ {x} \subseteq better
    <3> SUFFICES ASSUME NEW j \in near, j # x PROVE j \in better
      OBVIOUS
    <3>1. j \in Ordinals(g) /\ x \in Ordinals(g) /\ Vec(g, j) # Vec(g, x)
      BY <1>1 DEF VecsOnce
    <3>2. Sim(Vec(g, j), q) # Sim(Vec(g, x), q)
      BY <3>1, SimAssumption DEF Comparable
    <3> HIDE DEF near
    <3> QED BY <1>1, <1>2, <2>3, <3>2
  <2>6. IsFiniteSet(better) /\ Cardinality(better) \in Nat
    BY NodesFinite DEF Comparable
  <2> HIDE DEF better, near
  <2>7. Cardinality(near \ {x}) <= Cardinality(better)
    BY <2>5, <2>6, FS_Subset
  <2>8. Cardinality(near \ {x}) = Cardinality(near) - 1
    BY <1>1, FS_RemoveElement
  <2> QED BY <1>1, <2>4, <2>6, <2>7, <2>8 DEF near
<1> QED BY <1>1, <1>3, <1>4

\* Of few enough all are the nearest.
LEMMA NearestAll ==
    ASSUME NEW g, NEW q, Comparable(g, q), NEW S, S \subseteq Ordinals(g),
           NEW k \in Nat, Len(g.nodes) <= k
    PROVE  Nearest(g, S, q, k) = S
<1> SUFFICES ASSUME NEW i \in S
             PROVE  Cardinality({j \in S : Sim(Vec(g, j), q) > Sim(Vec(g, i), q)}) < k
  BY DEF Nearest
<1> DEFINE better == {j \in S : Sim(Vec(g, j), q) > Sim(Vec(g, i), q)}
<1>1. Sim(Vec(g, i), q) \in Int
  BY SimAssumption DEF Comparable
<1>2. better \subseteq Ordinals(g) \ {i}
  BY <1>1
<1>3. IsFiniteSet(Ordinals(g)) /\ Cardinality(Ordinals(g)) <= Len(g.nodes)
      /\ Cardinality(Ordinals(g)) \in Nat
  BY NodesFinite DEF Comparable
<1>4. Cardinality(Ordinals(g) \ {i}) = Cardinality(Ordinals(g)) - 1 /\ IsFiniteSet(Ordinals(g) \ {i})
  BY <1>3, FS_RemoveElement
<1> HIDE DEF better
<1>5. Cardinality(better) <= Cardinality(Ordinals(g) \ {i}) /\ Cardinality(better) \in Nat
  BY <1>2, <1>4, FS_Subset, FS_CardinalityType
<1> QED BY <1>3, <1>4, <1>5 DEF better, Comparable

-----------------------------------------------------------------------------
(* Walking through one layer.                                              *)

WalkStart(e) == [cand |-> {e}, result |-> {e}, seen |-> {e}]

Ends(g, q, ef, s) ==
    \/ s.cand = {}
    \/ /\ Cardinality(s.result) >= ef
       /\ \A r \in s.result : Sim(Vec(g, Closest(g, s.cand, q)), q) < Sim(Vec(g, r), q)

Fresh(g, q, L, s) == Neighbours(g, Closest(g, s.cand, q), L) \ s.seen

Expand(g, q, L, ef, s) ==
    IF Ends(g, q, ef, s) THEN s
    ELSE LET result == Nearest(g, s.result \union Fresh(g, q, L, s), q, ef)
         IN  [cand   |-> (s.cand \ {Closest(g, s.cand, q)}) \union (Fresh(g, q, L, s) \intersect result),
              result |-> result,
              seen   |-> s.seen \union Fresh(g, q, L, s)]

Walk(g, q, e, L, ef) ==
    CHOOSE w : w = [n \in 0..Len(g.nodes) |->
                       IF n = 0 THEN WalkStart(e) ELSE Expand(g, q, L, ef, w[n - 1])]

LEMMA SearchIsWalk ==
    ASSUME NEW g, NEW q, NEW e, NEW L, NEW ef
    PROVE  SearchLayer(g, q, e, L, ef) = Walk(g, q, e, L, ef)[Len(g.nodes)].result
BY DEF SearchLayer, Walk, WalkStart, Expand, Ends, Fresh

\* The nodes T are closed in layer L.
Closed(g, T, L) == T \subseteq Ordinals(g) /\ \A i \in T : Neighbours(g, i, L) \subseteq T

Walks(T) == [cand : SUBSET T, result : (SUBSET T) \ {{}}, seen : SUBSET T]

LEMMA ExpandStays ==
    ASSUME NEW g, NEW q, Comparable(g, q), NEW T, NEW L, Closed(g, T, L),
           NEW ef \in Nat \ {0}, NEW s \in Walks(T)
    PROVE  Expand(g, q, L, ef, s) \in Walks(T)
<1> DEFINE c == Closest(g, s.cand, q)
           fresh == Fresh(g, q, L, s)
           result == Nearest(g, s.result \union fresh, q, ef)
<1>1. s.cand \subseteq T /\ s.result \subseteq T /\ s.result # {} /\ s.seen \subseteq T
  BY DEF Walks
<1>2. CASE Ends(g, q, ef, s)
  BY <1>2 DEF Expand
<1>3. CASE ~Ends(g, q, ef, s)
  <2>1. c \in s.cand
    BY <1>1, <1>3, ClosestIn DEF Ends, Closed
  <2>2. fresh \subseteq T
    BY <1>1, <2>1 DEF Fresh, Closed
  <2>3. s.result \union fresh \subseteq Ordinals(g) /\ s.result \union fresh # {}
    BY <1>1, <2>2 DEF Closed
  <2>4. result # {} /\ result \subseteq s.result \union fresh
    <3> HIDE DEF fresh
    <3> QED BY <2>3, NearestSome
  <2>5. Expand(g, q, L, ef, s) = [cand   |-> (s.cand \ {c}) \union (fresh \intersect result),
                                  result |-> result,
                                  seen   |-> s.seen \union fresh]
    BY <1>3 DEF Expand
  <2> HIDE DEF c, fresh, result
  <2> QED BY <1>1, <2>2, <2>4, <2>5 DEF Walks
<1> QED BY <1>2, <1>3

\* The walk exists, and never leaves closed nodes.
LEMMA WalkStays ==
    ASSUME NEW g, NEW q, Comparable(g, q), NEW T, NEW L, Closed(g, T, L),
           NEW ef \in Nat \ {0}, NEW e \in T
    PROVE  LET w == Walk(g, q, e, L, ef)
           IN  /\ w[0] = WalkStart(e)
               /\ \A k \in 1..Len(g.nodes) : w[k] = Expand(g, q, L, ef, w[k - 1])
               /\ \A k \in 0..Len(g.nodes) : w[k] \in Walks(T)
<1> DEFINE n == Len(g.nodes)
           next == [p \in (1..n) \X Walks(T) |-> Expand(g, q, L, ef, p[2])]
           St == [k \in 0..n |-> Walks(T)]
           Is(w) == w = [k \in 0..n |-> IF k = 0 THEN WalkStart(e) ELSE Expand(g, q, L, ef, w[k - 1])]
<1>1. n \in Nat
  BY DEF Comparable
<1>2. WalkStart(e) \in Walks(T)
  BY DEF WalkStart, Walks
<1>3. \A x \in Walks(T) : Expand(g, q, L, ef, x) \in Walks(T)
  BY ExpandStays
<1>4. \A k \in 1..n : \A x \in Walks(T) : next[<<k, x>>] = Expand(g, q, L, ef, x)
  OBVIOUS
<1>5. \A k \in 0..n : St[k] = Walks(T)
  OBVIOUS
<1>6. \A k \in 1..n : k - 1 \in 0..n /\ k \in 0..n
  BY <1>1
<1> HIDE DEF n, next, St
<1>7. PICK w : Steps(w, n, WalkStart(e), next) /\ \A k \in 0..n : w[k] \in St[k]
  <2>1. WalkStart(e) \in St[0]
    BY <1>1, <1>2, <1>5
  <2>2. ASSUME NEW k \in 1..n, NEW x \in St[k - 1] PROVE next[<<k, x>>] \in St[k]
    <3>1. St[k - 1] = Walks(T) /\ St[k] = Walks(T)
      BY <1>5, <1>6
    <3> QED BY <1>3, <1>4, <3>1
  <2> QED BY <1>1, <2>1, <2>2, Iterated
<1>8. Is(w)
  <2>1. \A k \in 1..n : next[<<k, w[k - 1]>>] = Expand(g, q, L, ef, w[k - 1])
    BY <1>4, <1>5, <1>6, <1>7
  <2>2. \A k \in 0..n : k = 0 \/ k \in 1..n
    BY <1>1
  <2> QED BY <1>7, <2>1, <2>2 DEF Steps
<1>9. Is(Walk(g, q, e, L, ef))
  BY <1>8, Zenon DEF Walk, n
<1> DEFINE v == Walk(g, q, e, L, ef)
<1> HIDE DEF v
<1>10. v = [k \in 0..n |-> IF k = 0 THEN WalkStart(e) ELSE Expand(g, q, L, ef, v[k - 1])]
  BY <1>9 DEF v
<1>11. v[0] = WalkStart(e) /\ \A k \in 1..n : v[k] = Expand(g, q, L, ef, v[k - 1])
  BY <1>1, <1>6, <1>10
<1>12. \A k \in 0..n : v[k] \in St[k]
  <2>1. v[0] \in St[0]
    BY <1>1, <1>2, <1>5, <1>11
  <2>2. \A k \in 1..n : v[k - 1] \in St[k - 1] => v[k] \in St[k]
    BY <1>3, <1>5, <1>6, <1>11
  <2> QED BY <1>1, <2>1, <2>2, Kept
<1> QED BY <1>5, <1>11, <1>12 DEF v, n

LEMMA SearchStays ==
    ASSUME NEW g, NEW q, Comparable(g, q), NEW T, NEW L, Closed(g, T, L),
           NEW ef \in Nat \ {0}, NEW e \in T
    PROVE  SearchLayer(g, q, e, L, ef) \subseteq T /\ SearchLayer(g, q, e, L, ef) # {}
<1> DEFINE s == Walk(g, q, e, L, ef)[Len(g.nodes)]
<1>1. s \in Walks(T)
  <2>1. Len(g.nodes) \in 0..Len(g.nodes)
    BY DEF Comparable
  <2> QED BY <2>1, WalkStays
<1> HIDE DEF s
<1>2. s.result \subseteq T /\ s.result # {}
  BY <1>1 DEF Walks
<1> QED BY <1>2, SearchIsWalk DEF s

-----------------------------------------------------------------------------
(* From the entry down to a layer.                                         *)

\* Of the first n nodes those that reach layer L.
At(g, n, L) == {j \in 1..n : g.nodes[j].level >= L}

\* Links go to the first n nodes only, where these have the layer, and are not
\* too many.
LinkedTo(g, n) ==
    \A i \in Ordinals(g), L \in Nat :
        /\ Neighbours(g, i, L) \subseteq At(g, n, L) \ {i}
        /\ Cardinality(Neighbours(g, i, L)) <= MaxM(L)

\* The entry is one of the first n nodes and reaches the top layer.
Entered(g, n) ==
    /\ n = 0 => g.top = -1
    /\ n # 0 => g.top \in Nat /\ g.entry \in At(g, n, g.top)

LEMMA AtClosed ==
    ASSUME NEW g, Shaped(g), NEW n \in 0..Len(g.nodes), LinkedTo(g, n), NEW L \in Nat
    PROVE  Closed(g, At(g, n, L), L)
<1>1. Len(g.nodes) \in Nat
  BY DEF Shaped
<1>2. At(g, n, L) \subseteq Ordinals(g)
  BY <1>1 DEF At, Ordinals
<1> QED BY <1>2 DEF Closed, LinkedTo

LEMMA AtBelow ==
    ASSUME NEW g, Shaped(g), NEW n \in 0..Len(g.nodes), NEW L \in Nat
    PROVE  /\ At(g, n, L) \subseteq Ordinals(g)
           /\ At(g, n, L + 1) \subseteq At(g, n, L)
<1>1. Len(g.nodes) \in Nat
  BY DEF Shaped
<1>2. \A j \in Ordinals(g) : g.nodes[j].level \in Nat
  <2> SUFFICES ASSUME NEW j \in Ordinals(g) PROVE g.nodes[j].level \in Nat
    OBVIOUS
  <2>1. g.nodes[j] \in Node
    BY NodeTypes
  <2> QED BY <2>1, ConstantsAssumption DEF Node
<1>3. At(g, n, L) \subseteq Ordinals(g) /\ At(g, n, L + 1) \subseteq Ordinals(g)
  BY <1>1 DEF At, Ordinals
<1>4. ASSUME NEW j \in At(g, n, L + 1) PROVE j \in At(g, n, L)
  <2>1. j \in 1..n /\ g.nodes[j].level >= L + 1 /\ g.nodes[j].level \in Nat
    BY <1>2, <1>3 DEF At
  <2>2. g.nodes[j].level >= L
    BY <2>1
  <2> QED BY <2>1, <2>2 DEF At
<1> QED BY <1>3, <1>4

LEMMA ShapedComparable ==
    ASSUME NEW g, Shaped(g), NEW q \in Vector
    PROVE  Comparable(g, q)
BY NodeTypes DEF Comparable, Shaped

Beam(lc, level, ef) == IF lc > level THEN 1 ELSE ef

\* The next node on the way down, found in layer lc.
Descend(g, q, e, lc, level, ef) ==
    Closest(g, SearchLayer(g, q, e, lc, Beam(lc, level, ef)), q)

Down(g, q, L, level, ef) ==
    CHOOSE cur : cur = [lc \in L..g.top |->
                           IF lc = g.top THEN g.entry
                           ELSE Descend(g, q, cur[lc + 1], lc + 1, level, ef)]

LEMMA EntersIsDown ==
    ASSUME NEW g, NEW q, NEW L, NEW level, NEW ef
    PROVE  EntersAt(g, q, L, level, ef) = Down(g, q, L, level, ef)[L]
BY DEF EntersAt, Down, Descend, Beam

LEMMA DescendStays ==
    ASSUME NEW g, Shaped(g), NEW n \in 0..Len(g.nodes), LinkedTo(g, n),
           NEW q \in Vector, NEW lc \in Nat, NEW level \in Int, NEW ef \in Nat \ {0},
           NEW e \in At(g, n, lc)
    PROVE  Descend(g, q, e, lc, level, ef) \in At(g, n, lc)
<1> DEFINE S == SearchLayer(g, q, e, lc, Beam(lc, level, ef))
<1>1. Comparable(g, q) /\ Closed(g, At(g, n, lc), lc)
  BY ShapedComparable, AtClosed
<1>2. Beam(lc, level, ef) \in Nat \ {0}
  BY DEF Beam
<1>3. S \subseteq At(g, n, lc) /\ S # {}
  BY <1>1, <1>2, SearchStays
<1>4. S \subseteq Ordinals(g)
  BY <1>1, <1>3 DEF Closed
<1> HIDE DEF S
<1>5. Closest(g, S, q) \in S
  BY <1>1, <1>3, <1>4, ClosestIn
<1> QED BY <1>3, <1>5 DEF Descend, S

LEMMA DownStays ==
    ASSUME NEW g, Shaped(g), NEW n \in 1..Len(g.nodes), LinkedTo(g, n), Entered(g, n),
           NEW q \in Vector, NEW L \in 0..g.top, NEW level \in Int, NEW ef \in Nat \ {0}
    PROVE  LET cur == Down(g, q, L, level, ef)
           IN  /\ cur = [lc \in L..g.top |->
                            IF lc = g.top THEN g.entry
                            ELSE Descend(g, q, cur[lc + 1], lc + 1, level, ef)]
               /\ \A lc \in L..g.top : cur[lc] \in At(g, n, lc)
<1> DEFINE top == g.top
           d == top - L
           next == [p \in (1..d) \X Ordinals(g) |->
                       Descend(g, q, p[2], (top - p[1]) + 1, level, ef)]
           St == [k \in 0..d |-> At(g, n, top - k)]
           Is(cur) == cur = [lc \in L..top |->
                                IF lc = top THEN g.entry
                                ELSE Descend(g, q, cur[lc + 1], lc + 1, level, ef)]
<1>1. Len(g.nodes) \in Nat /\ n \in 0..Len(g.nodes) /\ n # 0
  BY DEF Shaped
<1>2. top \in Nat /\ g.entry \in At(g, n, top) /\ L \in Nat /\ L <= top /\ d \in Nat
  BY <1>1 DEF Entered
<1> HIDE DEF top
<1>3. \A k \in 0..d : top - k \in Nat /\ top - k >= L
  BY <1>2
<1>4. \A k \in 0..d : St[k] \subseteq Ordinals(g)
  BY <1>1, <1>3, AtBelow
<1>5. ASSUME NEW k \in 1..d
      PROVE  /\ k - 1 \in 0..d /\ k \in 0..d /\ top - k \in L..top /\ top - (k - 1) = (top - k) + 1
             /\ top - k # top
  BY <1>2, <1>5
<1>6. \A k \in 1..d : \A x \in Ordinals(g) :
          next[<<k, x>>] = Descend(g, q, x, (top - k) + 1, level, ef)
  OBVIOUS
<1>7. \A k \in 0..d : St[k] = At(g, n, top - k)
  OBVIOUS
<1> HIDE DEF next, St, d
<1>8. ASSUME NEW k \in 1..d, NEW x \in St[k - 1]
      PROVE  Descend(g, q, x, (top - k) + 1, level, ef) \in St[k]
  <2>1. x \in At(g, n, (top - k) + 1) /\ top - k \in Nat /\ (top - k) + 1 \in Nat
    <3>1. St[k - 1] = At(g, n, top - (k - 1))
      BY <1>5, <1>7
    <3>2. top - k \in Nat
      BY <1>3, <1>5
    <3> QED BY <1>5, <3>1, <3>2
  <2>2. Descend(g, q, x, (top - k) + 1, level, ef) \in At(g, n, (top - k) + 1)
    BY <1>1, <2>1, DescendStays
  <2>3. At(g, n, (top - k) + 1) \subseteq At(g, n, top - k)
    BY <1>1, <2>1, AtBelow
  <2> QED BY <1>5, <1>7, <2>2, <2>3
<1>9. g.entry \in St[0]
  <2>1. 0 \in 0..d /\ top - 0 = top
    BY <1>2
  <2> QED BY <1>2, <1>7, <2>1
<1>10. PICK w : Steps(w, d, g.entry, next) /\ \A k \in 0..d : w[k] \in St[k]
  <2>1. ASSUME NEW k \in 1..d, NEW x \in St[k - 1] PROVE next[<<k, x>>] \in St[k]
    <3>1. x \in Ordinals(g)
      BY <1>4, <1>5
    <3> QED BY <1>6, <1>8, <3>1
  <2> QED BY <1>2, <1>9, <2>1, Iterated
<1> DEFINE c == [lc \in L..top |-> w[top - lc]]
<1>11. Is(c)
  <2>1. w[0] = g.entry
    BY <1>2, <1>10 DEF Steps
  <2>2. ASSUME NEW k \in 1..d
        PROVE  w[k] = Descend(g, q, w[k - 1], (top - k) + 1, level, ef)
    <3>1. w[k] = next[<<k, w[k - 1]>>]
      BY <1>5, <1>10 DEF Steps
    <3>2. w[k - 1] \in Ordinals(g)
      BY <1>4, <1>5, <1>10
    <3> QED BY <1>6, <3>1, <3>2
  <2>3. ASSUME NEW lc \in L..top
        PROVE  c[lc] = IF lc = top THEN g.entry
                       ELSE Descend(g, q, c[lc + 1], lc + 1, level, ef)
    <3>1. CASE lc = top
      <4>1. top - lc = 0
        BY <1>2, <3>1
      <4> QED BY <2>1, <3>1, <4>1
    <3>2. CASE lc # top
      <4>1. top - lc \in 1..d /\ lc + 1 \in L..top /\ top - (lc + 1) = (top - lc) - 1
            /\ (top - (top - lc)) + 1 = lc + 1
        BY <1>2, <3>2 DEF d
      <4>2. w[top - lc] = Descend(g, q, w[(top - lc) - 1], lc + 1, level, ef)
        BY <2>2, <4>1
      <4>3. c[lc + 1] = w[(top - lc) - 1] /\ c[lc] = w[top - lc]
        BY <4>1
      <4> HIDE DEF c
      <4> QED BY <3>2, <4>2, <4>3
    <3> QED BY <3>1, <3>2
  <2>4. c = [lc \in L..top |-> c[lc]]
    OBVIOUS
  <2> HIDE DEF c
  <2> QED BY <2>3, <2>4, Zenon
<1> DEFINE cur == Down(g, q, L, level, ef)
<1>12. Is(cur)
  <2>1. \E x : Is(x)
    BY <1>11
  <2> QED BY <2>1, Zenon DEF Down, top
<1> HIDE DEF c, cur
<1>13. cur = [lc \in L..top |->
                 IF lc = top THEN g.entry ELSE Descend(g, q, cur[lc + 1], lc + 1, level, ef)]
  BY <1>12
<1> DEFINE v == [k \in 0..d |-> cur[top - k]]
<1>14. \A k \in 0..d : v[k] \in St[k]
  <2>1. v[0] \in St[0]
    <3>1. v[0] = g.entry
      BY <1>2, <1>13
    <3> QED BY <1>9, <3>1
  <2>2. ASSUME NEW k \in 1..d, v[k - 1] \in St[k - 1] PROVE v[k] \in St[k]
    <3>1. v[k] = cur[top - k] /\ v[k - 1] = cur[(top - k) + 1]
      BY <1>5
    <3>2. cur[top - k] = Descend(g, q, cur[(top - k) + 1], (top - k) + 1, level, ef)
      BY <1>5, <1>13
    <3> HIDE DEF v
    <3> QED BY <1>8, <2>2, <3>1, <3>2
  <2> HIDE DEF v
  <2> QED BY <1>2, <2>1, <2>2, Kept
<1>15. ASSUME NEW lc \in L..top PROVE cur[lc] \in At(g, n, lc)
  <2>1. top - lc \in 0..d /\ top - (top - lc) = lc
    BY <1>2 DEF d
  <2>2. v[top - lc] = cur[lc]
    BY <2>1
  <2> HIDE DEF v
  <2> QED BY <1>7, <1>14, <2>1, <2>2
<1> QED BY <1>13, <1>15 DEF cur, top

LEMMA EntersStays ==
    ASSUME NEW g, Shaped(g), NEW n \in 1..Len(g.nodes), LinkedTo(g, n), Entered(g, n),
           NEW q \in Vector, NEW L \in 0..g.top, NEW level \in Int, NEW ef \in Nat \ {0}
    PROVE  EntersAt(g, q, L, level, ef) \in At(g, n, L)
<1>1. L \in L..g.top
  <2>1. g.top \in Nat
    BY DEF Entered
  <2> QED BY <2>1
<1>2. Down(g, q, L, level, ef)[L] \in At(g, n, L)
  BY <1>1, DownStays
<1> QED BY <1>2, EntersIsDown

-----------------------------------------------------------------------------
(* Choosing links.                                                         *)

Covered(g, q, c, picked) ==
    \E p \in picked : Sim(Vec(g, c), Vec(g, p)) > Sim(Vec(g, c), q)

\* One candidate is looked at.
PickStep(g, q, m, t) ==
    LET c == Closest(g, t.left, q)
        keep == Cardinality(t.picked) < m /\ ~Covered(g, q, c, t.picked)
    IN  [left   |-> t.left \ {c},
         picked |-> IF keep THEN t.picked \union {c} ELSE t.picked]

PickStart(cands) == [left |-> cands, picked |-> {}]

Turns(g, i, cands, m) ==
    CHOOSE w : w = [n \in 0..Cardinality(cands) |->
                       IF n = 0 THEN PickStart(cands) ELSE PickStep(g, Vec(g, i), m, w[n - 1])]

Chosen(g, i, cands, m) == Turns(g, i, cands, m)[Cardinality(cands)].picked

LEMMA SelectIsTurns ==
    ASSUME NEW g, NEW i, NEW cands, NEW m
    PROVE  SelectNeighbours(g, i, cands, m)
             = Chosen(g, i, cands, m)
                 \union Nearest(g, cands \ Chosen(g, i, cands, m), Vec(g, i),
                                m - Cardinality(Chosen(g, i, cands, m)))
BY DEF SelectNeighbours, Chosen, Turns, PickStart, PickStep, Covered

\* After k candidates there are k fewer left, and at most m were picked.
Picked(cands, m, k) ==
    {t \in [left : SUBSET cands, picked : SUBSET cands] :
        Cardinality(t.left) = Cardinality(cands) - k /\ Cardinality(t.picked) <= m}

LEMMA PickStays ==
    ASSUME NEW g, NEW q, Comparable(g, q), NEW cands, cands \subseteq Ordinals(g), NEW m \in Nat,
           NEW k \in 1..Cardinality(cands), NEW t \in Picked(cands, m, k - 1)
    PROVE  PickStep(g, q, m, t) \in Picked(cands, m, k)
<1> DEFINE c == Closest(g, t.left, q)
           keep == Cardinality(t.picked) < m /\ ~Covered(g, q, c, t.picked)
           picked == IF keep THEN t.picked \union {c} ELSE t.picked
<1>1. /\ t.left \subseteq cands /\ t.picked \subseteq cands
      /\ Cardinality(t.left) = Cardinality(cands) - (k - 1) /\ Cardinality(t.picked) <= m
  BY DEF Picked
<1>2. \A S \in SUBSET cands : IsFiniteSet(S) /\ Cardinality(S) \in Nat
  BY NodesFinite DEF Comparable
<1>3. t.left # {}
  <2>1. Cardinality(cands) \in Nat
    BY <1>2
  <2>2. Cardinality(t.left) # 0
    BY <1>1, <2>1
  <2> QED BY <2>2, FS_EmptySet
<1>4. c \in t.left
  <2>1. t.left \subseteq Ordinals(g)
    BY <1>1
  <2> QED BY <1>3, <2>1, ClosestIn
<1> HIDE DEF c
<1>5. Cardinality(t.left \ {c}) = Cardinality(cands) - k
  <2>1. Cardinality(t.left \ {c}) = Cardinality(t.left) - 1
    BY <1>1, <1>2, <1>4, FS_RemoveElement
  <2>2. Cardinality(cands) \in Nat
    BY <1>2
  <2> QED BY <1>1, <2>1, <2>2
<1>6. picked \subseteq cands /\ Cardinality(picked) <= m
  <2>1. CASE keep
    <3>1. Cardinality(t.picked \union {c}) \in {Cardinality(t.picked), Cardinality(t.picked) + 1}
      BY <1>1, <1>2, FS_AddElement
    <3>2. Cardinality(t.picked) \in Nat
      BY <1>1, <1>2
    <3> QED BY <1>1, <1>4, <2>1, <3>1, <3>2
  <2>2. CASE ~keep
    BY <1>1, <2>2
  <2> QED BY <2>1, <2>2
<1>7. PickStep(g, q, m, t) = [left |-> t.left \ {c}, picked |-> picked]
  BY DEF PickStep, c
<1> HIDE DEF picked
<1>8. t.left \ {c} \subseteq cands
  BY <1>1
<1> QED BY <1>5, <1>6, <1>7, <1>8 DEF Picked

LEMMA ChosenFew ==
    ASSUME NEW g, NEW i, Comparable(g, Vec(g, i)),
           NEW cands, cands \subseteq Ordinals(g), NEW m \in Nat
    PROVE  Chosen(g, i, cands, m) \subseteq cands /\ Cardinality(Chosen(g, i, cands, m)) <= m
<1> DEFINE n == Cardinality(cands)
           q == Vec(g, i)
           St == [k \in 0..n |-> Picked(cands, m, k)]
           All == [left : SUBSET cands, picked : SUBSET cands]
           next == [p \in (1..n) \X All |-> PickStep(g, q, m, p[2])]
           Is(w) == w = [k \in 0..n |-> IF k = 0 THEN PickStart(cands) ELSE PickStep(g, q, m, w[k - 1])]
<1>1. n \in Nat
  BY NodesFinite DEF Comparable
<1>2. \A k \in 0..n : St[k] = Picked(cands, m, k)
  OBVIOUS
<1>3. \A k \in 0..n : St[k] \subseteq All
  BY DEF Picked
<1>4. \A k \in 1..n : \A x \in All : next[<<k, x>>] = PickStep(g, q, m, x)
  OBVIOUS
<1>5. PickStart(cands) \in St[0]
  <2>1. Cardinality({}) = 0 /\ 0 \in 0..n
    BY <1>1, FS_EmptySet
  <2>2. PickStart(cands) \in Picked(cands, m, 0)
    <3>1. Cardinality(cands) = Cardinality(cands) - 0 /\ Cardinality({}) <= m
      BY <1>1, <2>1
    <3>2. /\ PickStart(cands) \in [left : SUBSET cands, picked : SUBSET cands]
          /\ PickStart(cands).left = cands /\ PickStart(cands).picked = {}
      BY DEF PickStart
    <3> QED BY <3>1, <3>2 DEF Picked
  <2> QED BY <1>2, <2>1, <2>2
<1>6. \A k \in 1..n : k \in 0..n /\ k - 1 \in 0..n
  BY <1>1
<1> HIDE DEF St, next, All, q
<1>7. ASSUME NEW k \in 1..n, NEW x \in St[k - 1] PROVE PickStep(g, q, m, x) \in St[k]
  <2>1. x \in Picked(cands, m, k - 1) /\ St[k] = Picked(cands, m, k)
    BY <1>2, <1>6
  <2>2. Comparable(g, q)
    BY DEF q
  <2> QED BY <2>1, <2>2, PickStays
<1> HIDE DEF n
<1>8. PICK w : Steps(w, n, PickStart(cands), next) /\ \A k \in 0..n : w[k] \in St[k]
  <2>1. ASSUME NEW k \in 1..n, NEW x \in St[k - 1] PROVE next[<<k, x>>] \in St[k]
    <3>1. x \in All
      BY <1>3, <1>6
    <3> QED BY <1>4, <1>7, <3>1
  <2> QED BY <1>1, <1>5, <2>1, Iterated
<1>9. Is(w)
  <2>1. \A k \in 1..n : next[<<k, w[k - 1]>>] = PickStep(g, q, m, w[k - 1])
    BY <1>3, <1>4, <1>6, <1>8
  <2>2. \A k \in 0..n : k = 0 \/ k \in 1..n
    BY <1>1
  <2> QED BY <1>8, <2>1, <2>2 DEF Steps
<1>10. Is(Turns(g, i, cands, m))
  BY <1>9, Zenon DEF Turns, n, q
<1> DEFINE v == Turns(g, i, cands, m)
<1> HIDE DEF v
<1>11. v = [k \in 0..n |-> IF k = 0 THEN PickStart(cands) ELSE PickStep(g, q, m, v[k - 1])]
  BY <1>10 DEF v
<1>12. v[0] = PickStart(cands) /\ \A k \in 1..n : v[k] = PickStep(g, q, m, v[k - 1])
  BY <1>1, <1>6, <1>11
<1>13. \A k \in 0..n : v[k] \in St[k]
  <2>1. \A k \in 1..n : v[k - 1] \in St[k - 1] => v[k] \in St[k]
    BY <1>7, <1>12
  <2> QED BY <1>1, <1>5, <1>12, <2>1, Kept
<1>14. v[n] \in Picked(cands, m, n)
  BY <1>1, <1>2, <1>13
<1>15. v[n].picked \subseteq cands /\ Cardinality(v[n].picked) <= m
  BY <1>14 DEF Picked
<1> QED BY <1>15 DEF Chosen, v, n

\* What is chosen are candidates, and at most m.
LEMMA SelectFew ==
    ASSUME NEW g, Shaped(g), VecsOnce(g), NEW i \in Ordinals(g),
           NEW cands, cands \subseteq Ordinals(g), NEW m \in Nat
    PROVE  /\ SelectNeighbours(g, i, cands, m) \subseteq cands
           /\ Cardinality(SelectNeighbours(g, i, cands, m)) <= m
<1> DEFINE A == Chosen(g, i, cands, m)
           q == Vec(g, i)
           B == Nearest(g, cands \ A, q, m - Cardinality(A))
<1>1. Comparable(g, q)
  BY NodeTypes, ShapedComparable
<1>2. A \subseteq cands /\ Cardinality(A) <= m
  BY <1>1, ChosenFew
<1>3. A \subseteq Ordinals(g) /\ cands \ A \subseteq Ordinals(g)
  BY <1>2
<1>4. IsFiniteSet(A) /\ Cardinality(A) \in Nat /\ m - Cardinality(A) \in Nat
  BY <1>1, <1>2, <1>3, NodesFinite DEF Comparable
<1> HIDE DEF A, q
<1>5. B \subseteq cands \ A /\ Cardinality(B) <= m - Cardinality(A)
  BY <1>1, <1>3, <1>4, NearestFew
<1>6. IsFiniteSet(B) /\ Cardinality(B) \in Nat
  <2>1. B \subseteq Ordinals(g)
    BY <1>3, <1>5
  <2> HIDE DEF B
  <2> QED BY <1>1, <2>1, NodesFinite DEF Comparable
<1> HIDE DEF B
<1>7. Cardinality(A \union B) = Cardinality(A) + Cardinality(B) - Cardinality(A \intersect B)
  BY <1>4, <1>6, FS_Union
<1>8. A \intersect B = {}
  BY <1>5
<1>9. Cardinality(A \union B) <= m
  BY <1>4, <1>5, <1>6, <1>7, <1>8, FS_EmptySet
<1>10. A \union B \subseteq cands
  BY <1>2, <1>5
<1> QED BY <1>9, <1>10, SelectIsTurns DEF A, B, q

-----------------------------------------------------------------------------
(* One wave: the links its nodes choose, and the links back.               *)

WavePicks(g, wave) == [i \in wave |-> Picks(g, i, Len(g.links[i]) - 1)]
Wanted(picks, i, L) == IF L \in DOMAIN picks[i] THEN picks[i][L] ELSE {}
Backs(wave, picks, nb, L) == {i \in wave : nb \in Wanted(picks, i, L)}
Taken(g, wave, picks, i, L) ==
    IF i \in wave THEN Wanted(picks, i, L)
    ELSE IF Backs(wave, picks, i, L) = {} THEN g.links[i][L + 1]
    ELSE TakeLinks(g, i, L, Backs(wave, picks, i, L))
TakenLinks(g, wave, picks) ==
    [i \in Ordinals(g) |-> [L \in 1..Len(g.links[i]) |-> Taken(g, wave, picks, i, L - 1)]]
Misses(g, wave, picks) ==
    \E i \in wave : \E L \in DOMAIN picks[i] : \E nb \in picks[i][L] : L >= Len(g.links[nb])

LEMMA LinkIs ==
    ASSUME NEW g, Shaped(g), ~g.sealed,
           NEW wave, wave \subseteq Ordinals(g), wave # {},
           \A i \in wave : Len(g.links[i]) \in 1..(MaxLevel + 1)
    PROVE  LET h == LinkWave(g, wave)
               picks == WavePicks(g, wave)
           IN  \/ Misses(g, wave, picks) /\ h = Undefined(g)
               \/ /\ ~Misses(g, wave, picks) /\ h.undefined = g.undefined
                  /\ h.links = TakenLinks(g, wave, picks)
                  /\ \/ h.top = g.top /\ h.entry = g.entry
                     \/ h.entry \in wave /\ h.top = Len(g.links[h.entry]) - 1
<1> DEFINE picks == WavePicks(g, wave)
           links == TakenLinks(g, wave, picks)
           h == LinkWave(g, wave)
           r == Raise(g, wave)
<1>1. h = IF Misses(g, wave, picks) THEN Undefined(g) ELSE [r EXCEPT !.links = links]
  BY DEF LinkWave, ApplyLinks, WavePicks, Wanted, Backs, Taken, TakenLinks, Misses
<1>2. IsGraph(g) /\ g.top \in -1..MaxLevel /\ Len(g.nodes) \in Nat
  BY DEF Shaped
<1>3. /\ IsGraph(r) /\ r.undefined = g.undefined
      /\ \/ r.top = g.top /\ r.entry = g.entry
         \/ r.entry \in wave /\ r.top = Len(g.links[r.entry]) - 1
  BY <1>2, Raised
<1> HIDE DEF links, r, picks
<1>4. CASE Misses(g, wave, picks)
  BY <1>1, <1>4 DEF picks
<1>5. CASE ~Misses(g, wave, picks)
  <2>1. h = [r EXCEPT !.links = links]
    BY <1>1, <1>5
  <2>2. h.undefined = r.undefined /\ h.links = links /\ h.top = r.top /\ h.entry = r.entry
    <3> HIDE DEF h
    <3> QED BY <1>3, <2>1 DEF IsGraph, EmptyGraph
  <2> HIDE DEF h
  <2>3. /\ h.undefined = g.undefined /\ h.links = links
        /\ \/ h.top = g.top /\ h.entry = g.entry
           \/ h.entry \in wave /\ h.top = Len(g.links[h.entry]) - 1
    BY <1>3, <2>2
  <2> QED BY <1>5, <2>3 DEF h, links, picks
<1> QED BY <1>4, <1>5

\* What a node not yet linked chooses, in the layers it shares with the graph.
LEMMA PicksRight ==
    ASSUME NEW g, Shaped(g), VecsOnce(g), NEW n \in 1..Len(g.nodes), LinkedTo(g, n), Entered(g, n),
           NEW i \in Ordinals(g), NEW level \in Nat
    PROVE  \A L \in DOMAIN Picks(g, i, level) :
               /\ L \in Nat /\ L <= level
               /\ Picks(g, i, level)[L] \subseteq At(g, n, L)
               /\ Cardinality(Picks(g, i, level)[L]) <= MaxM(L)
<1> DEFINE shared == IF level < g.top THEN level ELSE g.top
           q == Vec(g, i)
           e(L) == EntersAt(g, q, L, level, EfConstruction)
           found(L) == SearchLayer(g, q, e(L), L, EfConstruction)
<1>1. Len(g.nodes) \in Nat /\ n \in 0..Len(g.nodes) /\ n # 0 /\ g.top \in Nat
  BY DEF Shaped, Entered
<1>2. shared \in Nat /\ shared <= level /\ shared <= g.top
  BY <1>1
<1>3. Picks(g, i, level) = [L \in 0..shared |-> SelectNeighbours(g, i, found(L), MaxM(L))]
  BY DEF Picks
<1>4. q \in Vector /\ Comparable(g, q) /\ EfConstruction \in Nat \ {0} /\ level \in Int
  BY NodeTypes, ShapedComparable, BeamAssumption
<1> HIDE DEF shared, q
<1>5. ASSUME NEW L \in 0..shared
      PROVE  /\ L \in Nat /\ L <= level
             /\ SelectNeighbours(g, i, found(L), MaxM(L)) \subseteq At(g, n, L)
             /\ Cardinality(SelectNeighbours(g, i, found(L), MaxM(L))) <= MaxM(L)
  <2>1. L \in Nat /\ L <= level /\ L \in 0..g.top
    BY <1>1, <1>2
  <2>2. e(L) \in At(g, n, L)
    BY <1>4, <2>1, EntersStays
  <2>3. Closed(g, At(g, n, L), L)
    BY <1>1, <2>1, AtClosed
  <2> HIDE DEF e
  <2>4. found(L) \subseteq At(g, n, L)
    BY <1>4, <2>2, <2>3, SearchStays
  <2>5. found(L) \subseteq Ordinals(g)
    BY <2>3, <2>4 DEF Closed
  <2>6. MaxM(L) \in Nat
    BY BeamAssumption DEF MaxM
  <2> HIDE DEF found
  <2>7. /\ SelectNeighbours(g, i, found(L), MaxM(L)) \subseteq found(L)
        /\ Cardinality(SelectNeighbours(g, i, found(L), MaxM(L))) <= MaxM(L)
    BY <2>5, <2>6, SelectFew
  <2> QED BY <2>1, <2>4, <2>7
<1> HIDE DEF found
<1> QED BY <1>3, <1>5

\* The nodes after the first n have no links, in as many layers as their level.
Unlinked(g, n) ==
    \A i \in Ordinals(g) : i > n => g.links[i] = NoLinks(g.nodes[i].level)

LEMMA NoLinksLen ==
    ASSUME NEW level \in Nat
    PROVE  Len(NoLinks(level)) = level + 1 /\ \A L \in 1..(level + 1) : NoLinks(level)[L] = {}
BY DEF NoLinks

LEMMA LevelNat ==
    ASSUME NEW g, Shaped(g), NEW i \in Ordinals(g)
    PROVE  g.nodes[i].level \in Nat /\ g.nodes[i].level <= MaxLevel
<1>1. g.nodes[i] \in Node
  BY NodeTypes
<1>2. g.nodes[i].level \in 0..MaxLevel
  BY <1>1 DEF Node
<1> QED BY <1>2, ConstantsAssumption

\* A wave keeps the links sound, now among its nodes too, or finds a node with
\* fewer layers than its level.
LEMMA WaveLinked ==
    ASSUME NEW g, Shaped(g), ~g.sealed, VecsOnce(g),
           NEW n \in 1..Len(g.nodes), LinkedTo(g, n), Entered(g, n), Unlinked(g, n),
           NEW m \in (n + 1)..Len(g.nodes)
    PROVE  LET h == LinkWave(g, (n + 1)..m)
           IN  \/ /\ h = Undefined(g)
                  /\ \E i \in Ordinals(g) : Len(g.links[i]) <= g.nodes[i].level
               \/ h.undefined = g.undefined /\ LinkedTo(h, m) /\ Entered(h, m) /\ Unlinked(h, m)
<1> DEFINE wave == (n + 1)..m
           picks == WavePicks(g, wave)
           h == LinkWave(g, wave)
<1>1. /\ Len(g.nodes) \in Nat /\ n \in Nat /\ m \in Nat /\ n # 0 /\ m # 0 /\ n < m
      /\ m <= Len(g.nodes) /\ n \in 0..Len(g.nodes) /\ m \in 0..Len(g.nodes)
  <2> DEFINE len == Len(g.nodes)
  <2>1. len \in Nat
    BY DEF Shaped
  <2>2. n \in 1..len /\ m \in (n + 1)..len
    OBVIOUS
  <2> HIDE DEF len
  <2>3. n \in Nat /\ m \in Nat /\ n # 0 /\ m # 0 /\ n < m /\ m <= len /\ n <= len
    BY <2>1, <2>2
  <2> QED BY <2>1, <2>3 DEF len
<1>2. wave \subseteq Ordinals(g) /\ wave # {} /\ \A i \in wave : i > n /\ i <= m /\ i \in 1..m
  <2> DEFINE len == Len(g.nodes)
  <2>1. len \in Nat /\ n \in Nat /\ m \in Nat /\ n < m /\ m <= len
    BY <1>1
  <2> HIDE DEF len
  <2>2. \A i \in (n + 1)..m : i > n /\ i <= m /\ i \in 1..m /\ i \in 1..len
    BY <2>1
  <2>3. m \in (n + 1)..m
    BY <2>1
  <2> QED BY <2>2, <2>3 DEF len, Ordinals
<1>3. ASSUME NEW i \in wave
      PROVE  /\ g.nodes[i].level \in Nat /\ Len(g.links[i]) = g.nodes[i].level + 1
             /\ Len(g.links[i]) \in 1..(MaxLevel + 1)
  <2>1. g.nodes[i].level \in Nat /\ g.nodes[i].level <= MaxLevel
    BY <1>2, LevelNat
  <2>2. g.links[i] = NoLinks(g.nodes[i].level)
    BY <1>2 DEF Unlinked
  <2>3. Len(g.links[i]) = g.nodes[i].level + 1
    BY <2>1, <2>2, NoLinksLen
  <2> DEFINE a == g.nodes[i].level
             b == Len(g.links[i])
  <2>4. a \in Nat /\ a <= MaxLevel /\ b = a + 1 /\ MaxLevel \in Nat
    BY <2>1, <2>3, ConstantsAssumption
  <2> HIDE DEF a, b
  <2>5. b \in 1..(MaxLevel + 1)
    BY <2>4
  <2> QED BY <2>4, <2>5 DEF a, b
<1> HIDE DEF wave
<1>4. ASSUME NEW i \in wave, NEW L \in DOMAIN picks[i]
      PROVE  /\ L \in Nat /\ L <= g.nodes[i].level
             /\ picks[i][L] \subseteq At(g, n, L) /\ Cardinality(picks[i][L]) <= MaxM(L)
  <2>1. i \in Ordinals(g) /\ g.nodes[i].level \in Nat
    BY <1>2, <1>3
  <2>2. picks[i] = Picks(g, i, g.nodes[i].level)
    <3>1. Len(g.links[i]) - 1 = g.nodes[i].level
      BY <1>3
    <3>2. picks[i] = Picks(g, i, Len(g.links[i]) - 1)
      BY DEF WavePicks
    <3> QED BY <3>1, <3>2
  <2> HIDE DEF picks
  <2> QED BY <1>4, <2>1, <2>2, PicksRight
<1>5. \/ Misses(g, wave, picks) /\ h = Undefined(g)
      \/ /\ ~Misses(g, wave, picks) /\ h.undefined = g.undefined
         /\ h.links = TakenLinks(g, wave, picks)
         /\ \/ h.top = g.top /\ h.entry = g.entry
            \/ h.entry \in wave /\ h.top = Len(g.links[h.entry]) - 1
  BY <1>2, <1>3, LinkIs
<1>6. /\ Shaped(h) /\ h.nodes = g.nodes /\ ~h.sealed
      /\ \A i \in Ordinals(g) : Len(h.links[i]) = Len(g.links[i])
  BY <1>2, <1>3, LinkShaped DEF SameNodes
<1> HIDE DEF picks, h
<1>7. CASE Misses(g, wave, picks) /\ h = Undefined(g)
  <2>1. PICK i \in wave : \E L \in DOMAIN picks[i] : \E nb \in picks[i][L] : L >= Len(g.links[nb])
    BY <1>7 DEF Misses
  <2>2. PICK L \in DOMAIN picks[i] : \E nb \in picks[i][L] : L >= Len(g.links[nb])
    BY <2>1
  <2>3. PICK nb \in picks[i][L] : L >= Len(g.links[nb])
    BY <2>2
  <2>4. L \in Nat /\ nb \in At(g, n, L)
    BY <1>4
  <2>5. nb \in Ordinals(g) /\ g.nodes[nb].level >= L
    BY <1>1, <2>4 DEF At, Ordinals
  <2>6. g.nodes[nb].level \in Nat /\ Len(g.links[nb]) \in Nat
    BY <2>5, LevelNat DEF Shaped, List
  <2>7. Len(g.links[nb]) <= g.nodes[nb].level
    <3> DEFINE a == g.nodes[nb].level
               b == Len(g.links[nb])
    <3>1. L >= b /\ a >= L /\ L \in Nat /\ a \in Nat /\ b \in Nat
      BY <2>3, <2>4, <2>5, <2>6
    <3> HIDE DEF a, b
    <3>2. b <= a
      BY <3>1
    <3> QED BY <3>2 DEF a, b
  <2> QED BY <1>7, <2>5, <2>7 DEF h, wave
<1>8. CASE /\ ~Misses(g, wave, picks) /\ h.undefined = g.undefined
           /\ h.links = TakenLinks(g, wave, picks)
           /\ \/ h.top = g.top /\ h.entry = g.entry
              \/ h.entry \in wave /\ h.top = Len(g.links[h.entry]) - 1
  <2>0. h.links = [i \in Ordinals(g) |->
                      [L \in 1..Len(g.links[i]) |-> Taken(g, wave, picks, i, L - 1)]]
    BY <1>8 DEF TakenLinks
  <2>1. \A L \in Nat : MaxM(L) \in Nat
    BY BeamAssumption DEF MaxM
  <2>2. ASSUME NEW L \in Nat
        PROVE  /\ At(h, m, L) = At(g, m, L) /\ At(g, n, L) \subseteq At(g, m, L)
               /\ At(g, m, L) \subseteq Ordinals(g)
    BY <1>1, <1>6 DEF At, Ordinals
  <2>3. ASSUME NEW i \in wave, NEW L \in Nat
        PROVE  /\ Wanted(picks, i, L) \subseteq At(g, n, L)
               /\ Cardinality(Wanted(picks, i, L)) <= MaxM(L)
               /\ Wanted(picks, i, L) # {} => L <= g.nodes[i].level
    <3>1. CASE L \in DOMAIN picks[i]
      BY <1>4, <3>1 DEF Wanted
    <3>2. CASE L \notin DOMAIN picks[i]
      BY <2>1, <3>2, FS_EmptySet DEF Wanted
    <3> QED BY <3>1, <3>2
  <2>4. ASSUME NEW nb \in Ordinals(g), nb \notin wave, NEW L \in Nat
        PROVE  /\ Backs(wave, picks, nb, L) \subseteq At(g, m, L) \ {nb}
               /\ Backs(wave, picks, nb, L) # {} => nb <= n
    <3>1. ASSUME NEW i \in Backs(wave, picks, nb, L) PROVE i \in At(g, m, L) \ {nb} /\ nb <= n
      <4>1. i \in wave /\ nb \in Wanted(picks, i, L)
        BY DEF Backs
      <4>2. nb \in At(g, n, L) /\ L <= g.nodes[i].level
        BY <2>3, <4>1
      <4>3. nb <= n /\ i # nb
        BY <2>4, <4>1, <4>2 DEF At
      <4>4. i \in 1..m /\ g.nodes[i].level >= L
        <5>1. i > n /\ i <= m /\ i \in Nat /\ g.nodes[i].level \in Nat
          BY <1>2, <1>3, <4>1 DEF Ordinals
        <5> QED BY <1>1, <4>2, <5>1
      <4> QED BY <4>3, <4>4 DEF At
    <3> QED BY <3>1
  <2>5. ASSUME NEW i \in Ordinals(g), NEW L \in Nat, L < Len(g.links[i])
        PROVE  /\ Taken(g, wave, picks, i, L) \subseteq At(g, m, L) \ {i}
               /\ Cardinality(Taken(g, wave, picks, i, L)) <= MaxM(L)
    <3>1. CASE i \in wave
      <4>1. Taken(g, wave, picks, i, L) = Wanted(picks, i, L)
        BY <3>1 DEF Taken
      <4>2. i \notin At(g, n, L)
        BY <1>1, <1>2, <3>1 DEF At
      <4> QED BY <2>2, <2>3, <3>1, <4>1, <4>2
    <3>2. CASE i \notin wave
      <4> DEFINE old == g.links[i][L + 1]
                 new == Backs(wave, picks, i, L)
                 all == old \union new
      <4>1. old = Neighbours(g, i, L)
        BY <2>5 DEF Neighbours
      <4>2. old \subseteq At(g, n, L) \ {i} /\ Cardinality(old) <= MaxM(L)
        BY <4>1 DEF LinkedTo
      <4>3. new \subseteq At(g, m, L) \ {i}
        BY <2>4, <3>2
      <4>4. CASE new = {}
        <5>1. Taken(g, wave, picks, i, L) = old
          BY <3>2, <4>4 DEF Taken
        <5> HIDE DEF old
        <5> QED BY <2>2, <4>2, <5>1
      <4>5. CASE new # {}
        <5>1. Taken(g, wave, picks, i, L)
                = IF Cardinality(all) > MaxM(L) THEN SelectNeighbours(g, i, all, MaxM(L)) ELSE all
          BY <3>2, <4>5 DEF Taken, TakeLinks
        <5> HIDE DEF old, new
        <5>2. all \subseteq At(g, m, L) \ {i} /\ all \subseteq Ordinals(g)
          BY <2>2, <4>2, <4>3
        <5> HIDE DEF all
        <5>3. Cardinality(all) \in Nat /\ MaxM(L) \in Nat
          BY <1>1, <2>1, <5>2, NodesFinite
        <5>4. CASE Cardinality(all) > MaxM(L)
          <6>1. /\ SelectNeighbours(g, i, all, MaxM(L)) \subseteq all
                /\ Cardinality(SelectNeighbours(g, i, all, MaxM(L))) <= MaxM(L)
            BY <5>2, <5>3, SelectFew
          <6> QED BY <5>1, <5>2, <5>4, <6>1
        <5>5. CASE ~(Cardinality(all) > MaxM(L))
          <6>1. Cardinality(all) <= MaxM(L)
            BY <5>3, <5>5
          <6> QED BY <5>1, <5>2, <5>5, <6>1
        <5> QED BY <5>4, <5>5
      <4> QED BY <4>4, <4>5
    <3> QED BY <3>1, <3>2
  <2>6. LinkedTo(h, m)
    <3>1. ASSUME NEW i \in Ordinals(h), NEW L \in Nat
          PROVE  /\ Neighbours(h, i, L) \subseteq At(h, m, L) \ {i}
                 /\ Cardinality(Neighbours(h, i, L)) <= MaxM(L)
      <4>1. i \in Ordinals(g) /\ Len(g.links[i]) \in Nat /\ Len(h.links[i]) = Len(g.links[i])
        BY <1>6 DEF Ordinals, Shaped, List
      <4>2. CASE L < Len(g.links[i])
        <5>1. h.links[i][L + 1] = Taken(g, wave, picks, i, L)
          <6>1. L + 1 \in 1..Len(g.links[i]) /\ (L + 1) - 1 = L
            BY <4>1, <4>2
          <6> QED BY <2>0, <4>1, <6>1
        <5>2. Neighbours(h, i, L) = Taken(g, wave, picks, i, L)
          BY <1>6, <4>1, <4>2, <5>1 DEF Neighbours
        <5> QED BY <2>2, <2>5, <4>1, <4>2, <5>2
      <4>3. CASE ~(L < Len(g.links[i]))
        <5>1. Neighbours(h, i, L) = {}
          BY <1>6, <4>1, <4>3 DEF Neighbours
        <5> QED BY <2>1, <5>1, FS_EmptySet
      <4> QED BY <4>2, <4>3
    <3> QED BY <3>1 DEF LinkedTo
  <2>7. Entered(h, m)
    <3>1. CASE h.top = g.top /\ h.entry = g.entry
      BY <1>1, <2>2, <3>1 DEF Entered
    <3>2. CASE h.entry \in wave /\ h.top = Len(g.links[h.entry]) - 1
      <4>1. h.top = g.nodes[h.entry].level /\ h.top \in Nat
        <5> DEFINE a == g.nodes[h.entry].level
                   b == Len(g.links[h.entry])
        <5>1. a \in Nat /\ b = a + 1 /\ h.top = b - 1
          BY <1>3, <3>2
        <5> HIDE DEF a, b
        <5>2. h.top = a
          BY <5>1
        <5> QED BY <5>1, <5>2 DEF a
      <4>2. h.entry \in 1..m
        BY <1>2, <3>2
      <4>3. h.nodes[h.entry].level >= h.top
        BY <1>6, <4>1
      <4> QED BY <1>1, <4>1, <4>2, <4>3 DEF Entered, At
    <3> QED BY <1>8, <3>1, <3>2
  <2>8. Unlinked(h, m)
    <3>1. ASSUME NEW i \in Ordinals(g), i > m PROVE h.links[i] = g.links[i]
      <4>1. i \notin wave /\ ~(i <= n) /\ i > n
        BY <1>1, <1>2, <3>1 DEF Ordinals
      <4>2. \A L \in 1..Len(g.links[i]) : Taken(g, wave, picks, i, L - 1) = g.links[i][L]
        <5> SUFFICES ASSUME NEW L \in 1..Len(g.links[i])
                     PROVE  Taken(g, wave, picks, i, L - 1) = g.links[i][L]
          OBVIOUS
        <5>1. L - 1 \in Nat /\ (L - 1) + 1 = L
          OBVIOUS
        <5>2. Backs(wave, picks, i, L - 1) = {}
          BY <2>4, <4>1, <5>1
        <5> QED BY <4>1, <5>1, <5>2 DEF Taken
      <4>3. g.links[i] = [L \in 1..Len(g.links[i]) |-> g.links[i][L]]
        BY <1>6 DEF Shaped, List
      <4> QED BY <2>0, <4>2, <4>3
    <3>2. \A i \in Ordinals(g) : i > m => i > n
      BY <1>1 DEF Ordinals
    <3> QED BY <1>6, <3>1, <3>2 DEF Unlinked, Ordinals
  <2> QED BY <1>8, <2>6, <2>7, <2>8 DEF h, wave
<1> QED BY <1>5, <1>7, <1>8

-----------------------------------------------------------------------------
(* Sealing and unsealing keep the links.                                   *)

\* The same neighbours, entry and vectors.
SameLinks(g, h) ==
    /\ h.nodes = g.nodes /\ h.top = g.top /\ h.entry = g.entry
    /\ \A i \in Ordinals(g), L \in Nat : Neighbours(h, i, L) = Neighbours(g, i, L)

LEMMA SealLinks ==
    ASSUME NEW g, Shaped(g), NEW d \in BOOLEAN
    PROVE  SameLinks(g, Seal(g, d))
<1> DEFINE lens == {Len(g.links[i]) : i \in Ordinals(g)}
           layers == Most(lens)
           h == Seal(g, d)
<1>1. CASE g.sealed \/ g.nodes = <<>> \/ layers = 0
  <2>1. h = g
    BY <1>1 DEF Seal
  <2> QED BY <2>1 DEF SameLinks
<1>2. CASE ~(g.sealed \/ g.nodes = <<>> \/ layers = 0)
  <2>1. IsFiniteSet(Ordinals(g)) /\ Ordinals(g) # {} /\ \A i \in Ordinals(g) : Len(g.links[i]) \in Nat
    <3>1. Len(g.nodes) \in Nat /\ Len(g.nodes) # 0
      BY <1>2 DEF Shaped
    <3>2. \A i \in Ordinals(g) : Len(g.links[i]) \in Nat
      BY <1>2 DEF Shaped, List
    <3>3. IsFiniteSet(1..Len(g.nodes))
      BY <3>1, FS_Interval
    <3>4. 1 \in 1..Len(g.nodes)
      BY <3>1
    <3> QED BY <3>2, <3>3, <3>4 DEF Ordinals
  <2>2. layers \in Nat /\ \A i \in Ordinals(g) : Len(g.links[i]) <= layers
    <3> DEFINE f == [i \in Ordinals(g) |-> Len(g.links[i])]
    <3>1. \A i \in Ordinals(g) : f[i] \in Int
      BY <2>1
    <3>2. PICK i \in Ordinals(g) : \A j \in Ordinals(g) : f[j] <= f[i]
      <4> HIDE DEF f
      <4> QED BY <2>1, <3>1, GreatestValue
    <3>3. lens \in SUBSET Int /\ lens # {} /\ \A x \in lens : x <= Len(g.links[i])
      <4>1. \A j \in Ordinals(g) : Len(g.links[j]) <= Len(g.links[i]) /\ Len(g.links[j]) \in Int
        BY <2>1, <3>2
      <4> QED BY <2>1, <4>1
    <3>4. Most(lens) \in lens /\ \A x \in lens : x <= Most(lens)
      <4>1. Len(g.links[i]) \in Int
        BY <2>1
      <4> HIDE DEF lens
      <4> QED BY <3>3, <4>1, GreatestNumber
    <3>5. \A x \in lens : x \in Nat
      BY <2>1
    <3>6. \A j \in Ordinals(g) : Len(g.links[j]) \in lens
      OBVIOUS
    <3> HIDE DEF lens
    <3> QED BY <3>4, <3>5, <3>6
  <2>3. h = [g EXCEPT
               !.csr = [L \in 1..layers |->
                           [i \in Ordinals(g) |-> Neighbours(g, i, L - 1)]],
               !.links = [i \in Ordinals(g) |-> <<>>],
               !.codes = IF g.floats > 0 THEN Len(g.nodes) ELSE @,
               !.floats = IF d THEN 0 ELSE @,
               !.dropped = @ \/ d,
               !.sealed = TRUE]
    BY <1>2 DEF Seal
  <2> HIDE DEF h, layers
  <2>4. /\ h.sealed = TRUE /\ h.nodes = g.nodes /\ h.top = g.top /\ h.entry = g.entry
        /\ h.csr = [L \in 1..layers |-> [i \in Ordinals(g) |-> Neighbours(g, i, L - 1)]]
    BY <2>3 DEF Shaped, IsGraph, EmptyGraph
  <2>5. Len(h.csr) = layers
    BY <2>2, <2>4
  <2>6. ASSUME NEW i \in Ordinals(g), NEW L \in Nat PROVE Neighbours(h, i, L) = Neighbours(g, i, L)
    <3>1. CASE L < layers
      <4>1. L + 1 \in 1..layers /\ (L + 1) - 1 = L
        BY <2>2, <3>1
      <4>2. h.csr[L + 1][i] = Neighbours(g, i, L)
        BY <2>4, <4>1
      <4> QED BY <2>4, <2>5, <3>1, <4>2 DEF Neighbours
    <3>2. CASE ~(L < layers)
      <4>1. ~(L < Len(g.links[i]))
        BY <2>1, <2>2, <3>2
      <4>2. Neighbours(g, i, L) = {}
        BY <1>2, <4>1 DEF Neighbours
      <4>3. Neighbours(h, i, L) = {}
        BY <2>4, <2>5, <3>2 DEF Neighbours
      <4> QED BY <4>2, <4>3
    <3> QED BY <3>1, <3>2
  <2> QED BY <2>4, <2>6 DEF SameLinks, h
<1> QED BY <1>1, <1>2

\* What is unpacked are the links that were packed.
LEMMA UnpackedLinks ==
    ASSUME NEW g, Shaped(g), g.sealed, NEW i \in Ordinals(g), NEW L \in Nat
    PROVE  (IF L < Len(Unpacked(g)[i]) THEN Unpacked(g)[i][L + 1] ELSE {}) = Neighbours(g, i, L)
<1> DEFINE has == {0} \union {K \in 1..Len(g.csr) : g.csr[K][i] # {}}
           reached == Most(has)
           n == Len(g.csr)
<1>1. n \in Nat
  BY DEF Shaped
<1>2. reached \in has /\ \A K \in has : K <= reached
  BY <1>1, Reached
<1>3. Unpacked(g)[i] = [K \in 1..reached |-> g.csr[K][i]]
  BY DEF Unpacked
<1>4. Neighbours(g, i, L) = IF L < n THEN g.csr[L + 1][i] ELSE {}
  BY DEF Neighbours
<1>5. reached \in 0..n
  BY <1>1, <1>2
<1>6. ASSUME L < n, ~(L < reached) PROVE g.csr[L + 1][i] = {}
  <2>1. L + 1 \in 1..n
    BY <1>1, <1>6
  <2>2. ~(L + 1 <= reached)
    BY <1>5, <1>6
  <2>3. L + 1 \notin has
    BY <1>2, <2>2
  <2> QED BY <2>1, <2>3
<1> HIDE DEF reached, n
<1>7. Len(Unpacked(g)[i]) = reached
  BY <1>3, <1>5
<1>8. CASE L < reached
  <2>1. L + 1 \in 1..reached /\ L < n
    BY <1>1, <1>5, <1>8
  <2> QED BY <1>3, <1>4, <1>7, <1>8, <2>1
<1>9. CASE ~(L < reached)
  BY <1>4, <1>6, <1>7, <1>9
<1> QED BY <1>8, <1>9

LEMMA UnsealLinks ==
    ASSUME NEW g, Shaped(g)
    PROVE  SameLinks(g, Unseal(g))
<1> DEFINE h == Unseal(g)
<1>1. CASE ~g.sealed
  BY <1>1 DEF Unseal, SameLinks
<1>2. CASE g.sealed
  <2>1. h = [g EXCEPT !.links = Unpacked(g), !.csr = <<>>, !.sealed = FALSE, !.codes = 0]
    BY <1>2 DEF Unseal
  <2> HIDE DEF h
  <2>2. /\ h.sealed = FALSE /\ h.nodes = g.nodes /\ h.links = Unpacked(g)
        /\ h.top = g.top /\ h.entry = g.entry
    BY <2>1 DEF Shaped, IsGraph, EmptyGraph
  <2>3. ASSUME NEW i \in Ordinals(g), NEW L \in Nat PROVE Neighbours(h, i, L) = Neighbours(g, i, L)
    <3>1. Neighbours(h, i, L) = IF L < Len(Unpacked(g)[i]) THEN Unpacked(g)[i][L + 1] ELSE {}
      BY <2>2 DEF Neighbours
    <3> QED BY <1>2, <3>1, UnpackedLinks
  <2> QED BY <2>2, <2>3 DEF SameLinks, h
<1> QED BY <1>1, <1>2

-----------------------------------------------------------------------------
(* What searches, links and their bounds need of a graph.                  *)

Navigable(g) == LinkedTo(g, Len(g.nodes)) /\ Entered(g, Len(g.nodes)) /\ VecsOnce(g)

LEMMA SameNavigable ==
    ASSUME NEW g, NEW h, SameLinks(g, h), Navigable(g)
    PROVE  Navigable(h)
BY DEF SameLinks, Navigable, LinkedTo, Entered, VecsOnce, Vec, At, Ordinals

\* Links to some of the nodes are links to nodes.
LEMMA MoreNavigable ==
    ASSUME NEW g, Shaped(g), VecsOnce(g), NEW n \in 1..Len(g.nodes), LinkedTo(g, n), Entered(g, n)
    PROVE  Navigable(g)
<1>1. Len(g.nodes) \in Nat /\ n # 0 /\ Len(g.nodes) # 0
  BY DEF Shaped
<1>2. \A L : At(g, n, L) \subseteq At(g, Len(g.nodes), L)
  BY <1>1 DEF At
<1>3. LinkedTo(g, Len(g.nodes))
  <2> SUFFICES ASSUME NEW i \in Ordinals(g), NEW L \in Nat
               PROVE  /\ Neighbours(g, i, L) \subseteq At(g, Len(g.nodes), L) \ {i}
                      /\ Cardinality(Neighbours(g, i, L)) <= MaxM(L)
    BY DEF LinkedTo
  <2> QED BY <1>2 DEF LinkedTo
<1>4. Entered(g, Len(g.nodes))
  BY <1>1, <1>2 DEF Entered
<1> QED BY <1>3, <1>4 DEF Navigable

LEMMA EmptyNavigable == Navigable(EmptyGraph)
<1>1. Ordinals(EmptyGraph) = {} /\ Len(EmptyGraph.nodes) = 0 /\ EmptyGraph.top = -1
  BY DEF EmptyGraph, Ordinals
<1> QED BY <1>1 DEF Navigable, LinkedTo, Entered, VecsOnce

LEMMA UndefinedNavigable ==
    ASSUME NEW g, Shaped(g), Navigable(g)
    PROVE  Navigable(Undefined(g))
<1>1. LET h == Undefined(g)
      IN  /\ h.nodes = g.nodes /\ h.sealed = g.sealed /\ h.links = g.links
          /\ h.csr = g.csr /\ h.top = g.top /\ h.entry = g.entry
  BY UndefinedShaped DEF SameNodes
<1>2. SameLinks(g, Undefined(g))
  BY <1>1 DEF SameLinks, Neighbours
<1> QED BY <1>2, SameNavigable

-----------------------------------------------------------------------------
(* A batch.                                                                *)

Apart(items) == \A k, l \in 1..Len(items) : items[k].vec = items[l].vec => k = l

\* Between two waves: what is linked is linked soundly, the rest not at all.
Threaded(s, items, levels) ==
    /\ Growing(s, items, levels) /\ ~s.graph.undefined
    /\ LinkedTo(s.graph, s.linked) /\ Entered(s.graph, s.linked) /\ Unlinked(s.graph, s.linked)

LEMMA GrowingVecs ==
    ASSUME NEW items, NEW levels, Batch(items, levels), Apart(items),
           NEW s, Growing(s, items, levels)
    PROVE  /\ Shaped(s.graph) /\ ~s.graph.sealed /\ VecsOnce(s.graph)
           /\ Len(s.graph.nodes) = Len(items) /\ Len(items) \in Nat
           /\ \A i \in Ordinals(s.graph) :
                  /\ s.graph.nodes[i].level = levels[i] /\ levels[i] \in Nat
                  /\ Len(s.graph.links[i]) = levels[i] + 1
<1> DEFINE g == s.graph
<1>1. Shaped(g) /\ ~g.sealed /\ Len(g.nodes) = Len(items) /\ Len(items) \in Nat
  BY DEF Growing, Batch, List
<1>2. Ordinals(g) = 1..Len(items)
  BY <1>1 DEF Ordinals
<1>3. \A i \in 1..Len(items) :
          /\ g.nodes[i].level = levels[i] /\ Vec(g, i) = items[i].vec
          /\ Len(g.links[i]) = levels[i] + 1
  <2> SUFFICES ASSUME NEW i \in 1..Len(items)
               PROVE  /\ g.nodes[i].level = levels[i] /\ Vec(g, i) = items[i].vec
                      /\ Len(g.links[i]) = levels[i] + 1
    OBVIOUS
  <2>1. /\ g.nodes[i] = NewNode(items[i].id, items[i].vec, levels[i])
        /\ Len(g.links[i]) = levels[i] + 1
    BY DEF Growing
  <2> HIDE DEF g
  <2>2. g.nodes[i].level = levels[i] /\ Vec(g, i) = items[i].vec
    BY <2>1 DEF NewNode, Vec
  <2> QED BY <2>1, <2>2
<1>4. \A i \in 1..Len(items) : levels[i] \in Nat
  BY ConstantsAssumption DEF Batch
<1> HIDE DEF g
<1>5. VecsOnce(g)
  BY <1>2, <1>3 DEF VecsOnce, Apart
<1> QED BY <1>1, <1>2, <1>3, <1>4, <1>5 DEF g

LEMMA StartThreaded ==
    ASSUME NEW items, NEW levels, Batch(items, levels), Apart(items), items # <<>>
    PROVE  Threaded(BatchStart(EmptyGraph, items, levels), items, levels)
<1> DEFINE s == BatchStart(EmptyGraph, items, levels)
           g == s.graph
<1>1. /\ Growing(s, items, levels) /\ ~g.undefined
      /\ s.linked = 1 /\ g.entry = 1 /\ g.top = levels[1]
      /\ \A k \in 1..Len(items) : g.links[k] = NoLinks(levels[k])
  BY BuildStarts
<1> HIDE DEF s
<1>2. /\ Shaped(g) /\ ~g.sealed /\ Len(g.nodes) = Len(items) /\ Len(items) \in Nat
      /\ \A i \in Ordinals(g) : g.nodes[i].level = levels[i] /\ levels[i] \in Nat
  BY <1>1, GrowingVecs
<1> HIDE DEF g
<1>3. Ordinals(g) = 1..Len(items)
  BY <1>2 DEF Ordinals
<1>4. ASSUME NEW i \in Ordinals(g), NEW L \in Nat PROVE Neighbours(g, i, L) = {}
  <2>1. g.links[i] = NoLinks(levels[i]) /\ levels[i] \in Nat
    BY <1>1, <1>2, <1>3
  <2>2. Len(g.links[i]) = levels[i] + 1 /\ \A K \in 1..(levels[i] + 1) : g.links[i][K] = {}
    BY <2>1, NoLinksLen
  <2>3. CASE L < Len(g.links[i])
    <3>1. L + 1 \in 1..(levels[i] + 1)
      BY <2>1, <2>2, <2>3
    <3> QED BY <1>2, <2>2, <2>3, <3>1 DEF Neighbours
  <2>4. CASE ~(L < Len(g.links[i]))
    BY <1>2, <2>4 DEF Neighbours
  <2> QED BY <2>3, <2>4
<1>5. LinkedTo(g, 1)
  <2>1. \A L \in Nat : MaxM(L) \in Nat
    BY BeamAssumption DEF MaxM
  <2>2. \A L \in Nat : Cardinality({}) <= MaxM(L)
    BY <2>1, FS_EmptySet
  <2>3. \A i \in Ordinals(g), L \in Nat :
            /\ {} \subseteq At(g, 1, L) \ {i}
            /\ Neighbours(g, i, L) = {}
    BY <1>4
  <2> QED BY <2>2, <2>3, Zenon DEF LinkedTo
<1>6. Entered(g, 1)
  <2>1. 1 \in Ordinals(g)
    BY <1>1, <1>3 DEF Growing
  <2>2. g.nodes[1].level = levels[1] /\ levels[1] \in Nat
    BY <1>2, <2>1
  <2>3. g.nodes[1].level >= g.top /\ g.top \in Nat
    BY <1>1, <2>2
  <2> QED BY <1>1, <2>3 DEF Entered, At
<1>7. Unlinked(g, 1)
  BY <1>1, <1>2, <1>3 DEF Unlinked
<1> QED BY <1>1, <1>5, <1>6, <1>7 DEF Threaded, g, s

LEMMA StepThreaded ==
    ASSUME NEW items, NEW levels, Batch(items, levels), Apart(items),
           NEW s, Threaded(s, items, levels)
    PROVE  Threaded(WaveStep(s, Len(items)), items, levels)
<1> DEFINE g == s.graph
           n == s.linked
           len == Len(items)
           size == WaveSize(n, len)
           h == LinkWave(g, (n + 1)..(n + size))
           t == WaveStep(s, len)
<1>1. Growing(t, items, levels)
  BY WaveGrows DEF Threaded
<1>2. /\ Shaped(g) /\ ~g.sealed /\ VecsOnce(g) /\ Len(g.nodes) = len /\ len \in Nat
      /\ \A i \in Ordinals(g) :
             /\ g.nodes[i].level = levels[i] /\ levels[i] \in Nat
             /\ Len(g.links[i]) = levels[i] + 1
  BY GrowingVecs DEF Threaded
<1>3. n \in 1..len /\ ~g.undefined /\ LinkedTo(g, n) /\ Entered(g, n) /\ Unlinked(g, n)
  BY DEF Threaded, Growing
<1> HIDE DEF g, n, len
<1>4. size \in Nat /\ n + size <= len /\ n \in Nat
  BY <1>2, <1>3, WaveFits
<1>5. CASE size = 0
  <2>1. t = s
    BY <1>5 DEF WaveStep, n, len
  <2> QED BY <2>1 DEF len
<1>6. CASE size # 0
  <2>1. t = [graph |-> h, linked |-> n + size]
    BY <1>3, <1>6 DEF WaveStep, n, len, g
  <2>2. n \in 1..Len(g.nodes) /\ n + size \in (n + 1)..Len(g.nodes)
    BY <1>2, <1>3, <1>4, <1>6
  <2>3. ~\E i \in Ordinals(g) : Len(g.links[i]) <= g.nodes[i].level
    <3> SUFFICES ASSUME NEW i \in Ordinals(g), Len(g.links[i]) <= g.nodes[i].level PROVE FALSE
      OBVIOUS
    <3>1. levels[i] \in Nat /\ levels[i] + 1 <= levels[i]
      BY <1>2
    <3> QED BY <3>1
  <2> HIDE DEF size
  <2>4. h.undefined = g.undefined /\ LinkedTo(h, n + size) /\ Entered(h, n + size) /\ Unlinked(h, n + size)
    BY <1>2, <1>3, <2>2, <2>3, WaveLinked
  <2> HIDE DEF h, t
  <2>5. t.graph = h /\ t.linked = n + size
    BY <2>1
  <2> QED BY <1>1, <1>3, <2>4, <2>5 DEF Threaded, t, len
<1> QED BY <1>5, <1>6

LEMMA BuiltNavigable ==
    ASSUME NEW items, NEW levels, Batch(items, levels), Apart(items), NEW d \in BOOLEAN
    PROVE  LET h == BuildBatch(EmptyGraph, items, levels, d)
           IN  Navigable(h) /\ ~h.undefined
<1> DEFINE h == BuildBatch(EmptyGraph, items, levels, d)
<1>1. CASE items = <<>>
  <2>1. h = EmptyGraph
    BY <1>1 DEF BuildBatch, Unseal, EmptyGraph
  <2> QED BY <2>1, EmptyNavigable DEF EmptyGraph
<1>2. CASE items # <<>>
  <2> DEFINE start == BatchStart(EmptyGraph, items, levels)
             n == Len(items)
             w == WaveStates(start, Len(start.graph.nodes), n)
             g == w[n].graph
             N == {k \in Nat : k <= n => Threaded(w[k], items, levels)}
  <2>1. h = Seal(g, d)
    BY <1>2, BuildIs
  <2>2. n \in Nat /\ Threaded(start, items, levels)
    BY <1>2, StartThreaded DEF Batch, List
  <2>3. Len(start.graph.nodes) = n
    BY <2>2, GrowingVecs DEF Threaded
  <2>4. w[0] = start /\ \A k \in 1..n : w[k] = WaveStep(w[k - 1], Len(start.graph.nodes))
    BY <2>2, WavesGo
  <2> HIDE DEF w, start
  <2>5. 0 \in N
    BY <2>2, <2>4
  <2>6. ASSUME NEW k \in Nat, k \in N PROVE k + 1 \in N
    <3> SUFFICES ASSUME k + 1 <= n PROVE Threaded(w[k + 1], items, levels)
      OBVIOUS
    <3>1. k + 1 \in 1..n /\ (k + 1) - 1 = k /\ k <= n
      BY <2>2
    <3>2. w[k + 1] = WaveStep(w[k], n) /\ Threaded(w[k], items, levels)
      BY <2>3, <2>4, <2>6, <3>1
    <3> QED BY <3>2, StepThreaded
  <2>7. n \in N
    <3> HIDE DEF N
    <3> QED BY <2>2, <2>5, <2>6, Induction
  <2>8. Threaded(w[n], items, levels)
    BY <2>2, <2>7
  <2>9. /\ Shaped(g) /\ VecsOnce(g) /\ ~g.undefined /\ w[n].linked \in 1..Len(g.nodes)
        /\ LinkedTo(g, w[n].linked) /\ Entered(g, w[n].linked)
    BY <2>8, GrowingVecs DEF Threaded, Growing
  <2> HIDE DEF g, h
  <2>10. Navigable(g)
    BY <2>9, MoreNavigable
  <2>11. Navigable(h)
    BY <2>1, <2>9, <2>10, SealLinks, SameNavigable
  <2> QED BY <2>1, <2>9, <2>11, SealShaped DEF h
<1> QED BY <1>1, <1>2

-----------------------------------------------------------------------------
(* The other operations of the graph.                                      *)

LEMMA RemovedNavigable ==
    ASSUME NEW g, GraphOk(g), Navigable(g), NEW id \in Id
    PROVE  Navigable(RemoveId(g, id))
<1>1. LET h == RemoveId(g, id)
      IN  /\ h.nodes = g.nodes /\ h.sealed = g.sealed /\ h.links = g.links
          /\ h.csr = g.csr /\ h.top = g.top /\ h.entry = g.entry
  BY Removed
<1>2. SameLinks(g, RemoveId(g, id))
  BY <1>1 DEF SameLinks, Neighbours
<1> QED BY <1>2, SameNavigable

\* A node is staged: it is not yet linked, the others are as they were.
LEMMA ReadiedNavigable ==
    ASSUME NEW g, GraphOk(g), Navigable(g),
           NEW id \in Id, NEW vec \in Vector, NEW level \in 0..MaxLevel,
           \A i \in Ordinals(g) : Vec(g, i) # vec
    PROVE  LET h == Ready(g, id, vec, level)
               len == Len(g.nodes)
           IN  /\ VecsOnce(h) /\ LinkedTo(h, len) /\ Entered(h, len) /\ Unlinked(h, len)
               /\ \A L \in Nat : Neighbours(h, len + 1, L) = {}
<1> DEFINE h == Ready(g, id, vec, level)
           len == Len(g.nodes)
           n == len + 1
           u == Unseal(g)
<1>1. /\ Shaped(h) /\ ~h.sealed /\ h.top = g.top /\ h.entry = g.entry
      /\ len \in Nat /\ Len(h.nodes) = n
      /\ h.nodes[n] = NewNode(id, vec, level)
      /\ h.links[n] = NoLinks(level) /\ Len(h.links[n]) = level + 1
      /\ \A i \in Ordinals(g) :
            /\ h.links[i] = u.links[i]
            /\ h.nodes[i].vec = g.nodes[i].vec
            /\ h.nodes[i].level = g.nodes[i].level
  BY Readied DEF GraphOk
<1>2. ~u.sealed /\ u.nodes = g.nodes
  BY UnsealShaped DEF GraphOk, SameNodes
<1>3. \A i \in Ordinals(g), L \in Nat : Neighbours(u, i, L) = Neighbours(g, i, L)
  BY UnsealLinks DEF GraphOk, SameLinks
<1>4. level \in Nat
  BY ConstantsAssumption
<1> HIDE DEF h, u
<1>5. /\ Ordinals(g) = 1..len /\ Ordinals(h) = 1..n
      /\ \A i \in Ordinals(h) : i \in Ordinals(g) \/ i = n
      /\ n \notin Ordinals(g)
  <2>1. Ordinals(g) = 1..len /\ Ordinals(h) = 1..n
    BY <1>1 DEF Ordinals
  <2> HIDE DEF len
  <2>2. \A i \in 1..n : i \in 1..len \/ i = n
    BY <1>1
  <2>3. n \notin 1..len
    BY <1>1
  <2> QED BY <2>1, <2>2, <2>3
<1>6. \A i \in Ordinals(g), L \in Nat : Neighbours(h, i, L) = Neighbours(g, i, L)
  BY <1>1, <1>2, <1>3 DEF Neighbours
<1>7. ASSUME NEW L \in Nat PROVE Neighbours(h, n, L) = {}
  <2>1. CASE L < level + 1
    <3>1. L + 1 \in 1..(level + 1)
      BY <1>4, <2>1
    <3>2. h.links[n][L + 1] = {}
      BY <1>1, <1>4, <3>1, NoLinksLen
    <3> QED BY <1>1, <3>2 DEF Neighbours
  <2>2. CASE ~(L < level + 1)
    BY <1>1, <2>2 DEF Neighbours
  <2> QED BY <2>1, <2>2
<1>8. \A L : At(h, len, L) = At(g, len, L)
  BY <1>1, <1>5 DEF At
<1>9. LinkedTo(h, len)
  <2> SUFFICES ASSUME NEW i \in Ordinals(h), NEW L \in Nat
               PROVE  /\ Neighbours(h, i, L) \subseteq At(h, len, L) \ {i}
                      /\ Cardinality(Neighbours(h, i, L)) <= MaxM(L)
    BY DEF LinkedTo
  <2>1. CASE i \in Ordinals(g)
    BY <1>6, <1>8, <2>1 DEF Navigable, LinkedTo
  <2>2. CASE i = n
    <3>1. MaxM(L) \in Nat
      BY BeamAssumption DEF MaxM
    <3>2. Neighbours(h, i, L) = {}
      BY <1>7, <2>2
    <3> QED BY <3>1, <3>2, FS_EmptySet
  <2> QED BY <1>5, <2>1, <2>2
<1>10. Entered(h, len)
  BY <1>1, <1>8 DEF Navigable, Entered
<1>11. VecsOnce(h)
  <2>1. \A i \in Ordinals(g) : Vec(h, i) = Vec(g, i) /\ Vec(h, i) # vec
    BY <1>1 DEF Vec
  <2>2. Vec(h, n) = vec
    BY <1>1 DEF NewNode, Vec
  <2>3. \A i, j \in Ordinals(g) : Vec(g, i) = Vec(g, j) => i = j
    BY DEF Navigable, VecsOnce
  <2> QED BY <1>5, <2>1, <2>2, <2>3 DEF VecsOnce
<1>12. Unlinked(h, len)
  <2> SUFFICES ASSUME NEW i \in Ordinals(h), i > len PROVE h.links[i] = NoLinks(h.nodes[i].level)
    BY DEF Unlinked
  <2>1. i = n
    <3> HIDE DEF len
    <3>1. i \in 1..(len + 1)
      BY <1>5
    <3> QED BY <1>1, <3>1
  <2>2. h.nodes[n].level = level
    BY <1>1 DEF NewNode
  <2> QED BY <1>1, <2>1, <2>2
<1> QED BY <1>7, <1>9, <1>10, <1>11, <1>12 DEF h

\* An add keeps the links sound.  What it may do outside the arrays needs
\* vectors that are gone or a node with fewer layers than its level.
LEMMA AddedNavigable ==
    ASSUME NEW g, GraphOk(g), Navigable(g),
           NEW id \in Id, NEW vec \in Vector, NEW level \in 0..MaxLevel,
           \A i \in Ordinals(g) : Vec(g, i) # vec
    PROVE  LET h == Add(g, id, vec, level)
           IN  /\ Navigable(h)
               /\ \/ h.undefined = g.undefined
                  \/ g.floats # Len(g.nodes)
                  \/ \E i \in Ordinals(h) : Len(h.links[i]) <= h.nodes[i].level
<1> DEFINE h == Add(g, id, vec, level)
           s == Ready(g, id, vec, level)
           len == Len(g.nodes)
           n == len + 1
           before == EnsureIdIndex(Unseal(g))
<1>1. /\ Shaped(s) /\ ~s.sealed /\ s.undefined = g.undefined /\ s.top = g.top /\ s.entry = g.entry
      /\ s.floats = g.floats + 1 /\ len \in Nat /\ Len(s.nodes) = n
      /\ s.nodes[n] = NewNode(id, vec, level)
  BY Readied DEF GraphOk
<1>2. /\ VecsOnce(s) /\ LinkedTo(s, len) /\ Entered(s, len) /\ Unlinked(s, len)
      /\ \A L \in Nat : Neighbours(s, n, L) = {}
  BY ReadiedNavigable
<1>3. before.nodes = g.nodes /\ before.top = g.top
  <2>1. /\ Shaped(Unseal(g)) /\ SameNodes(g, Unseal(g)) /\ Unseal(g).top = g.top
    BY UnsealShaped DEF GraphOk
  <2>2. IndexRight(Unseal(g))
    BY <2>1 DEF GraphOk, IndexRight, SameNodes, Ordinals
  <2>3. before.nodes = Unseal(g).nodes /\ before.top = Unseal(g).top
    BY <2>1, <2>2, IndexEnsured
  <2> QED BY <2>1, <2>3 DEF SameNodes
<1>4. h = IF g.top < 0 THEN [s EXCEPT !.top = level, !.entry = n]
          ELSE IF s.floats # n THEN Undefined(s)
          ELSE LinkWave(s, {n})
  <2>1. h = IF before.top < 0 THEN [s EXCEPT !.top = level, !.entry = Len(before.nodes) + 1]
            ELSE IF s.floats # Len(before.nodes) + 1 THEN Undefined(s)
            ELSE LinkWave(s, {Len(before.nodes) + 1})
    BY DEF Add, Ready, Marked
  <2> HIDE DEF h, s, before
  <2> QED BY <1>3, <2>1
<1>5. level \in Nat /\ n \in 1..n /\ \A L \in Nat : MaxM(L) \in Nat
  <2>1. n \in 1..n
    <3> HIDE DEF len
    <3> QED BY <1>1
  <2> QED BY <2>1, ConstantsAssumption, BeamAssumption DEF MaxM
<1> HIDE DEF h, s, before
<1>6. CASE len = 0
  <2>1. g.top < 0
    BY <1>6 DEF Navigable, Entered
  <2>2. /\ h.nodes = s.nodes /\ h.links = s.links /\ h.csr = s.csr /\ h.sealed = s.sealed
        /\ h.undefined = s.undefined /\ h.top = level /\ h.entry = n
    BY <1>1, <1>4, <2>1 DEF Shaped, IsGraph, EmptyGraph
  <2>3. n = 1 /\ Ordinals(h) = {1} /\ Len(h.nodes) = 1
    <3>1. n = 1 /\ 1..1 = {1}
      BY <1>6
    <3>2. Len(h.nodes) = n
      BY <1>1, <2>2
    <3> QED BY <3>1, <3>2 DEF Ordinals
  <2>4. LinkedTo(h, 1)
    <3>1. \A L \in Nat : Neighbours(h, 1, L) = {}
      BY <1>2, <2>2, <2>3 DEF Neighbours
    <3>2. \A L \in Nat : Cardinality({}) <= MaxM(L)
      BY <1>5, FS_EmptySet
    <3>3. \A i \in Ordinals(h), L \in Nat :
              {} \subseteq At(h, 1, L) \ {i} /\ Neighbours(h, i, L) = {}
      BY <2>3, <3>1
    <3> QED BY <3>2, <3>3, Zenon DEF LinkedTo
  <2>5. Entered(h, 1)
    <3>1. h.nodes[1].level = level /\ level >= level
      <4>1. h.nodes[1] = NewNode(id, vec, level)
        BY <1>1, <2>2, <2>3
      <4>2. h.nodes[1].level = level
        BY <4>1 DEF NewNode
      <4>3. level >= level
        BY <1>5
      <4> QED BY <4>2, <4>3
    <3> QED BY <1>5, <2>2, <2>3, <3>1 DEF Entered, At
  <2>6. VecsOnce(h)
    BY <2>3 DEF VecsOnce
  <2> QED BY <1>1, <2>2, <2>3, <2>4, <2>5, <2>6 DEF Navigable, h
<1>7. CASE len # 0
  <2>1. ~(g.top < 0) /\ len \in 1..Len(s.nodes) /\ n \in (len + 1)..Len(s.nodes)
    <3>1. g.top \in Nat
      BY <1>7 DEF Navigable, Entered
    <3>2. len \in 1..n /\ n \in (len + 1)..n
      <4> HIDE DEF len
      <4> QED BY <1>1, <1>7
    <3> QED BY <1>1, <3>1, <3>2
  <2>2. Navigable(s)
    BY <1>1, <1>2, <2>1, MoreNavigable
  <2>3. CASE s.floats # n
    <3>1. h = Undefined(s)
      BY <1>4, <2>1, <2>3
    <3>2. g.floats # len
      BY <1>1, <2>3
    <3> QED BY <1>1, <2>2, <3>1, <3>2, UndefinedNavigable DEF h
  <2>4. CASE s.floats = n
    <3>1. h = LinkWave(s, {n})
      BY <1>4, <2>1, <2>4
    <3>2. (len + 1)..n = {n}
      <4> HIDE DEF len
      <4> QED BY <1>1
    <3>3. \/ /\ h = Undefined(s)
             /\ \E i \in Ordinals(s) : Len(s.links[i]) <= s.nodes[i].level
          \/ h.undefined = s.undefined /\ LinkedTo(h, n) /\ Entered(h, n) /\ Unlinked(h, n)
      <4>1. \/ /\ LinkWave(s, (len + 1)..n) = Undefined(s)
               /\ \E i \in Ordinals(s) : Len(s.links[i]) <= s.nodes[i].level
            \/ /\ LinkWave(s, (len + 1)..n).undefined = s.undefined
               /\ LinkedTo(LinkWave(s, (len + 1)..n), n) /\ Entered(LinkWave(s, (len + 1)..n), n)
               /\ Unlinked(LinkWave(s, (len + 1)..n), n)
        <5> HIDE DEF n, len
        <5> QED BY <1>1, <1>2, <2>1, WaveLinked
      <4> QED BY <3>1, <3>2, <4>1
    <3>4. CASE h = Undefined(s) /\ \E i \in Ordinals(s) : Len(s.links[i]) <= s.nodes[i].level
      <4>1. Navigable(h)
        BY <1>1, <2>2, <3>4, UndefinedNavigable
      <4>2. h.nodes = s.nodes /\ h.links = s.links
        BY <1>1, <3>4, UndefinedShaped DEF SameNodes
      <4>3. \E i \in Ordinals(h) : Len(h.links[i]) <= h.nodes[i].level
        BY <3>4, <4>2 DEF Ordinals
      <4> QED BY <4>1, <4>3 DEF h
    <3>5. CASE h.undefined = s.undefined /\ LinkedTo(h, n) /\ Entered(h, n)
      <4>1. Shaped(h) /\ h.nodes = s.nodes
        <5>1. GraphOk(h)
          BY Added DEF h
        <5>2. h.nodes = s.nodes
          <6>1. Len(s.links[n]) \in 1..(MaxLevel + 1)
            <7>1. Len(s.links[n]) = level + 1
              BY Readied DEF s, GraphOk
            <7>2. level + 1 \in 1..(MaxLevel + 1)
              BY <1>5, ConstantsAssumption
            <7> QED BY <7>1, <7>2
          <6>2. {n} \subseteq Ordinals(s) /\ {n} # {}
            BY <1>1, <1>5 DEF Ordinals
          <6>3. \A i \in {n} : Len(s.links[i]) \in 1..(MaxLevel + 1)
            BY <6>1
          <6> QED BY <1>1, <3>1, <6>2, <6>3, LinkShaped DEF SameNodes
        <5> QED BY <5>1, <5>2 DEF GraphOk
      <4>2. VecsOnce(h) /\ Len(h.nodes) = n
        BY <1>1, <1>2, <4>1 DEF VecsOnce, Vec, Ordinals
      <4> QED BY <1>1, <3>5, <4>2 DEF Navigable, h
    <3> QED BY <3>3, <3>4, <3>5
  <2> QED BY <2>3, <2>4
<1> QED BY <1>6, <1>7

LEMMA SurvivorsApart ==
    ASSUME NEW g, GraphOk(g), VecsOnce(g)
    PROVE  Apart(Survivors(g))
<1> DEFINE items == Survivors(g)
<1>1. /\ Distinct(items)
      /\ \A k \in 1..Len(items) : \E i \in Live(g) :
             items[k].id = g.nodes[i].id /\ items[k].vec = Vec(g, i)
  BY SurvivorsRight
<1> HIDE DEF items
<1>2. ASSUME NEW k \in 1..Len(items), NEW l \in 1..Len(items), items[k].vec = items[l].vec
      PROVE  k = l
  <2>1. PICK i \in Live(g) : items[k].id = g.nodes[i].id /\ items[k].vec = Vec(g, i)
    BY <1>1
  <2>2. PICK j \in Live(g) : items[l].id = g.nodes[j].id /\ items[l].vec = Vec(g, j)
    BY <1>1
  <2>3. i = j
    BY <1>2, <2>1, <2>2 DEF VecsOnce, Live
  <2> QED BY <1>1, <2>1, <2>2, <2>3 DEF Distinct
<1> QED BY <1>2 DEF Apart, items

\* A compaction leaves its arrays only when exact vectors are gone.
LEMMA CompactedNavigable ==
    ASSUME NEW g, GraphOk(g), Navigable(g), ~g.undefined, NEW levels, NEW d \in BOOLEAN,
           Stale(g) => \A k \in 1..Cardinality(Live(g)) : levels[k] \in 0..MaxLevel
    PROVE  LET h == Compact(g, levels, d)
           IN  /\ Navigable(h)
               /\ h.undefined => g.floats # Len(g.nodes)
               /\ ~d /\ g.floats = Len(g.nodes) => h.floats = Len(h.nodes)
<1> DEFINE h == Compact(g, levels, d)
           items == Survivors(g)
<1>1. CASE h = g /\ ~Stale(g)
  BY <1>1
<1>2. CASE h = Undefined(g) /\ g.floats < Len(g.nodes)
  <2>1. Navigable(Undefined(g))
    BY UndefinedNavigable DEF GraphOk
  <2>2. g.floats # Len(g.nodes)
    BY <1>2 DEF GraphOk, Shaped
  <2> QED BY <1>2, <2>1, <2>2
<1>3. CASE h = BuildBatch(EmptyGraph, items, levels, d) /\ Stale(g)
  <2>1. Batch(items, levels) /\ Distinct(items)
    BY <1>3, SurvivorsRight DEF Batch
  <2>2. Apart(items)
    BY SurvivorsApart DEF Navigable
  <2> HIDE DEF items, h
  <2>3. Navigable(h) /\ ~h.undefined
    BY <1>3, <2>1, <2>2, BuiltNavigable
  <2>4. ~d => h.floats = Len(h.nodes)
    BY <1>3, <2>1, BuiltRight
  <2> QED BY <2>3, <2>4 DEF h
<1>4. CASE ~Stale(g)
  <2>1. h = g
    BY <1>4 DEF Compact
  <2> QED BY <2>1
<1> QED BY <1>1, <1>2, <1>3, <1>4, Compacted

LEMMA UnpackedNavigable ==
    ASSUME NEW g, GraphOk(g), Navigable(g)
    PROVE  Navigable(WithLinks(g))
<1> DEFINE h == WithLinks(g)
<1>1. /\ SameNodes(g, h) /\ h.sealed = g.sealed /\ h.csr = g.csr
      /\ h.top = g.top /\ h.entry = g.entry
      /\ h.links = IF g.sealed THEN Unpacked(g) ELSE g.links
  BY WithLinksOk
<1> HIDE DEF h
<1>2. h.nodes = g.nodes
  BY <1>1 DEF SameNodes
<1>3. \A i \in Ordinals(g), L \in Nat : Neighbours(h, i, L) = Neighbours(g, i, L)
  BY <1>1, <1>2 DEF Neighbours
<1>4. SameLinks(g, h)
  BY <1>1, <1>2, <1>3 DEF SameLinks
<1> QED BY <1>4, SameNavigable DEF h

\* A graph comes back from its blob as sound as it was.
LEMMA RestoredNavigable ==
    ASSUME NEW g, GraphOk(g), ~Stale(g), Navigable(g)
    PROVE  Navigable(Deserialize(Serialize(g)))
<1> DEFINE h == Deserialize(Serialize(g))
           len == Len(g.nodes)
<1>1. /\ ~h.sealed /\ h.top = g.top /\ h.entry = g.entry /\ Len(h.nodes) = len
      /\ h.links = WithLinks(g).links
      /\ \A i \in Ordinals(g) :
            h.nodes[i].vec = g.nodes[i].vec /\ h.nodes[i].level = g.nodes[i].level
  BY Restored
<1> HIDE DEF h
<1>2. Ordinals(h) = Ordinals(g) /\ Ordinals(g) = 1..len
  BY <1>1 DEF Ordinals
<1>3. ASSUME NEW i \in Ordinals(g), NEW L \in Nat PROVE Neighbours(h, i, L) = Neighbours(g, i, L)
  <2>1. WithLinks(g).links = IF g.sealed THEN Unpacked(g) ELSE g.links
    BY WithLinksOk
  <2>2. CASE g.sealed
    <3>1. Neighbours(h, i, L) = IF L < Len(Unpacked(g)[i]) THEN Unpacked(g)[i][L + 1] ELSE {}
      BY <1>1, <2>1, <2>2 DEF Neighbours
    <3> QED BY <2>2, <3>1, UnpackedLinks DEF GraphOk
  <2>3. CASE ~g.sealed
    BY <1>1, <2>1, <2>3 DEF Neighbours
  <2> QED BY <2>2, <2>3
<1>4. \A L : At(h, len, L) = At(g, len, L)
  BY <1>1, <1>2 DEF At
<1>5. LinkedTo(h, len)
  BY <1>2, <1>3, <1>4 DEF LinkedTo, Navigable
<1>6. Entered(h, len)
  BY <1>1, <1>4 DEF Entered, Navigable
<1>7. VecsOnce(h)
  BY <1>1, <1>2 DEF VecsOnce, Vec, Navigable
<1> QED BY <1>1, <1>5, <1>6, <1>7 DEF Navigable, h

-----------------------------------------------------------------------------
(* The links in every behaviour.                                           *)

RowsApart == \A i, j \in Rows : arena[i].vec = arena[j].vec => i = j

StoredSound(c) == Apart(c.rows) /\ (c.built => Navigable(Deserialize(c.graph)))

\* The exact vectors are there unless they are to be dropped.
FloatsThere == ~dropFloats /\ ~graph.undefined => graph.floats = Len(graph.nodes)

WritingSound == writing # <<>> => StoredSound(writing[1])
DiskSound == disk \in {NoFile, Torn} \/ StoredSound(disk)

\* Besides IInv: the graph is sound, of distinct vectors, and so is the file.
LInv ==
    /\ Navigable(graph) /\ RowsApart /\ FloatsThere /\ UndefinedOnlyThere
    /\ WritingSound /\ DiskSound

LEMMA PackedApart ==
    ASSUME RowsOk, RowsApart
    PROVE  Apart(Packed)
<1>1. /\ Len(Packed) = count
      /\ \A k \in 1..count : \E i \in LiveRows : Packed[k] = arena[i]
      /\ \A k, l \in 1..count : Packed[k] = Packed[l] => k = l
  BY PackedRight
<1>2. ASSUME NEW k \in 1..count, NEW l \in 1..count, Packed[k].vec = Packed[l].vec PROVE k = l
  <2>1. PICK i \in LiveRows : Packed[k] = arena[i]
    BY <1>1
  <2>2. PICK j \in LiveRows : Packed[l] = arena[j]
    BY <1>1
  <2>3. i = j
    BY <1>2, <2>1, <2>2 DEF RowsApart, LiveRows
  <2> QED BY <1>1, <2>1, <2>2, <2>3
<1> QED BY <1>1, <1>2 DEF Apart

\* Nothing undefined in a graph that a call leaves as sound as it was.
LEMMA OwnerSound ==
    ASSUME LInv, Calm, writing' = writing, disk' = disk, dropFloats' = dropFloats,
           Navigable(graph'), RowsApart',
           ~dropFloats /\ ~graph'.undefined => graph'.floats = Len(graph'.nodes),
           graph'.undefined =>
               \/ dropFloats
               \/ ~graph'.sealed /\ \E i \in Ordinals(graph') :
                                        Len(graph'.links[i]) <= graph'.nodes[i].level
    PROVE  LInv'
<1>1. WritingSound' /\ DiskSound'
  BY DEF LInv, WritingSound, DiskSound, Calm
<1>2. FloatsThere' /\ UndefinedOnlyThere'
  BY DEF FloatsThere, UndefinedOnlyThere
<1>3. Navigable(graph)'
  OBVIOUS
<1> QED BY <1>1, <1>2, <1>3 DEF LInv

LEMMA InitSound == Init => LInv
<1> SUFFICES ASSUME Init PROVE LInv
  OBVIOUS
<1>1. graph = EmptyGraph /\ arena = <<>> /\ writing = <<>> /\ disk = NoFile
  BY DEF Init
<1>2. RowsApart /\ WritingSound /\ DiskSound
  BY <1>1 DEF RowsApart, Rows, WritingSound, DiskSound
<1>3. FloatsThere /\ UndefinedOnlyThere
  BY <1>1 DEF FloatsThere, UndefinedOnlyThere, EmptyGraph
<1> QED BY <1>1, <1>2, <1>3, EmptyNavigable DEF LInv

\* An add of a vector that is not in use.
LEMMA AddSound ==
    ASSUME NEW g, GraphOk(g), Navigable(g), ~g.undefined,
           ~dropFloats => g.floats = Len(g.nodes),
           NEW id \in Id, NEW vec \in Vector, NEW level \in 0..MaxLevel,
           \A i \in Ordinals(g) : Vec(g, i) # vec
    PROVE  LET h == Add(g, id, vec, level)
           IN  /\ Navigable(h)
               /\ ~dropFloats => h.floats = Len(h.nodes)
               /\ h.undefined =>
                     \/ dropFloats
                     \/ ~h.sealed /\ \E i \in Ordinals(h) : Len(h.links[i]) <= h.nodes[i].level
<1> DEFINE h == Add(g, id, vec, level)
           n == Len(g.nodes) + 1
<1>1. ~h.sealed /\ h.floats = g.floats + 1 /\ Len(h.nodes) = n
  BY Added
<1>2. /\ Navigable(h)
      /\ \/ h.undefined = g.undefined
         \/ g.floats # Len(g.nodes)
         \/ \E i \in Ordinals(h) : Len(h.links[i]) <= h.nodes[i].level
  BY AddedNavigable
<1> HIDE DEF h
<1>3. ~dropFloats => h.floats = Len(h.nodes)
  BY <1>1
<1> QED BY <1>1, <1>2, <1>3 DEF h

LEMMA ReplaceSound ==
    ASSUME IInv, LInv, NEW id \in Id, NEW vec \in Vector,
           NEW level \in IF built THEN 0..MaxLevel ELSE {0}, Replace(id, vec, level)
    PROVE  LInv'
<1>1. /\ Calm /\ writing' = writing /\ disk' = disk /\ dropFloats' = dropFloats
      /\ arena' = [i \in Rows |-> IF i \in RowOf(id) THEN [arena[i] EXCEPT !.vec = vec]
                                                     ELSE arena[i]]
      /\ \A i \in Rows : arena[i].vec # vec
      /\ \A i \in Ordinals(graph) : Vec(graph, i) # vec
      /\ ~graph.undefined
  BY DEF Replace, CountWrite, Calm, Used
<1>2. RowsApart'
  <2>1. Len(arena) \in Nat /\ \A i \in Rows : arena[i] \in Row
    BY RowsFinite DEF IInv
  <2>2. Rows' = Rows
    BY <1>1, <2>1 DEF Rows
  <2>3. \A i, j \in RowOf(id) : i = j
    BY DEF RowOf, IInv, RowsOk, RowsOnce
  <2>4. ASSUME NEW i \in Rows
        PROVE  arena'[i].vec = IF i \in RowOf(id) THEN vec ELSE arena[i].vec
    <3>1. arena'[i] = IF i \in RowOf(id) THEN [arena[i] EXCEPT !.vec = vec] ELSE arena[i]
      BY <1>1
    <3> QED BY <2>1, <3>1 DEF Row
  <2>5. \A i, j \in Rows : arena[i].vec = arena[j].vec => i = j
    BY DEF LInv, RowsApart
  <2>6. ASSUME NEW i \in Rows, NEW j \in Rows, arena'[i].vec = arena'[j].vec PROVE i = j
    BY <1>1, <2>3, <2>4, <2>5, <2>6
  <2> QED BY <2>2, <2>6 DEF RowsApart
<1>3. /\ Navigable(graph')
      /\ ~dropFloats /\ ~graph'.undefined => graph'.floats = Len(graph'.nodes)
      /\ graph'.undefined =>
             \/ dropFloats
             \/ ~graph'.sealed /\ \E i \in Ordinals(graph') :
                                      Len(graph'.links[i]) <= graph'.nodes[i].level
  <2>1. CASE built
    <3> DEFINE r == RemoveId(graph, id)
    <3>1. level \in 0..MaxLevel /\ graph' = Add(r, id, vec, level)
      BY <2>1 DEF Replace
    <3>2. /\ GraphOk(r) /\ Navigable(r) /\ r.undefined = graph.undefined
          /\ r.floats = graph.floats /\ r.nodes = graph.nodes
      BY Removed, RemovedNavigable DEF IInv, LInv
    <3> HIDE DEF r
    <3>3. \A i \in Ordinals(r) : Vec(r, i) # vec
      BY <1>1, <3>2 DEF Ordinals, Vec
    <3>4. ~dropFloats => r.floats = Len(r.nodes)
      BY <1>1, <3>2 DEF LInv, FloatsThere
    <3> QED BY <1>1, <3>1, <3>2, <3>3, <3>4, AddSound
  <2>2. CASE ~built
    <3>1. graph' = graph
      BY <2>2 DEF Replace
    <3> QED BY <1>1, <3>1 DEF LInv, FloatsThere
  <2> QED BY <2>1, <2>2
<1> QED BY <1>1, <1>2, <1>3, OwnerSound

LEMMA AddRowSound ==
    ASSUME IInv, LInv, NEW id \in Id, NEW vec \in Vector,
           NEW level \in IF built THEN 0..MaxLevel ELSE {0}, AddRow(id, vec, level)
    PROVE  LInv'
<1> DEFINE n == Len(arena)
           row == [id |-> id, vec |-> vec, live |-> TRUE]
<1>1. /\ Calm /\ writing' = writing /\ disk' = disk /\ dropFloats' = dropFloats
      /\ arena' = Append(arena, row)
      /\ \A i \in Rows : arena[i].vec # vec
      /\ \A i \in Ordinals(graph) : Vec(graph, i) # vec
      /\ ~graph.undefined
  BY DEF AddRow, CountWrite, Calm, Used
<1>2. RowsApart'
  <2>1. n \in Nat /\ arena \in Seq(Row)
    BY RowsFinite DEF IInv, RowsOk
  <2>2. /\ Len(arena') = n + 1 /\ arena'[n + 1] = row
        /\ \A i \in 1..n : arena'[i] = arena[i]
    <3> HIDE DEF row
    <3> QED BY <1>1, <2>1
  <2>3. Rows' = 1..(n + 1) /\ Rows = 1..n
    BY <2>2 DEF Rows
  <2>4. \A i \in Rows' : i \in Rows \/ i = n + 1
    <3> HIDE DEF n
    <3> QED BY <2>1, <2>3
  <2>5. \A i \in Rows : arena'[i].vec = arena[i].vec
    BY <2>2, <2>3
  <2>6. arena'[n + 1].vec = vec
    BY <2>2
  <2>7. \A i, j \in Rows : arena[i].vec = arena[j].vec => i = j
    BY DEF LInv, RowsApart
  <2>8. ASSUME NEW i \in Rows', NEW j \in Rows', arena'[i].vec = arena'[j].vec PROVE i = j
    <3> HIDE DEF n, row
    <3> QED BY <1>1, <2>4, <2>5, <2>6, <2>7, <2>8
  <2> QED BY <2>8 DEF RowsApart
<1>3. /\ Navigable(graph')
      /\ ~dropFloats /\ ~graph'.undefined => graph'.floats = Len(graph'.nodes)
      /\ graph'.undefined =>
             \/ dropFloats
             \/ ~graph'.sealed /\ \E i \in Ordinals(graph') :
                                      Len(graph'.links[i]) <= graph'.nodes[i].level
  <2>1. CASE built
    <3>1. level \in 0..MaxLevel /\ graph' = Add(graph, id, vec, level)
      BY <2>1 DEF AddRow
    <3>2. GraphOk(graph) /\ Navigable(graph)
      BY DEF IInv, LInv
    <3>3. ~dropFloats => graph.floats = Len(graph.nodes)
      BY <1>1 DEF LInv, FloatsThere
    <3> QED BY <1>1, <3>1, <3>2, <3>3, AddSound
  <2>2. CASE ~built
    <3>1. graph' = graph
      BY <2>2 DEF AddRow
    <3> QED BY <1>1, <3>1 DEF LInv, FloatsThere
  <2> QED BY <2>1, <2>2
<1> QED BY <1>1, <1>2, <1>3, OwnerSound

\* Rows of which only the marks changed still have distinct vectors.
LEMMA SameVecs ==
    ASSUME RowsApart, Rows' = Rows, \A i \in Rows : arena'[i].vec = arena[i].vec
    PROVE  RowsApart'
<1> SUFFICES ASSUME NEW i \in Rows, NEW j \in Rows, arena'[i].vec = arena'[j].vec PROVE i = j
  BY DEF RowsApart
<1> QED BY DEF RowsApart

LEMMA RemoveRowSound ==
    ASSUME IInv, LInv, NEW id \in Id, RemoveRow(id)
    PROVE  LInv'
<1>1. /\ Calm /\ writing' = writing /\ disk' = disk /\ dropFloats' = dropFloats
      /\ arena' = [i \in Rows |-> IF i \in RowOf(id) THEN [arena[i] EXCEPT !.live = FALSE]
                                                     ELSE arena[i]]
      /\ graph' = IF built THEN RemoveId(graph, id) ELSE graph
      /\ ~graph.undefined
  BY DEF RemoveRow, CountWrite, Calm
<1>2. RowsApart'
  <2>1. Len(arena) \in Nat /\ \A i \in Rows : arena[i] \in Row
    BY RowsFinite DEF IInv
  <2>2. Rows' = Rows
    BY <1>1, <2>1 DEF Rows
  <2>3. ASSUME NEW i \in Rows PROVE arena'[i].vec = arena[i].vec
    <3>1. arena'[i] = IF i \in RowOf(id) THEN [arena[i] EXCEPT !.live = FALSE] ELSE arena[i]
      BY <1>1
    <3> QED BY <2>1, <3>1 DEF Row
  <2> QED BY <2>2, <2>3, SameVecs DEF LInv
<1>3. /\ Navigable(graph') /\ graph'.undefined = graph.undefined
      /\ graph'.floats = graph.floats /\ graph'.nodes = graph.nodes
  <2>1. CASE built
    <3>1. graph' = RemoveId(graph, id)
      BY <1>1, <2>1
    <3> QED BY <3>1, Removed, RemovedNavigable DEF IInv, LInv
  <2>2. CASE ~built
    BY <1>1, <2>2 DEF LInv
  <2> QED BY <2>1, <2>2
<1>4. ~dropFloats /\ ~graph'.undefined => graph'.floats = Len(graph'.nodes)
  BY <1>1, <1>3 DEF LInv, FloatsThere
<1> QED BY <1>1, <1>2, <1>3, <1>4, OwnerSound

LEMMA BuildSound ==
    ASSUME IInv, LInv, NEW levels \in Levels(IF built THEN 0 ELSE count), Build(levels)
    PROVE  LInv'
<1>1. /\ Calm /\ writing' = writing /\ disk' = disk /\ dropFloats' = dropFloats
      /\ arena' = arena /\ ~graph.undefined
  BY DEF Build, Calm
<1>2. RowsApart'
  BY <1>1, SameVecs DEF LInv, Rows
<1>3. /\ Navigable(graph') /\ ~graph'.undefined
      /\ ~dropFloats => graph'.floats = Len(graph'.nodes)
  <2>1. CASE built' /\ ~built
    <3>1. graph' = BuildBatch(EmptyGraph, Packed, levels, dropFloats)
      BY <2>1 DEF Build
    <3>2. Batch(Packed, levels) /\ Distinct(Packed)
      <4>1. /\ Packed \in Seq([id : Id, vec : Vector, live : {TRUE}])
            /\ Len(Packed) = count /\ List(Packed) /\ Distinct(Packed)
        BY PackedRight DEF IInv
      <4>2. levels \in [1..count -> 0..MaxLevel]
        BY <2>1 DEF Levels
      <4>3. \A k \in 1..count : Packed[k] \in [id : Id, vec : Vector, live : {TRUE}]
        BY <4>1, ListOf
      <4> QED BY <4>1, <4>2, <4>3 DEF Batch
    <3>3. dropFloats \in BOOLEAN /\ Apart(Packed)
      BY PackedApart DEF IInv, LInv, Typed
    <3>4. Navigable(graph') /\ ~graph'.undefined
      BY <3>1, <3>2, <3>3, BuiltNavigable
    <3>5. ~dropFloats => graph'.floats = Len(graph'.nodes)
      BY <3>1, <3>2, <3>3, BuiltRight
    <3> QED BY <3>4, <3>5
  <2>2. CASE ~(built' /\ ~built)
    <3>1. graph' = graph
      BY <2>2 DEF Build
    <3> QED BY <1>1, <3>1 DEF LInv, FloatsThere
  <2> QED BY <2>1, <2>2
<1> QED BY <1>1, <1>2, <1>3, OwnerSound

LEMMA FindSound ==
    ASSUME IInv, LInv, Find
    PROVE  LInv'
<1>1. /\ Calm /\ writing' = writing /\ disk' = disk /\ dropFloats' = dropFloats
      /\ arena' = arena /\ ~graph.undefined /\ graph' = Seal(graph, dropFloats)
  BY DEF Find, Calm
<1>2. RowsApart'
  BY <1>1, SameVecs DEF LInv, Rows
<1>3. Shaped(graph) /\ dropFloats \in BOOLEAN /\ Navigable(graph)
  BY DEF IInv, LInv, Typed, GraphOk
<1>4. /\ SameNodes(graph, graph') /\ ~graph'.undefined
      /\ ~dropFloats => graph'.floats = graph.floats
  BY <1>1, <1>3, SealShaped
<1>5. Navigable(graph')
  BY <1>1, <1>3, SealLinks, SameNavigable
<1>6. ~dropFloats => graph'.floats = Len(graph'.nodes)
  BY <1>1, <1>4 DEF LInv, FloatsThere, SameNodes
<1> QED BY <1>1, <1>2, <1>4, <1>5, <1>6, OwnerSound

LEMMA SaveSound ==
    ASSUME IInv, LInv, NEW levels \in Levels(IF built /\ Stale(graph) THEN count ELSE 0),
           Save(levels)
    PROVE  LInv'
<1> DEFINE c == IF built THEN Compact(graph, levels, dropFloats) ELSE graph
<1>1. /\ Calm /\ writing = <<>> /\ ~graph.undefined
      /\ arena' = arena /\ dropFloats' = dropFloats
      /\ IF c.undefined \/ (built /\ ~SerializeReads(c))
         THEN graph' = Undefined(c) /\ writing' = writing /\ disk' = disk
         ELSE /\ graph' = IF built THEN WithLinks(c) ELSE c
              /\ \/ writing' = <<Content(c)>> /\ disk' = Torn
                 \/ writing' = writing /\ disk' = disk
  BY DEF Save, Calm
<1>2. RowsApart'
  BY <1>1, SameVecs DEF LInv, Rows
<1>3. built =>
        /\ GraphOk(graph) /\ dropFloats \in BOOLEAN
        /\ Stale(graph) => \A k \in 1..Cardinality(Live(graph)) : levels[k] \in 0..MaxLevel
  <2> SUFFICES ASSUME built
               PROVE  /\ GraphOk(graph) /\ dropFloats \in BOOLEAN
                      /\ Stale(graph) => \A k \in 1..Cardinality(Live(graph)) : levels[k] \in 0..MaxLevel
    OBVIOUS
  <2>1. Cardinality(Live(graph)) = count
    BY <1>1, AsManyLive DEF IInv, RowsOk
  <2>2. Stale(graph) => levels \in [1..count -> 0..MaxLevel]
    BY DEF Levels
  <2> QED BY <2>1, <2>2 DEF IInv, Typed
<1>4. /\ GraphOk(c) /\ Navigable(c)
      /\ c.undefined => dropFloats
      /\ built /\ ~c.undefined => ~Stale(c)
      /\ ~dropFloats => c.floats = Len(c.nodes)
  <2>1. CASE built
    <3>1. c = Compact(graph, levels, dropFloats)
      BY <2>1
    <3> HIDE DEF c
    <3>2. GraphOk(c)
      BY <1>3, <2>1, <3>1, Compacted
    <3>3. ~c.undefined => ~Stale(c)
      BY <1>3, <2>1, <3>1, CompactedClean
    <3>4. ~dropFloats => graph.floats = Len(graph.nodes)
      BY <1>1 DEF LInv, FloatsThere
    <3>5. /\ Navigable(c)
          /\ c.undefined => graph.floats # Len(graph.nodes)
          /\ ~dropFloats /\ graph.floats = Len(graph.nodes) => c.floats = Len(c.nodes)
      BY <1>1, <1>3, <2>1, <3>1, CompactedNavigable DEF LInv
    <3> QED BY <3>2, <3>3, <3>4, <3>5
  <2>2. CASE ~built
    <3>1. c = graph
      BY <2>2
    <3> HIDE DEF c
    <3> QED BY <1>1, <2>2, <3>1 DEF IInv, LInv, FloatsThere
  <2> QED BY <2>1, <2>2
<1> HIDE DEF c
<1>5. CASE c.undefined \/ (built /\ ~SerializeReads(c))
  <2>1. graph' = Undefined(c) /\ writing' = writing /\ disk' = disk
    BY <1>1, <1>5
  <2>2. Navigable(graph') /\ graph'.undefined
    <3>1. Undefined(c).undefined = TRUE
      BY <1>4, UndefinedShaped DEF GraphOk
    <3>2. Navigable(Undefined(c))
      BY <1>4, UndefinedNavigable DEF GraphOk
    <3> QED BY <2>1, <3>1, <3>2
  <2>3. dropFloats
    BY <1>4, <1>5 DEF SerializeReads
  <2> QED BY <1>1, <1>2, <2>1, <2>2, <2>3, OwnerSound
<1>6. CASE ~(c.undefined \/ (built /\ ~SerializeReads(c)))
  <2>1. graph' = IF built THEN WithLinks(c) ELSE c
    BY <1>1, <1>6
  <2>2. /\ Navigable(graph') /\ graph'.undefined = c.undefined
        /\ graph'.floats = c.floats /\ graph'.nodes = c.nodes
    <3>1. /\ SameNodes(c, WithLinks(c)) /\ WithLinks(c).undefined = c.undefined
          /\ WithLinks(c).floats = c.floats /\ Navigable(WithLinks(c))
      BY <1>4, WithLinksOk, UnpackedNavigable
    <3> QED BY <1>4, <2>1, <3>1 DEF SameNodes
  <2>3. ~graph'.undefined /\ (~dropFloats => graph'.floats = Len(graph'.nodes))
    BY <1>4, <1>6, <2>2
  <2>4. CASE writing' = writing /\ disk' = disk
    BY <1>1, <1>2, <2>2, <2>3, <2>4, OwnerSound
  <2>5. CASE writing' = <<Content(c)>> /\ disk' = Torn
    <3> DEFINE k == Content(c)
    <3>1. k.rows = Packed /\ k.built = built /\ (built => k.graph = Serialize(c))
      BY DEF Content
    <3>2. writing' # <<>> /\ writing'[1] = k
      BY <2>5
    <3> HIDE DEF k
    <3>3. built => Navigable(Deserialize(k.graph))
      BY <1>4, <1>6, <3>1, RestoredNavigable
    <3>4. Apart(Packed)
      BY PackedApart DEF IInv, LInv
    <3>5. StoredSound(k)
      BY <3>1, <3>3, <3>4 DEF StoredSound
    <3>6. WritingSound' /\ DiskSound'
      BY <2>5, <3>2, <3>5 DEF WritingSound, DiskSound
    <3>7. FloatsThere' /\ UndefinedOnlyThere'
      BY <1>1, <2>3 DEF FloatsThere, UndefinedOnlyThere
    <3>8. Navigable(graph)'
      BY <2>2
    <3> QED BY <1>2, <3>6, <3>7, <3>8 DEF LInv
  <2> QED BY <1>1, <1>6, <2>4, <2>5
<1> QED BY <1>5, <1>6

LEMMA WrittenSound ==
    ASSUME IInv, LInv, Written
    PROVE  LInv'
<1>1. /\ writing # <<>> /\ disk' \in {writing[1], Torn} /\ writing' = <<>>
      /\ arena' = arena /\ graph' = graph /\ dropFloats' = dropFloats
  BY DEF Written
<1>2. WritingSound' /\ DiskSound'
  BY <1>1 DEF LInv, WritingSound, DiskSound
<1>3. RowsApart'
  BY <1>1, SameVecs DEF LInv, Rows
<1>4. FloatsThere' /\ UndefinedOnlyThere' /\ Navigable(graph)'
  BY <1>1 DEF LInv, FloatsThere, UndefinedOnlyThere
<1> QED BY <1>2, <1>3, <1>4 DEF LInv

LEMMA CrashSound ==
    ASSUME IInv, LInv, Crash
    PROVE  LInv'
<1>1. /\ arena' = <<>> /\ graph' = EmptyGraph /\ writing' = <<>>
      /\ dropFloats' = dropFloats /\ disk' = disk
  BY DEF Crash
<1>2. WritingSound' /\ DiskSound'
  BY <1>1 DEF LInv, WritingSound, DiskSound
<1>3. RowsApart'
  BY <1>1 DEF RowsApart, Rows
<1>4. FloatsThere' /\ UndefinedOnlyThere'
  BY <1>1 DEF FloatsThere, UndefinedOnlyThere, EmptyGraph
<1>5. Navigable(graph)'
  BY <1>1, EmptyNavigable
<1> QED BY <1>2, <1>3, <1>4, <1>5 DEF LInv

LEMMA LoadSound ==
    ASSUME IInv, LInv, Load
    PROVE  LInv'
<1>1. /\ ~up /\ disk \notin {NoFile, Torn} /\ arena' = disk.rows
      /\ graph' = IF disk.built THEN Deserialize(disk.graph) ELSE EmptyGraph
      /\ dropFloats' = dropFloats /\ writing' = writing /\ disk' = disk
  BY DEF Load
<1>2. StoredSound(disk)
  BY <1>1 DEF LInv, DiskSound
<1>3. WritingSound' /\ DiskSound'
  BY <1>1 DEF LInv, WritingSound, DiskSound
<1>4. RowsApart'
  BY <1>1, <1>2 DEF RowsApart, Rows, StoredSound, Apart
<1>5. /\ Navigable(graph') /\ ~graph'.undefined /\ graph'.floats = Len(graph'.nodes)
  <2>1. CASE disk.built
    <3>1. graph' = Deserialize(disk.graph) /\ Navigable(graph')
      BY <1>1, <1>2, <2>1 DEF StoredSound
    <3>2. ~graph'.undefined /\ graph'.floats = Len(graph'.nodes)
      <4>1. /\ graph'.undefined = FALSE /\ graph'.floats = Len(disk.graph.nodes)
            /\ graph'.nodes = [i \in 1..Len(disk.graph.nodes) |->
                                  [disk.graph.nodes[i] EXCEPT !.superseded = FALSE]]
        BY <3>1 DEF Deserialize, EmptyGraph
      <4>2. DOMAIN graph'.nodes = 1..graph'.floats /\ graph'.floats \in Nat
        <5>1. GraphOk(graph')
          <6>1. IInv'
            BY LoadOk
          <6> QED BY <6>1 DEF IInv
        <5>2. graph'.floats \in Nat
          BY <5>1 DEF GraphOk, Shaped
        <5> QED BY <4>1, <5>2
      <4> QED BY <4>1, <4>2
    <3> QED BY <3>1, <3>2
  <2>2. CASE ~disk.built
    <3>1. graph' = EmptyGraph
      BY <1>1, <2>2
    <3> QED BY <3>1, EmptyNavigable DEF EmptyGraph
  <2> QED BY <2>1, <2>2
<1>6. FloatsThere' /\ UndefinedOnlyThere'
  BY <1>5 DEF FloatsThere, UndefinedOnlyThere
<1> QED BY <1>3, <1>4, <1>5, <1>6 DEF LInv

LEMMA NextSound == IInv /\ LInv /\ [Next]_vars => LInv'
<1> SUFFICES ASSUME IInv, LInv, [Next]_vars PROVE LInv'
  OBVIOUS
<1>1. CASE Next
  <2>1. ASSUME NEW id \in Id, NEW vec \in Vector, NEW level \in IF built THEN 0..MaxLevel ELSE {0},
               Replace(id, vec, level) \/ AddRow(id, vec, level)
        PROVE  LInv'
    BY <2>1, ReplaceSound, AddRowSound
  <2>2. ASSUME NEW id \in Id, RemoveRow(id) PROVE LInv'
    BY <2>2, RemoveRowSound
  <2>3. ASSUME NEW levels \in Levels(IF built THEN 0 ELSE count), Build(levels) PROVE LInv'
    BY <2>3, BuildSound
  <2>4. ASSUME NEW levels \in Levels(IF built /\ Stale(graph) THEN count ELSE 0), Save(levels)
        PROVE  LInv'
    BY <2>4, SaveSound
  <2>5. CASE Find \/ Written \/ Crash \/ Load
    BY <2>5, FindSound, WrittenSound, CrashSound, LoadSound
  <2>6. CASE Create
    <3>1. arena' = arena /\ graph' = graph /\ dropFloats' = dropFloats /\ writing' = writing
          /\ disk' = disk
      BY <2>6 DEF Create
    <3>2. RowsApart'
      BY <3>1, SameVecs DEF LInv, Rows
    <3>3. FloatsThere' /\ UndefinedOnlyThere' /\ Navigable(graph)' /\ WritingSound' /\ DiskSound'
      BY <3>1 DEF LInv, FloatsThere, UndefinedOnlyThere, WritingSound, DiskSound
    <3> QED BY <3>2, <3>3 DEF LInv
  <2> QED BY <1>1, <2>1, <2>2, <2>3, <2>4, <2>5, <2>6 DEF Next
<1>2. CASE UNCHANGED vars
  <2>1. arena' = arena /\ graph' = graph /\ dropFloats' = dropFloats /\ writing' = writing
        /\ disk' = disk
    BY <1>2 DEF vars
  <2>2. RowsApart'
    BY <2>1, SameVecs DEF LInv, Rows
  <2>3. FloatsThere' /\ UndefinedOnlyThere' /\ Navigable(graph)' /\ WritingSound' /\ DiskSound'
    BY <2>1 DEF LInv, FloatsThere, UndefinedOnlyThere, WritingSound, DiskSound
  <2> QED BY <2>2, <2>3 DEF LInv
<1> QED BY <1>1, <1>2

\* The links and the vectors of the graph, and of the graph in the file, stay
\* sound in every behaviour of the store.
THEOREM Soundness == Spec => []LInv
BY Invariance, InitSound, NextSound, PTL DEF Spec

\* Every link goes to another node of its layer and no node has too many,
\* whatever was added, removed, built, compacted, sealed or loaded before.
THEOREM LinksAreSound == Spec => []LinksSound
<1>1. IInv /\ LInv => LinksSound
  <2> SUFFICES ASSUME IInv, LInv, NEW i \in Ordinals(graph), NEW L \in 0..MaxLevel
               PROVE  /\ Cardinality(Neighbours(graph, i, L)) <= MaxM(L)
                      /\ \A j \in Neighbours(graph, i, L) :
                             j \in Ordinals(graph) \ {i} /\ graph.nodes[j].level >= L
    BY DEF LinksSound
  <2>1. L \in Nat
    BY ConstantsAssumption
  <2>2. /\ Neighbours(graph, i, L) \subseteq At(graph, Len(graph.nodes), L) \ {i}
        /\ Cardinality(Neighbours(graph, i, L)) <= MaxM(L)
    BY <2>1 DEF LInv, Navigable, LinkedTo
  <2> QED BY <2>2 DEF At, Ordinals
<1> QED BY <1>1, Invariance, Soundness, PTL

\* The code leaves its arrays only where exact vectors were dropped or where a
\* node came back from its flat form with fewer layers than it was built with.
THEOREM OnlyThere == Spec => []UndefinedOnlyThere
<1>1. LInv => UndefinedOnlyThere
  BY DEF LInv
<1> QED BY <1>1, Soundness, PTL

-----------------------------------------------------------------------------
(* Searching a graph and its sealed form.                                  *)

LEMMA SameNearest ==
    ASSUME NEW g, NEW h, h.nodes = g.nodes, NEW S, NEW q, NEW k
    PROVE  Nearest(h, S, q, k) = Nearest(g, S, q, k) /\ Closest(h, S, q) = Closest(g, S, q)
BY DEF Nearest, Closest, Vec

\* The same links make the same walk.
LEMMA SameWalk ==
    ASSUME NEW g, NEW h, SameLinks(g, h), NEW q, Comparable(g, q),
           NEW T, NEW L \in Nat, Closed(g, T, L), NEW ef \in Nat \ {0}, NEW e \in T
    PROVE  SearchLayer(h, q, e, L, ef) = SearchLayer(g, q, e, L, ef)
<1> DEFINE n == Len(g.nodes)
           v == Walk(g, q, e, L, ef)
           w == Walk(h, q, e, L, ef)
           St == [k \in 0..n |-> {v[k]}]
<1>1. h.nodes = g.nodes /\ \A i \in Ordinals(g) : Neighbours(h, i, L) = Neighbours(g, i, L)
  BY DEF SameLinks
<1>2. Comparable(h, q)
  BY <1>1 DEF Comparable, Ordinals, Vec
<1>3. Closed(h, T, L)
  BY <1>1 DEF Closed, Ordinals
<1>4. n \in Nat /\ Len(h.nodes) = n
  BY <1>1 DEF Comparable
<1>5. /\ v[0] = WalkStart(e)
      /\ \A k \in 1..n : v[k] = Expand(g, q, L, ef, v[k - 1])
      /\ \A k \in 0..n : v[k] \in Walks(T)
  BY WalkStays
<1>6. /\ w[0] = WalkStart(e)
      /\ \A k \in 1..n : w[k] = Expand(h, q, L, ef, w[k - 1])
  <2>1. /\ w[0] = WalkStart(e)
        /\ \A k \in 1..Len(h.nodes) : w[k] = Expand(h, q, L, ef, w[k - 1])
    BY <1>2, <1>3, WalkStays
  <2> QED BY <1>4, <2>1
<1> HIDE DEF v, w
<1>7. ASSUME NEW s \in Walks(T) PROVE Expand(h, q, L, ef, s) = Expand(g, q, L, ef, s)
  <2>1. Closest(h, s.cand, q) = Closest(g, s.cand, q)
    BY <1>1, SameNearest
  <2>2. Ends(h, q, ef, s) = Ends(g, q, ef, s)
    BY <1>1, <2>1 DEF Ends, Vec
  <2>3. CASE Ends(g, q, ef, s)
    BY <2>2, <2>3 DEF Expand
  <2>4. CASE ~Ends(g, q, ef, s)
    <3>1. s.cand \subseteq T /\ s.cand # {} /\ s.cand \subseteq Ordinals(g)
      BY <2>4 DEF Walks, Ends, Closed
    <3>2. Closest(g, s.cand, q) \in Ordinals(g)
      BY <3>1, ClosestIn
    <3>3. Fresh(h, q, L, s) = Fresh(g, q, L, s)
      BY <1>1, <2>1, <3>2 DEF Fresh
    <3>4. \A S : Nearest(h, S, q, ef) = Nearest(g, S, q, ef)
      BY <1>1, SameNearest
    <3> QED BY <2>1, <2>2, <3>3, <3>4 DEF Expand
  <2> QED BY <2>3, <2>4
<1>8. \A k \in 0..n : w[k] = v[k]
  <2>1. w[0] \in St[0]
    BY <1>4, <1>5, <1>6
  <2>2. ASSUME NEW k \in 1..n, w[k - 1] \in St[k - 1] PROVE w[k] \in St[k]
    <3>1. k - 1 \in 0..n /\ k \in 0..n
      BY <1>4
    <3>2. w[k - 1] = v[k - 1]
      BY <2>2, <3>1
    <3>3. w[k] = v[k]
      BY <1>5, <1>6, <1>7, <3>1, <3>2
    <3> QED BY <3>1, <3>3
  <2>3. \A k \in 0..n : w[k] \in St[k]
    <3> HIDE DEF St
    <3> QED BY <1>4, <2>1, <2>2, Kept
  <2> QED BY <2>3
<1>9. w[n] = v[n]
  BY <1>4, <1>8
<1> QED BY <1>4, <1>9, SearchIsWalk DEF v, w, n

\* Above layer 0 the beam of a search is 1, so the way down is the same too.
LEMMA SameEnters ==
    ASSUME NEW g, Shaped(g), NEW h, Shaped(h), SameLinks(g, h),
           Navigable(g), g.nodes # <<>>,
           NEW q \in Vector, NEW ef \in Nat \ {0}, NEW wide \in Nat \ {0}
    PROVE  EntersAt(h, q, 0, 0, wide) = EntersAt(g, q, 0, 0, ef)
<1> DEFINE n == Len(g.nodes)
           top == g.top
           v == Down(g, q, 0, 0, ef)
           w == Down(h, q, 0, 0, wide)
           x == [k \in 0..top |-> w[top - k]]
           St == [k \in 0..top |-> {v[top - k]}]
<1>1. /\ n \in Nat /\ n # 0 /\ n \in 1..n /\ n \in 0..n /\ Len(h.nodes) = n
      /\ h.top = top /\ h.entry = g.entry /\ h.nodes = g.nodes
  <2>1. n \in Nat /\ n # 0
    BY DEF Shaped
  <2>2. h.nodes = g.nodes /\ h.top = g.top /\ h.entry = g.entry
    BY DEF SameLinks
  <2> HIDE DEF n
  <2> QED BY <2>1, <2>2 DEF n
<1>2. LinkedTo(g, n) /\ Entered(g, n) /\ top \in Nat
  BY <1>1 DEF Navigable, Entered
<1>3. LinkedTo(h, n) /\ Entered(h, n)
  <2>1. Navigable(h)
    BY SameNavigable
  <2> QED BY <1>1, <2>1 DEF Navigable
<1>4. /\ v = [lc \in 0..top |-> IF lc = top THEN g.entry ELSE Descend(g, q, v[lc + 1], lc + 1, 0, ef)]
      /\ \A lc \in 0..top : v[lc] \in At(g, n, lc)
  <2>1. 0 \in 0..g.top /\ 0 \in Int
    BY <1>2
  <2> QED BY <1>1, <1>2, <2>1, DownStays
<1>5. w = [lc \in 0..top |-> IF lc = top THEN g.entry ELSE Descend(h, q, w[lc + 1], lc + 1, 0, wide)]
  <2>1. 0 \in 0..h.top /\ 0 \in Int /\ n \in 1..Len(h.nodes)
    BY <1>1, <1>2
  <2>2. w = [lc \in 0..h.top |-> IF lc = h.top THEN h.entry ELSE Descend(h, q, w[lc + 1], lc + 1, 0, wide)]
    BY <1>3, <2>1, DownStays
  <2> HIDE DEF w, top
  <2> QED BY <1>1, <2>2
<1> HIDE DEF v, w, top
<1>6. ASSUME NEW lc \in 1..top, NEW e \in At(g, n, lc)
      PROVE  Descend(h, q, e, lc, 0, wide) = Descend(g, q, e, lc, 0, ef)
  <2>1. lc \in Nat /\ lc > 0
    BY <1>2
  <2>2. Beam(lc, 0, wide) = 1 /\ Beam(lc, 0, ef) = 1
    BY <2>1 DEF Beam
  <2>3. Comparable(g, q) /\ Closed(g, At(g, n, lc), lc)
    BY <1>1, <1>2, <2>1, ShapedComparable, AtClosed
  <2>4. SearchLayer(h, q, e, lc, 1) = SearchLayer(g, q, e, lc, 1)
    BY <2>1, <2>3, SameWalk
  <2> QED BY <1>1, <2>2, <2>4, SameNearest DEF Descend
<1>7. \A k \in 0..top : x[k] = v[top - k]
  <2>1. x[0] \in St[0]
    <3>1. top \in 0..top /\ top - 0 = top /\ 0 \in 0..top
      BY <1>2
    <3>2. w[top] = g.entry /\ v[top] = g.entry
      BY <1>4, <1>5, <3>1
    <3> QED BY <3>1, <3>2
  <2>2. ASSUME NEW k \in 1..top, x[k - 1] \in St[k - 1] PROVE x[k] \in St[k]
    <3> DEFINE lc == top - k
    <3>1. /\ k - 1 \in 0..top /\ k \in 0..top /\ lc \in 0..top /\ lc # top
          /\ top - (k - 1) = lc + 1 /\ lc + 1 \in 1..top /\ lc + 1 \in 0..top
      BY <1>2
    <3> HIDE DEF lc
    <3>2. w[lc + 1] = v[lc + 1]
      BY <2>2, <3>1
    <3>3. /\ w[lc] = Descend(h, q, w[lc + 1], lc + 1, 0, wide)
          /\ v[lc] = Descend(g, q, v[lc + 1], lc + 1, 0, ef)
      BY <1>4, <1>5, <3>1
    <3>4. w[lc] = v[lc]
      BY <1>4, <1>6, <3>1, <3>2, <3>3
    <3> QED BY <3>1, <3>4 DEF lc
  <2>3. \A k \in 0..top : x[k] \in St[k]
    <3> HIDE DEF St, x
    <3> QED BY <1>2, <2>1, <2>2, Kept
  <2> QED BY <2>3
<1>8. w[0] = v[0]
  <2>1. top \in 0..top /\ top - top = 0
    BY <1>2
  <2>2. x[top] = w[0]
    BY <2>1
  <2> HIDE DEF x
  <2> QED BY <1>7, <2>1, <2>2
<1> QED BY <1>8, EntersIsDown DEF v, w

-----------------------------------------------------------------------------
(* A walk with a beam as wide as the graph.                                *)

Hop(g, L, S) == S \union UNION {Neighbours(g, j, L) : j \in S}

Hops(g, i, L) ==
    CHOOSE hop : hop = [n \in 0..Len(g.nodes) |-> IF n = 0 THEN {i} ELSE Hop(g, L, hop[n - 1])]

LEMMA ReachIsHops ==
    ASSUME NEW g, NEW i, NEW L
    PROVE  Reach(g, i, L) = Hops(g, i, L)[Len(g.nodes)]
BY DEF Reach, Hops, Hop

LEMMA HopsStay ==
    ASSUME NEW g, Len(g.nodes) \in Nat, NEW L, Closed(g, Ordinals(g), L), NEW e \in Ordinals(g)
    PROVE  LET hop == Hops(g, e, L)
           IN  hop[0] = {e} /\ \A k \in 1..Len(g.nodes) : hop[k] = Hop(g, L, hop[k - 1])
<1> DEFINE n == Len(g.nodes)
           T == SUBSET Ordinals(g)
           next == [p \in (1..n) \X T |-> Hop(g, L, p[2])]
           St == [k \in 0..n |-> T]
           Is(w) == w = [k \in 0..n |-> IF k = 0 THEN {e} ELSE Hop(g, L, w[k - 1])]
<1>1. {e} \in T
  OBVIOUS
<1>2. \A x \in T : Hop(g, L, x) \in T
  BY DEF Hop, Closed
<1>3. \A k \in 1..n : \A x \in T : next[<<k, x>>] = Hop(g, L, x)
  OBVIOUS
<1>4. \A k \in 0..n : St[k] = T
  OBVIOUS
<1> HIDE DEF n, next, St, T
<1>5. n \in Nat
  BY DEF n
<1>6. \A k \in 1..n : k - 1 \in 0..n /\ k \in 0..n
  BY <1>5
<1>7. PICK w : Steps(w, n, {e}, next) /\ \A k \in 0..n : w[k] \in St[k]
  <2>1. {e} \in St[0]
    BY <1>1, <1>4, <1>5
  <2>2. ASSUME NEW k \in 1..n, NEW x \in St[k - 1] PROVE next[<<k, x>>] \in St[k]
    <3>1. St[k - 1] = T /\ St[k] = T
      BY <1>4, <1>6
    <3> QED BY <1>2, <1>3, <3>1
  <2> QED BY <1>5, <2>1, <2>2, Iterated
<1>8. Is(w)
  <2>1. \A k \in 1..n : next[<<k, w[k - 1]>>] = Hop(g, L, w[k - 1])
    BY <1>3, <1>4, <1>6, <1>7
  <2>2. \A k \in 0..n : k = 0 \/ k \in 1..n
    BY <1>5
  <2> QED BY <1>7, <2>1, <2>2 DEF Steps
<1>9. Is(Hops(g, e, L))
  BY <1>8, Zenon DEF Hops, n
<1> DEFINE v == Hops(g, e, L)
<1> HIDE DEF v
<1>10. v = [k \in 0..n |-> IF k = 0 THEN {e} ELSE Hop(g, L, v[k - 1])]
  BY <1>9 DEF v
<1>11. v[0] = {e} /\ \A k \in 1..n : v[k] = Hop(g, L, v[k - 1])
  <2>1. 0 \in 0..n /\ \A k \in 1..n : k \in 0..n /\ k # 0
    BY <1>5
  <2> QED BY <1>10, <2>1, Zenon
<1> QED BY <1>11 DEF v, n

\* After k steps of such a walk: everything seen is kept and within k hops,
\* what is no candidate any more has its neighbours seen, and there are k of
\* these unless no candidate is left.
Wide(g, L, e, k, hops, s) ==
    /\ s \in Walks(Ordinals(g)) /\ s.result = s.seen /\ s.cand \subseteq s.seen
    /\ e \in s.seen /\ s.seen \subseteq hops
    /\ \A i \in s.seen \ s.cand : Neighbours(g, i, L) \subseteq s.seen
    /\ s.cand = {} \/ Cardinality(s.seen \ s.cand) >= k

LEMMA WideStep ==
    ASSUME NEW g, NEW q, Comparable(g, q), NEW L, Closed(g, Ordinals(g), L),
           NEW ef \in Nat \ {0}, Len(g.nodes) <= ef, NEW e,
           NEW k \in Nat, NEW hops, NEW s, Wide(g, L, e, k, hops, s)
    PROVE  Wide(g, L, e, k + 1, Hop(g, L, hops), Expand(g, q, L, ef, s))
<1> DEFINE c == Closest(g, s.cand, q)
           fresh == Fresh(g, q, L, s)
           t == Expand(g, q, L, ef, s)
<1>1. /\ s \in Walks(Ordinals(g)) /\ s.result = s.seen /\ s.cand \subseteq s.seen
      /\ e \in s.seen /\ s.seen \subseteq hops /\ s.seen \subseteq Ordinals(g)
      /\ \A i \in s.seen \ s.cand : Neighbours(g, i, L) \subseteq s.seen
      /\ s.cand = {} \/ Cardinality(s.seen \ s.cand) >= k
  BY DEF Wide, Walks
<1>2. hops \subseteq Hop(g, L, hops)
  BY DEF Hop
<1>3. t \in Walks(Ordinals(g))
  BY <1>1, ExpandStays
<1>4. CASE s.cand = {}
  <2>1. t = s
    BY <1>4 DEF Expand, Ends
  <2> QED BY <1>1, <1>2, <1>4, <2>1 DEF Wide
<1>5. CASE s.cand # {}
  <2>1. c \in s.cand
    BY <1>1, <1>5, ClosestIn
  <2>2. ~Ends(g, q, ef, s)
    <3>1. c \in s.result
      BY <1>1, <2>1
    <3>2. Sim(Vec(g, c), q) \in Int
      BY <1>1, <3>1, SimAssumption DEF Comparable
    <3>3. ~(Sim(Vec(g, c), q) < Sim(Vec(g, c), q))
      BY <3>2
    <3> QED BY <1>5, <3>1, <3>3 DEF Ends
  <2>3. fresh = Neighbours(g, c, L) \ s.seen /\ fresh \subseteq Ordinals(g)
    BY <1>1, <2>1 DEF Fresh, Closed
  <2>4. Nearest(g, s.result \union fresh, q, ef) = s.seen \union fresh
    <3>1. s.result \union fresh \subseteq Ordinals(g)
      BY <1>1, <2>3
    <3> HIDE DEF fresh
    <3> QED BY <1>1, <3>1, NearestAll
  <2>5. t = [cand   |-> (s.cand \ {c}) \union (fresh \intersect (s.seen \union fresh)),
             result |-> s.seen \union fresh,
             seen   |-> s.seen \union fresh]
    BY <2>2, <2>4 DEF Expand
  <2> HIDE DEF c, fresh, t
  <2>6. /\ t.result = t.seen /\ t.seen = s.seen \union fresh
        /\ t.cand = (s.cand \ {c}) \union fresh
    BY <2>5
  <2>7. t.seen \ t.cand = (s.seen \ s.cand) \union {c} /\ c \notin s.seen \ s.cand
    BY <1>1, <2>1, <2>3, <2>6
  <2>8. Cardinality(t.seen \ t.cand) >= k + 1
    <3> DEFINE D == s.seen \ s.cand
    <3>1. IsFiniteSet(D) /\ Cardinality(D) \in Nat
      <4>1. D \subseteq Ordinals(g)
        BY <1>1
      <4> HIDE DEF D
      <4> QED BY <4>1, NodesFinite DEF Comparable
    <3>2. Cardinality(D) >= k
      BY <1>1, <1>5
    <3>3. Cardinality(D \union {c}) = Cardinality(D) + 1
      <4>1. c \notin D
        BY <2>7
      <4> HIDE DEF D
      <4> QED BY <3>1, <4>1, FS_AddElement
    <3>4. t.seen \ t.cand = D \union {c}
      BY <2>7
    <3> DEFINE a == Cardinality(D)
               b == Cardinality(D \union {c})
    <3>5. a \in Nat /\ a >= k /\ b = a + 1 /\ Cardinality(t.seen \ t.cand) = b
      BY <3>1, <3>2, <3>3, <3>4
    <3> HIDE DEF D, a, b
    <3> QED BY <3>5
  <2>9. \A i \in t.seen \ t.cand : Neighbours(g, i, L) \subseteq t.seen
    BY <1>1, <2>3, <2>6, <2>7
  <2>10. t.seen \subseteq Hop(g, L, hops)
    <3>1. c \in hops
      BY <1>1, <2>1
    <3>2. fresh \subseteq Hop(g, L, hops)
      BY <2>3, <3>1 DEF Hop
    <3> QED BY <1>1, <1>2, <2>6, <3>2
  <2>11. t.cand \subseteq t.seen /\ e \in t.seen
    BY <1>1, <2>6
  <2> QED BY <1>3, <2>6, <2>8, <2>9, <2>10, <2>11 DEF Wide, t
<1> QED BY <1>4, <1>5

\* Nothing within reach is missed, and nothing else is found.
LEMMA WideSearch ==
    ASSUME NEW g, NEW q, Comparable(g, q), NEW L, Closed(g, Ordinals(g), L),
           NEW ef \in Nat \ {0}, Len(g.nodes) <= ef, NEW e \in Ordinals(g)
    PROVE  SearchLayer(g, q, e, L, ef) = Reach(g, e, L)
<1> DEFINE n == Len(g.nodes)
           w == Walk(g, q, e, L, ef)
           hop == Hops(g, e, L)
           s == w[n]
           St == [k \in 0..n |-> {t \in Walks(Ordinals(g)) : Wide(g, L, e, k, hop[k], t)}]
           Ht == [k \in 0..n |-> SUBSET s.seen]
<1>1. n \in Nat
  BY DEF Comparable
<1>2. /\ w[0] = WalkStart(e)
      /\ \A k \in 1..n : w[k] = Expand(g, q, L, ef, w[k - 1])
      /\ \A k \in 0..n : w[k] \in Walks(Ordinals(g))
  BY WalkStays
<1>3. hop[0] = {e} /\ \A k \in 1..n : hop[k] = Hop(g, L, hop[k - 1])
  BY <1>1, HopsStay
<1> HIDE DEF w, hop
<1>4. \A k \in 0..n : w[k] \in St[k]
  <2>1. w[0] \in St[0]
    <3>1. Cardinality({}) = 0
      BY FS_EmptySet
    <3>2. Wide(g, L, e, 0, {e}, WalkStart(e))
      <4>1. WalkStart(e).cand = {e} /\ WalkStart(e).result = {e} /\ WalkStart(e).seen = {e}
        BY DEF WalkStart
      <4>2. {e} \ {e} = {}
        OBVIOUS
      <4>3. WalkStart(e) \in Walks(Ordinals(g))
        BY <1>1, <1>2
      <4> DEFINE t == WalkStart(e)
      <4> HIDE DEF t, n, s, St, Ht
      <4>4. \A i : i \notin t.seen \ t.cand
        BY <4>1 DEF t
      <4>6. Cardinality(t.seen \ t.cand) >= 0
        <5>1. t.seen \ t.cand = {}
          BY <4>4
        <5>2. Cardinality(t.seen \ t.cand) = 0
          BY <3>1, <5>1
        <5> QED BY <5>2
      <4>5. t \in Walks(Ordinals(g)) /\ t.result = t.seen /\ t.cand \subseteq t.seen
            /\ e \in t.seen /\ t.seen \subseteq {e}
        BY <4>1, <4>3 DEF t
      <4> QED BY <4>4, <4>5, <4>6 DEF Wide, t
    <3>3. w[0] = WalkStart(e) /\ hop[0] = {e} /\ 0 \in 0..n /\ w[0] \in Walks(Ordinals(g))
      BY <1>1, <1>2, <1>3
    <3>4. Wide(g, L, e, 0, hop[0], w[0])
      BY <3>2, <3>3
    <3> QED BY <3>3, <3>4
  <2>2. ASSUME NEW k \in 1..n, w[k - 1] \in St[k - 1] PROVE w[k] \in St[k]
    <3>1. k - 1 \in Nat /\ k - 1 \in 0..n /\ k \in 0..n /\ (k - 1) + 1 = k
      BY <1>1
    <3>2. Wide(g, L, e, k - 1, hop[k - 1], w[k - 1])
      BY <2>2, <3>1
    <3>3. Wide(g, L, e, k, hop[k], w[k])
      <4>1. Wide(g, L, e, (k - 1) + 1, Hop(g, L, hop[k - 1]), Expand(g, q, L, ef, w[k - 1]))
        BY <3>1, <3>2, WideStep
      <4>2. hop[k] = Hop(g, L, hop[k - 1]) /\ w[k] = Expand(g, q, L, ef, w[k - 1])
        BY <1>2, <1>3
      <4> QED BY <3>1, <4>1, <4>2
    <3> QED BY <1>2, <3>1, <3>3
  <2> HIDE DEF St
  <2> QED BY <1>1, <2>1, <2>2, Kept
<1>5. Wide(g, L, e, n, hop[n], s)
  <2>1. n \in 0..n
    BY <1>1
  <2> QED BY <1>4, <2>1
<1> HIDE DEF s
<1>6. /\ s.result = s.seen /\ s.cand \subseteq s.seen /\ e \in s.seen /\ s.seen \subseteq hop[n]
      /\ s.seen \subseteq Ordinals(g)
      /\ \A i \in s.seen \ s.cand : Neighbours(g, i, L) \subseteq s.seen
      /\ s.cand = {} \/ Cardinality(s.seen \ s.cand) >= n
  BY <1>5 DEF Wide, Walks
<1>7. s.cand = {}
  <2> SUFFICES ASSUME NEW c \in s.cand PROVE FALSE
    OBVIOUS
  <2>1. IsFiniteSet(Ordinals(g)) /\ Cardinality(Ordinals(g)) <= n /\ Cardinality(Ordinals(g)) \in Nat
    BY <1>1, NodesFinite
  <2>2. Cardinality(Ordinals(g) \ {c}) = Cardinality(Ordinals(g)) - 1 /\ IsFiniteSet(Ordinals(g) \ {c})
    BY <1>6, <2>1, FS_RemoveElement
  <2>3. s.seen \ s.cand \subseteq Ordinals(g) \ {c}
    BY <1>6
  <2>4. Cardinality(s.seen \ s.cand) <= Cardinality(Ordinals(g) \ {c}) /\ Cardinality(s.seen \ s.cand) \in Nat
    BY <2>2, <2>3, FS_Subset, FS_CardinalityType
  <2>5. Cardinality(s.seen \ s.cand) >= n
    BY <1>6
  <2> HIDE DEF n
  <2> QED BY <1>1, <2>1, <2>2, <2>4, <2>5
<1>8. \A k \in 0..n : hop[k] \in Ht[k]
  <2>1. hop[0] \in Ht[0]
    BY <1>1, <1>3, <1>6
  <2>2. ASSUME NEW k \in 1..n, hop[k - 1] \in Ht[k - 1] PROVE hop[k] \in Ht[k]
    <3>1. k - 1 \in 0..n /\ k \in 0..n
      BY <1>1
    <3>2. hop[k - 1] \subseteq s.seen /\ hop[k] = Hop(g, L, hop[k - 1])
      BY <1>3, <2>2, <3>1
    <3>3. hop[k] \subseteq s.seen
      BY <1>6, <1>7, <3>2 DEF Hop
    <3> QED BY <3>1, <3>3
  <2> HIDE DEF Ht
  <2> QED BY <1>1, <2>1, <2>2, Kept
<1>9. hop[n] \subseteq s.seen
  <2>1. n \in 0..n
    BY <1>1
  <2> QED BY <1>8, <2>1
<1>10. s.result = hop[n]
  BY <1>6, <1>9
<1> QED BY <1>10, SearchIsWalk, ReachIsHops DEF s, w, hop, n

\* Searched with a beam as wide as the graph, the store answers the best of
\* what can be reached, each id once, in the sealed form as in the other.
THEOREM BestAnswers == Spec => []AnswersAreBest
<1>1. IInv /\ LInv => AnswersAreBest
  <2> DEFINE h == Seal(graph, FALSE)
             n == Len(graph.nodes)
             e(q) == EntersAt(graph, q, 0, 0, n)
             within(q) == Live(graph) \intersect Reach(graph, e(q), 0)
             right(q, allowed) == {i \in within(q) : graph.nodes[i].id \in allowed}
  <2> SUFFICES ASSUME IInv, LInv, graph.nodes # <<>>,
                      NEW q \in Vector, NEW allowed \in SUBSET Id, NEW k \in 1..Cardinality(allowed)
               PROVE  /\ Search(h, q, k, n, allowed) = Nearest(graph, right(q, allowed), q, k)
                      /\ \A i, j \in Search(h, q, k, n, allowed) :
                             graph.nodes[i].id = graph.nodes[j].id => i = j
    BY DEF AnswersAreBest
  <2> DEFINE ef == IF n > k THEN n ELSE k
  <2>1. GraphOk(graph) /\ Shaped(graph) /\ Navigable(graph)
    BY DEF IInv, LInv, GraphOk
  <2>2. Shaped(h) /\ SameNodes(graph, h) /\ SameLinks(graph, h)
    BY <2>1, SealShaped, SealLinks
  <2>3. h.nodes = graph.nodes /\ Live(h) = Live(graph) /\ Len(h.nodes) = n
    BY <2>2, SamePairs DEF SameNodes
  <2>4. n \in Nat \ {0} /\ n \in 1..n /\ n \in 0..n
    <3>1. n \in Nat /\ n # 0
      BY <2>1 DEF Shaped
    <3> HIDE DEF n
    <3> QED BY <3>1
  <2>5. k \in Nat \ {0} /\ ef \in Nat \ {0} /\ n <= ef
    <3>1. IsFiniteSet(allowed)
      BY IdAssumption, FS_Subset
    <3>2. Cardinality(allowed) \in Nat
      BY <3>1, FS_CardinalityType
    <3> HIDE DEF n
    <3> QED BY <2>4, <3>2
  <2>6. LinkedTo(graph, n) /\ Entered(graph, n) /\ 0 \in 0..graph.top
    BY <2>1, <2>4 DEF Navigable, Entered
  <2>7. e(q) \in At(graph, n, 0)
    BY <2>1, <2>4, <2>6, EntersStays
  <2> HIDE DEF h, ef
  <2>8. Comparable(graph, q) /\ Closed(graph, At(graph, n, 0), 0)
    BY <2>1, <2>4, <2>6, ShapedComparable, AtClosed
  <2>9. At(graph, n, 0) = Ordinals(graph)
    <3>1. \A i \in Ordinals(graph) : graph.nodes[i].level >= 0
      BY <2>1, LevelNat
    <3> QED BY <3>1 DEF At, Ordinals
  <2>10. EntersAt(h, q, 0, 0, ef) = e(q)
    BY <2>1, <2>2, <2>4, <2>5, SameEnters
  <2>11. SearchLayer(h, q, e(q), 0, ef) = SearchLayer(graph, q, e(q), 0, ef)
    BY <2>2, <2>5, <2>7, <2>8, SameWalk
  <2>12. SearchLayer(graph, q, e(q), 0, ef) = Reach(graph, e(q), 0)
    BY <2>5, <2>7, <2>8, <2>9, WideSearch
  <2>13. Pool(h, q, ef) = Reach(graph, e(q), 0)
    BY <2>10, <2>11, <2>12 DEF Pool
  <2>14. Search(h, q, k, n, allowed)
           = Nearest(h, {i \in Pool(h, q, ef) \intersect Live(h) : h.nodes[i].id \in allowed}, q, k)
    BY <2>3 DEF Search, ef
  <2>15. {i \in Pool(h, q, ef) \intersect Live(h) : h.nodes[i].id \in allowed} = right(q, allowed)
    BY <2>3, <2>13
  <2>16. Search(h, q, k, n, allowed) = Nearest(graph, right(q, allowed), q, k)
    <3> DEFINE S == right(q, allowed)
    <3>1. Search(h, q, k, n, allowed) = Nearest(h, S, q, k)
      BY <2>14, <2>15
    <3> HIDE DEF S
    <3>2. Nearest(h, S, q, k) = Nearest(graph, S, q, k)
      BY <2>3, SameNearest
    <3> QED BY <3>1, <3>2 DEF S
  <2>17. Nearest(graph, right(q, allowed), q, k) \subseteq Live(graph)
    BY DEF Nearest
  <2> QED BY <2>1, <2>16, <2>17, OneEach
<1> QED BY <1>1, Invariance, Soundness, PTL

-----------------------------------------------------------------------------
(* Splitting a range.                                                      *)

\* A multiple of a positive number by a larger factor is larger by the number.
LEMMA TimesApart ==
    ASSUME NEW a \in Nat, NEW b \in Nat, NEW k \in Nat, a < b
    PROVE  a * k + k <= b * k
<1>1. PICK d \in Nat : b = a + 1 + d
  <2>1. b - a - 1 \in Nat /\ b = a + 1 + (b - a - 1)
    OBVIOUS
  <2> QED
    BY <2>1
<1>2. b * k = a * k + k + d * k
  BY <1>1
<1>3. d * k \in Nat
  OBVIOUS
<1> QED
  BY <1>2, <1>3

\* Rounding the length of a block up makes the blocks cover the range.
LEMMA ChunkCovers ==
    ASSUME NEW n \in Nat \ {0}, NEW c \in 1 .. n
    PROVE  Chunk(n, c) \in Nat \ {0} /\ n <= c * Chunk(n, c)
<1> DEFINE x == n + c - 1
<1>1. x \in Int /\ c \in Nat \ {0}
  OBVIOUS
<1>2. PICK q \in Int, s \in 0 .. c - 1 : x = c * q + s /\ q = x \div c
  <2>1. /\ x \div c \in Int /\ x % c \in 0 .. c - 1
        /\ x = c * (x \div c) + (x % c)
    BY <1>1
  <2> QED
    BY <2>1
<1>3. n <= c * q
  BY <1>2
<1>4. q \in Nat \ {0}
  <2>1. SUFFICES ASSUME q <= 0 PROVE FALSE
    BY <1>2
  <2>2. c * q <= 0
    BY <2>1, <1>2, <1>1
  <2> QED
    BY <2>2, <1>3, <1>2, <1>1
<1> QED
  BY <1>3, <1>4 DEF Chunk

\* A number has one rest, so two shares of a stride have no item in common.
LEMMA StridesDisjoint ==
    ASSUME NEW n \in Nat, NEW c \in Nat \ {0},
           NEW a \in 0 .. c - 1, NEW b \in 0 .. c - 1, a < b
    PROVE  Strided(n, c, a) \cap Strided(n, c, b) = {}
<1> DEFINE IsMultiple(x) == \E p \in Int : x = c * p
<1>1. ASSUME NEW x \in Int, x % c = 0 PROVE IsMultiple(x)
  <2>1. x \div c \in Int /\ x = c * (x \div c) + (x % c)
    OBVIOUS
  <2>2. x = c * (x \div c)
    BY <2>1, <1>1
  <2> QED
    BY <2>1, <2>2
<1>2. SUFFICES ASSUME NEW i \in Int, IsMultiple(i - a), IsMultiple(i - b)
               PROVE  FALSE
  <2> HIDE DEF IsMultiple
  <2>1. ASSUME NEW i \in Int, NEW d \in Nat, (i - d) % c = 0 PROVE IsMultiple(i - d)
    <3>1. PICK x \in Int : x = i - d
      OBVIOUS
    <3>2. x % c = 0
      BY <3>1, <2>1
    <3>3. IsMultiple(x)
      BY <3>2, <1>1
    <3> QED
      BY <3>1, <3>3
  <2> QED
    BY <2>1 DEF Strided
<1>3. PICK p \in Int : i - a = c * p
  BY <1>2
<1>4. PICK q \in Int : i - b = c * q
  BY <1>2
<1>5. c * p - c * q = b - a /\ b - a \in 1 .. c - 1
  BY <1>3, <1>4
<1>6. c * (p - q) = c * p - c * q
  OBVIOUS
<1>7. p - q >= 1
  <2>1. SUFFICES ASSUME p - q <= 0 PROVE FALSE
    OBVIOUS
  <2>2. c * (p - q) <= 0
    BY <2>1
  <2> QED
    BY <2>2, <1>5, <1>6
<1>8. c * (p - q) >= c
  BY <1>7
<1> QED
  BY <1>8, <1>5, <1>6

\* The rest of an item is the share it is dealt to.
LEMMA StridesCover ==
    ASSUME NEW n \in Nat, NEW c \in Nat \ {0}, NEW i \in 0 .. n - 1
    PROVE  \E b \in 0 .. c - 1 : i \in Strided(n, c, b)
<1>1. PICK p \in Int, s \in 0 .. c - 1 : i = c * p + s
  <2>1. /\ i \div c \in Int /\ i % c \in 0 .. c - 1
        /\ i = c * (i \div c) + (i % c)
    OBVIOUS
  <2> QED
    BY <2>1
<1>2. p >= 0
  <2>1. SUFFICES ASSUME p <= -1 PROVE FALSE
    OBVIOUS
  <2>2. c * p <= -c
    BY <2>1
  <2> QED
    BY <2>2, <1>1
<1>3. c * p >= 0
  BY <1>2
<1>4. PICK x \in Int : x = i - s /\ x = c * p
  BY <1>1
<1>5. x % c = 0
  <2>1. PICK q \in Int, t \in 0 .. c - 1 : x = c * q + t /\ t = x % c
    <3>1. /\ x \div c \in Int /\ x % c \in 0 .. c - 1
          /\ x = c * (x \div c) + (x % c)
      OBVIOUS
    <3> QED
      BY <3>1
  <2>2. c * p - c * q = t
    <3>1. c * p = c * q + t
      BY <1>4, <2>1
    <3>2. c * p \in Int /\ c * q \in Int /\ t \in Int
      OBVIOUS
    <3> QED
      BY <3>1, <3>2
  <2>3. c * (p - q) = c * p - c * q
    OBVIOUS
  <2>4. p - q <= 0
    <3>1. SUFFICES ASSUME p - q >= 1 PROVE FALSE
      OBVIOUS
    <3>2. c * (p - q) >= c
      BY <3>1
    <3> QED
      BY <3>2, <2>2, <2>3
  <2>5. c * (p - q) <= 0
    BY <2>4
  <2> QED
    BY <2>1, <2>2, <2>3, <2>5
<1>6. (i - s) % c = 0 /\ i >= s
  BY <1>1, <1>3, <1>4, <1>5
<1> QED
  BY <1>6 DEF Strided

\* The next block begins where this one ends.
LEMMA BlocksDisjoint ==
    ASSUME NEW n \in Nat, NEW k \in Nat \ {0}, NEW a \in Nat, NEW b \in Nat, a < b
    PROVE  Block(n, k, a) \cap Block(n, k, b) = {}
<1>1. a * k + k <= b * k
  BY TimesApart
<1>2. a * k \in Int /\ b * k \in Int
  OBVIOUS
<1> QED
  BY <1>1, <1>2 DEF Block, BlockLow, BlockHigh

\* The quotient of an item is the block it lies in.
LEMMA BlocksCover ==
    ASSUME NEW n \in Nat \ {0}, NEW c \in 1 .. n, NEW i \in 0 .. n - 1
    PROVE  \E b \in 0 .. c - 1 : i \in Block(n, Chunk(n, c), b)
<1>1. PICK k \in Nat \ {0} : k = Chunk(n, c) /\ n <= c * k
  BY ChunkCovers
<1>2. PICK b \in Int, s \in 0 .. k - 1 : i = k * b + s
  <2>1. /\ i \div k \in Int /\ i % k \in 0 .. k - 1
        /\ i = k * (i \div k) + (i % k)
    OBVIOUS
  <2> QED
    BY <2>1
<1>3. k * b = b * k /\ b * k \in Int
  OBVIOUS
<1>4. b >= 0
  <2>1. SUFFICES ASSUME b <= -1 PROVE FALSE
    OBVIOUS
  <2>2. k * b <= -k
    BY <2>1
  <2> QED
    BY <2>2, <1>2
<1>5. b < c
  <2>1. SUFFICES ASSUME b >= c PROVE FALSE
    OBVIOUS
  <2>2. b * k >= c * k
    BY <2>1
  <2> QED
    BY <2>2, <1>1, <1>2, <1>3
<1>6. i \in Block(n, k, b)
  BY <1>2, <1>3 DEF Block, BlockLow, BlockHigh
<1> QED
  BY <1>1, <1>4, <1>5, <1>6

\* A range that is not empty is split into some shares, at most one an item.
LEMMA SomeShares ==
    ASSUME NEW r \in Regions, r.n # 0
    PROVE  r.n \in Nat \ {0} /\ ShareCount(r) \in 1 .. r.n
<1>1. r.n \in Nat \ {0} /\ r.width \in Nat \ {0}
  BY SharesAssumption DEF Regions
<1> QED
  BY <1>1, SharesAssumption DEF ShareCount, StrideCount, BlockCount

-----------------------------------------------------------------------------
\* Two shares have no item in common.
LEMMA SharesDisjoint ==
    ASSUME NEW r \in Regions, r.n # 0,
           NEW a \in 0 .. ShareCount(r) - 1, NEW b \in 0 .. ShareCount(r) - 1, a < b
    PROVE  Items(r, a) \cap Items(r, b) = {}
<1>1. PICK n \in Nat \ {0}, c \in Int : n = r.n /\ c = ShareCount(r) /\ c \in 1 .. n
  BY SomeShares
<1>2. Strided(n, c, a) \cap Strided(n, c, b) = {}
  BY <1>1, StridesDisjoint
<1>3. Block(n, Chunk(n, c), a) \cap Block(n, Chunk(n, c), b) = {}
  <2>1. Chunk(n, c) \in Nat \ {0}
    BY <1>1, ChunkCovers
  <2>2. n \in Nat /\ a \in Nat /\ b \in Nat
    BY <1>1
  <2> QED
    BY <2>1, <2>2, BlocksDisjoint
<1> QED
  BY <1>1, <1>2, <1>3 DEF Items

\* Every item is in a share.
LEMMA SharesCover ==
    ASSUME NEW r \in Regions, NEW i \in 0 .. r.n - 1
    PROVE  \E b \in 0 .. ShareCount(r) - 1 : i \in Items(r, b)
<1>1. PICK n \in Nat \ {0}, c \in Int : n = r.n /\ c = ShareCount(r) /\ c \in 1 .. n
  <2>1. r.n \in Nat
    BY SharesAssumption DEF Regions
  <2>2. r.n # 0
    BY <2>1
  <2> QED
    BY <2>1, <2>2, SomeShares
<1>2. n \in Nat /\ c \in Nat \ {0} /\ i \in 0 .. n - 1
  BY <1>1
<1>3. \E b \in 0 .. c - 1 : i \in Strided(n, c, b)
  BY <1>2, StridesCover
<1>4. \E b \in 0 .. c - 1 : i \in Block(n, Chunk(n, c), b)
  BY <1>1, <1>2, BlocksCover
<1> QED
  BY <1>1, <1>3, <1>4 DEF Items

-----------------------------------------------------------------------------
\* An item was given to the body once when its share has run, never otherwise.
SharesInv ==
    /\ region \in Regions
    /\ ran \subseteq 0 .. ShareCount(region) - 1
    /\ touched \in [0 .. region.n - 1 -> 0 .. 1]
    /\ \A i \in 0 .. region.n - 1 :
          touched[i] = 1 <=> \E b \in ran : i \in Items(region, b)

LEMMA SharesInitInv == SharesInit => SharesInv
  BY DEF SharesInit, SharesInv

LEMMA SharesNextInv == SharesInv /\ [SharesNext]_sharesVars => SharesInv'
<1> SUFFICES ASSUME SharesInv, [SharesNext]_sharesVars PROVE SharesInv'
  OBVIOUS
<1> USE DEF SharesInv
<1>1. CASE UNCHANGED sharesVars
  BY <1>1 DEF sharesVars
<1>2. CASE SharesNext
  <2>1. PICK b \in 0 .. ShareCount(region) - 1 : RunShare(b)
    BY <1>2 DEF SharesNext
  <2>2. CASE thrown' = TRUE /\ UNCHANGED <<ran, touched>>
    BY <2>1, <2>2 DEF RunShare
  <2>3. CASE /\ ran' = ran \cup {b}
             /\ touched' = [i \in 0 .. region.n - 1 |->
                              IF i \in Items(region, b) THEN touched[i] + 1 ELSE touched[i]]
    <3>1. region' = region /\ b \notin ran
      BY <2>1 DEF RunShare
    <3>2. ASSUME NEW i \in 0 .. region.n - 1, i \in Items(region, b)
          PROVE  touched[i] = 0
      <4>1. SUFFICES ASSUME touched[i] = 1 PROVE FALSE
        OBVIOUS
      <4>2. PICK a \in ran : i \in Items(region, a)
        BY <4>1
      <4>3. a # b /\ a \in 0 .. ShareCount(region) - 1
        BY <4>2, <3>1
      <4>4. region.n # 0
        BY <3>2, SharesAssumption DEF Regions
      <4>5. CASE a < b
        BY <4>2, <4>3, <4>4, <4>5, <3>2, SharesDisjoint
      <4>6. CASE b < a
        BY <4>2, <4>3, <4>4, <4>6, <3>2, SharesDisjoint
      <4>7. ShareCount(region) \in Int
        BY <4>4, SomeShares
      <4> QED
        BY <4>3, <4>5, <4>6, <4>7
    <3>3. touched' \in [0 .. region.n - 1 -> 0 .. 1]
      BY <2>3, <3>2
    <3>4. ASSUME NEW i \in 0 .. region.n - 1
          PROVE  touched'[i] = 1 <=> \E a \in ran' : i \in Items(region, a)
      <4>1. CASE i \in Items(region, b)
        BY <4>1, <3>2, <2>3
      <4>2. CASE i \notin Items(region, b)
        BY <4>2, <2>3
      <4> QED
        BY <4>1, <4>2
    <3> QED
      BY <3>1, <3>3, <3>4, <2>3, <2>1
  <2> QED
    BY <2>1, <2>2, <2>3 DEF RunShare
<1> QED
  BY <1>1, <1>2

LEMMA SharesInvOnce == SharesInv => EachItemOnce
<1> SUFFICES ASSUME SharesInv PROVE EachItemOnce
  OBVIOUS
<1>1. \A i \in DOMAIN touched : touched[i] <= 1
  BY DEF SharesInv
<1>2. ASSUME ran = 0 .. ShareCount(region) - 1, NEW i \in DOMAIN touched
      PROVE  touched[i] = 1
  <2>1. i \in 0 .. region.n - 1 /\ region \in Regions
    BY <1>2 DEF SharesInv
  <2>2. \E b \in ran : i \in Items(region, b)
    BY <1>2, <2>1, SharesCover
  <2> QED
    BY <2>1, <2>2 DEF SharesInv
<1> QED
  BY <1>1, <1>2 DEF EachItemOnce

\* No item of a split range is given to the body twice, and none is left out
\* when every share has run: for every length, width and threshold of
\* parallel_for, parallel_blocks and parallel_for_strided (parallel.hpp:51-105).
THEOREM SharesEachItemOnce == SharesSpec => []EachItemOnce
<1>1. SharesInit => SharesInv
  BY SharesInitInv
<1>2. SharesInv /\ [SharesNext]_sharesVars => SharesInv'
  BY SharesNextInv
<1>3. SharesInv => EachItemOnce
  BY SharesInvOnce
<1> QED
  BY <1>1, <1>2, <1>3, PTL DEF SharesSpec

-----------------------------------------------------------------------------
(* Sorting.                                                                *)

Back == [list : Nat \X Nat, node : Nat]
LinkOrder(B) == {p \in B \X B : LinkBefore(p[1], p[2])}

LEMMA BackOrder ==
    ASSUME NEW B \in SUBSET Back
    PROVE  /\ Orders(LinkOrder(B), B)
           /\ \A x, y \in B : <<x, y>> \in LinkOrder(B) <=> LinkBefore(x, y)
<1>1. \A x \in B : /\ x = [list |-> x.list, node |-> x.node] /\ x.node \in Nat
                   /\ x.list = <<x.list[1], x.list[2]>> /\ x.list[1] \in Nat /\ x.list[2] \in Nat
  BY DEF Back
<1>2. \A x, y \in B : <<x, y>> \in LinkOrder(B) <=> LinkBefore(x, y)
  BY DEF LinkOrder
<1>3. \A x \in B : ~LinkBefore(x, x)
  BY <1>1 DEF LinkBefore
<1>4. ASSUME NEW x \in B, NEW y \in B, x # y PROVE LinkBefore(x, y) \/ LinkBefore(y, x)
  <2>1. x.list # y.list \/ x.node # y.node
    BY <1>1, <1>4
  <2>2. x.list # y.list => x.list[1] # y.list[1] \/ x.list[2] # y.list[2]
    BY <1>1
  <2> QED BY <1>1, <2>1, <2>2 DEF LinkBefore
<1>5. ASSUME NEW x \in B, NEW y \in B, NEW z \in B, LinkBefore(x, y), LinkBefore(y, z)
      PROVE  LinkBefore(x, z)
  <2>1. CASE x.list = y.list /\ y.list = z.list
    <3>1. x.node < y.node /\ y.node < z.node
      BY <1>1, <1>5, <2>1 DEF LinkBefore
    <3>2. x.node < z.node
      BY <1>1, <3>1
    <3> QED BY <2>1, <3>2 DEF LinkBefore
  <2>2. CASE x.list # y.list \/ y.list # z.list
    <3> DEFINE a == x.list[1]
               b == y.list[1]
               c == z.list[1]
               d == x.list[2]
               e == y.list[2]
               f == z.list[2]
    <3>1. a \in Nat /\ b \in Nat /\ c \in Nat /\ d \in Nat /\ e \in Nat /\ f \in Nat
      BY <1>1
    <3>2. \/ a < b
          \/ a = b /\ d < e
          \/ a = b /\ d = e /\ x.list = y.list
      BY <1>5 DEF LinkBefore
    <3>3. \/ b < c
          \/ b = c /\ e < f
          \/ b = c /\ e = f /\ y.list = z.list
      BY <1>5 DEF LinkBefore
    <3>4. a < c \/ (a = c /\ d < f)
      <4> HIDE DEF a, b, c, d, e, f
      <4> QED BY <2>2, <3>1, <3>2, <3>3
    <3> QED BY <3>4 DEF LinkBefore
  <2> QED BY <2>1, <2>2
<1> QED BY <1>2, <1>3, <1>4, <1>5 DEF Orders

\* Sorted, the links back are a list of them all in order.
LEMMA SortedLinksIs ==
    ASSUME NEW B \in SUBSET Back, IsFiniteSet(B)
    PROVE  LET s == SortedLinks(B)
           IN  /\ Cardinality(B) \in Nat
               /\ s \in [1..Cardinality(B) -> B]
               /\ \A x \in B : \E n \in 1..Cardinality(B) : s[n] = x
               /\ \A m, n \in 1..Cardinality(B) : m < n => LinkBefore(s[m], s[n])
<1> DEFINE top == Cardinality(B)
           place(x) == Cardinality(Before(LinkOrder(B), B, x))
           nth(n) == CHOOSE x \in B : Cardinality({y \in B : LinkBefore(y, x)}) = n - 1
           s == [n \in 1..top |-> nth(n)]
<1>1. /\ top \in Nat
      /\ \A x \in B : place(x) \in 0..(top - 1)
      /\ \A x, y \in B : <<x, y>> \in LinkOrder(B) <=> place(x) < place(y)
      /\ \A n \in 0..(top - 1) : \E x \in B : place(x) = n
  BY BackOrder, Places
<1>2. \A x, y \in B : LinkBefore(x, y) <=> place(x) < place(y)
  BY <1>1, BackOrder
<1>3. \A x \in B : place(x) = Cardinality({y \in B : LinkBefore(y, x)})
  <2>1. \A x \in B : Before(LinkOrder(B), B, x) = {y \in B : LinkBefore(y, x)}
    BY BackOrder DEF Before
  <2> QED BY <2>1
<1>4. SortedLinks(B) = s
  BY DEF SortedLinks, InOrderOf
<1> HIDE DEF place
<1>5. ASSUME NEW n \in 1..top PROVE nth(n) \in B /\ place(nth(n)) = n - 1
  <2>1. n - 1 \in 0..(top - 1)
    BY <1>1
  <2>2. PICK x \in B : place(x) = n - 1
    BY <1>1, <2>1
  <2>3. Cardinality({y \in B : LinkBefore(y, x)}) = n - 1
    BY <1>3, <2>2
  <2>4. nth(n) \in B /\ Cardinality({y \in B : LinkBefore(y, nth(n))}) = n - 1
    BY <2>3
  <2> QED BY <1>3, <2>4
<1> HIDE DEF nth
<1>6. \A x, y \in B : place(x) = place(y) => x = y
  <2> SUFFICES ASSUME NEW x \in B, NEW y \in B, place(x) = place(y), x # y PROVE FALSE
    OBVIOUS
  <2>1. LinkBefore(x, y) \/ LinkBefore(y, x)
    BY BackOrder DEF Orders
  <2> QED BY <1>1, <1>2, <2>1
<1>7. ASSUME NEW x \in B PROVE \E n \in 1..top : s[n] = x
  <2>1. place(x) + 1 \in 1..top /\ (place(x) + 1) - 1 = place(x)
    BY <1>1
  <2>2. nth(place(x) + 1) \in B /\ place(nth(place(x) + 1)) = place(x)
    BY <1>5, <2>1
  <2>3. s[place(x) + 1] = x
    BY <1>6, <2>1, <2>2
  <2> QED BY <2>1, <2>3
<1>8. ASSUME NEW m \in 1..top, NEW n \in 1..top, m < n PROVE LinkBefore(s[m], s[n])
  <2>1. place(nth(m)) = m - 1 /\ place(nth(n)) = n - 1 /\ nth(m) \in B /\ nth(n) \in B
    BY <1>5
  <2>2. m - 1 < n - 1
    BY <1>1, <1>8
  <2> QED BY <1>2, <2>1, <2>2
<1>9. s \in [1..top -> B]
  BY <1>5
<1> HIDE DEF s
<1> QED BY <1>1, <1>4, <1>7, <1>8, <1>9

\* The groups of the sorted links back: one for each list that links land in,
\* with all the nodes they come from.
LEMMA GroupsAre ==
    ASSUME NEW B \in SUBSET Back, IsFiniteSet(B)
    PROVE  LET G == Groups(SortedLinks(B))
           IN  /\ \A n \in DOMAIN G :
                      /\ \E x \in B : x.list = G[n].list
                      /\ G[n].new = {x.node : x \in {y \in B : y.list = G[n].list}}
               /\ \A m, n \in DOMAIN G : m # n => G[m].list # G[n].list
               /\ \A x \in B : \E n \in DOMAIN G : G[n].list = x.list
<1> DEFINE top == Cardinality(B)
           s == SortedLinks(B)
           starts == {n \in DOMAIN s : n = 1 \/ s[n].list # s[n - 1].list}
           group(n) == {m \in DOMAIN s : m >= n /\ ~\E t \in starts : n < t /\ t <= m}
           G == Groups(SortedLinks(B))
<1>1. /\ top \in Nat /\ DOMAIN s = 1..top
      /\ \A n \in 1..top : s[n] \in B
      /\ \A x \in B : \E n \in 1..top : s[n] = x
      /\ \A m, n \in 1..top : m < n => LinkBefore(s[m], s[n])
  <2>1. /\ top \in Nat /\ s \in [1..top -> B]
        /\ \A x \in B : \E n \in 1..top : s[n] = x
        /\ \A m, n \in 1..top : m < n => LinkBefore(s[m], s[n])
    BY SortedLinksIs
  <2> HIDE DEF s
  <2> QED BY <2>1
<1>2. G = [n \in starts |-> [list |-> s[n].list, new |-> {s[m].node : m \in group(n)}]]
  BY DEF Groups
<1> HIDE DEF s, top
<1>3. starts = {n \in 1..top : n = 1 \/ s[n].list # s[n - 1].list}
  BY <1>1
<1>4. \A n : group(n) = {m \in 1..top : m >= n /\ ~\E t \in starts : n < t /\ t <= m}
  BY <1>1
<1> HIDE DEF starts, group, G
<1>5. \A x \in B : /\ x.list = <<x.list[1], x.list[2]>>
                   /\ x.list[1] \in Nat /\ x.list[2] \in Nat
  BY DEF Back
\* Between members of the same list there is no start.
<1>6. ASSUME NEW l \in 1..top, NEW t \in starts, NEW m \in 1..top, l < t, t <= m
      PROVE  s[l].list # s[m].list
  <2>1. t \in 1..top /\ t # 1 /\ t - 1 \in 1..top /\ s[t].list # s[t - 1].list
    BY <1>1, <1>3, <1>6
  <2>2. l <= t - 1 /\ t - 1 < t
    BY <1>1, <1>6, <2>1
  <2> DEFINE p(i) == s[i].list[1]
             q(i) == s[i].list[2]
  <2>3. \A i \in 1..top : p(i) \in Nat /\ q(i) \in Nat /\ s[i].list = <<p(i), q(i)>>
    BY <1>1, <1>5
  <2>4. \A i, j \in 1..top : i < j =>
            p(i) < p(j) \/ (p(i) = p(j) /\ q(i) < q(j)) \/ s[i].list = s[j].list
    BY <1>1 DEF LinkBefore
  <2>5. p(t - 1) < p(t) \/ (p(t - 1) = p(t) /\ q(t - 1) < q(t))
    BY <2>1, <2>2, <2>4
  <2>6. l = t - 1 \/ l < t - 1
    BY <1>1, <2>1, <2>2
  <2>7. p(l) < p(t - 1) \/ (p(l) = p(t - 1) /\ q(l) <= q(t - 1))
    <3>1. CASE l = t - 1
      <4>1. p(l) = p(t - 1) /\ q(l) = q(t - 1) /\ q(l) \in Nat
        BY <2>3, <3>1
      <4> QED BY <4>1
    <3>2. CASE l < t - 1
      <4>1. \/ p(l) < p(t - 1)
            \/ p(l) = p(t - 1) /\ q(l) < q(t - 1)
            \/ s[l].list = s[t - 1].list
        BY <2>1, <2>4, <3>2
      <4>2. s[l].list = s[t - 1].list => p(l) = p(t - 1) /\ q(l) = q(t - 1)
        OBVIOUS
      <4>3. q(l) \in Nat /\ q(t - 1) \in Nat
        BY <2>1, <2>3
      <4> HIDE DEF p, q
      <4> QED BY <4>1, <4>2, <4>3
    <3> QED BY <2>6, <3>1, <3>2
  <2>8. p(t) < p(m) \/ (p(t) = p(m) /\ q(t) <= q(m))
    <3>1. CASE t = m
      <4>1. p(t) = p(m) /\ q(t) = q(m) /\ q(t) \in Nat
        BY <2>1, <2>3, <3>1
      <4> QED BY <4>1
    <3>2. CASE t < m
      <4>1. \/ p(t) < p(m)
            \/ p(t) = p(m) /\ q(t) < q(m)
            \/ s[t].list = s[m].list
        BY <2>1, <2>4, <3>2
      <4>2. s[t].list = s[m].list => p(t) = p(m) /\ q(t) = q(m)
        OBVIOUS
      <4>3. q(t) \in Nat /\ q(m) \in Nat
        BY <2>1, <2>3
      <4> HIDE DEF p, q
      <4> QED BY <4>1, <4>2, <4>3
    <3>3. t = m \/ t < m
      BY <1>1, <1>6, <2>1
    <3> QED BY <3>1, <3>2, <3>3
  <2>9. s[l].list = s[m].list => p(l) = p(m) /\ q(l) = q(m)
    OBVIOUS
  <2>10. /\ p(l) \in Nat /\ q(l) \in Nat /\ p(m) \in Nat /\ q(m) \in Nat
         /\ p(t) \in Nat /\ q(t) \in Nat /\ p(t - 1) \in Nat /\ q(t - 1) \in Nat
    BY <2>1, <2>3
  <2> HIDE DEF p, q
  <2> QED BY <2>5, <2>7, <2>8, <2>9, <2>10
\* And behind a start, as long as there is no other, the list is the same.
<1>7. ASSUME NEW n \in starts, NEW m \in group(n) PROVE s[m].list = s[n].list
  <2> SUFFICES ASSUME s[m].list # s[n].list PROVE FALSE
    OBVIOUS
  <2>0. n \in 1..top /\ m \in 1..top /\ n <= m
    BY <1>1, <1>3, <1>4
  <2> DEFINE D == {i \in Nat : i >= n /\ i \in 1..top /\ s[i].list # s[n].list}
  <2>1. m \in D
    BY <1>1, <2>0
  <2>2. PICK t \in D : \A y \in D : t <= y
    BY <2>1, LeastNumber
  <2>3. t <= m /\ t \in 1..top /\ t > n
    BY <1>1, <2>0, <2>1, <2>2
  <2>4. t - 1 \in 1..top /\ t - 1 >= n /\ ~(t <= t - 1)
    BY <1>1, <2>0, <2>3
  <2>5. s[t - 1].list = s[n].list
    <3>1. t - 1 \notin D
      BY <2>2, <2>4
    <3> QED BY <2>4, <3>1
  <2>6. t \in starts
    BY <1>3, <2>2, <2>3, <2>5
  <2> QED BY <1>4, <2>3, <2>6
<1>8. ASSUME NEW n \in starts PROVE group(n) = {m \in 1..top : s[m].list = s[n].list}
  <2>0. n \in 1..top
    BY <1>3
  <2>1. ASSUME NEW m \in 1..top, s[m].list = s[n].list PROVE m \in group(n)
    <3>1. m >= n
      <4> SUFFICES ASSUME m < n PROVE FALSE
        BY <1>1, <2>0
      <4>1. n <= n
        BY <1>1, <2>0
      <4> QED BY <1>6, <2>0, <2>1, <4>1
    <3>2. ASSUME NEW t \in starts, n < t, t <= m PROVE FALSE
      BY <1>6, <2>0, <2>1, <3>2
    <3> QED BY <1>4, <3>1, <3>2
  <2>2. group(n) \subseteq 1..top
    BY <1>4
  <2> QED BY <1>7, <2>1, <2>2
<1>9. ASSUME NEW n \in DOMAIN G
      PROVE  /\ n \in starts /\ s[n] \in B /\ G[n].list = s[n].list
             /\ G[n].new = {x.node : x \in {y \in B : y.list = G[n].list}}
  <2>1. n \in starts /\ G[n] = [list |-> s[n].list, new |-> {s[m].node : m \in group(n)}]
    BY <1>2
  <2>2. s[n] \in B
    BY <1>1, <1>3, <2>1
  <2>3. G[n].list = s[n].list /\ G[n].new = {s[m].node : m \in group(n)}
    BY <2>1
  <2>4. {s[m].node : m \in group(n)} = {x.node : x \in {y \in B : y.list = s[n].list}}
    <3>1. ASSUME NEW m \in group(n) PROVE s[m].node \in {x.node : x \in {y \in B : y.list = s[n].list}}
      <4>1. s[m] \in {y \in B : y.list = s[n].list}
        BY <1>1, <1>8, <2>1
      <4> QED BY <4>1
    <3>2. ASSUME NEW x \in {y \in B : y.list = s[n].list} PROVE x.node \in {s[m].node : m \in group(n)}
      <4>1. PICK m \in 1..top : s[m] = x
        BY <1>1
      <4>2. m \in group(n)
        BY <1>8, <2>1, <4>1
      <4> QED BY <4>1, <4>2
    <3> QED BY <3>1, <3>2
  <2> QED BY <2>1, <2>2, <2>3, <2>4
<1>10. ASSUME NEW m \in DOMAIN G, NEW n \in DOMAIN G, m # n PROVE G[m].list # G[n].list
  <2>1. m \in starts /\ n \in starts /\ m \in 1..top /\ n \in 1..top
    BY <1>3, <1>9
  <2>2. m < n \/ n < m
    BY <1>1, <1>10, <2>1
  <2>3. m <= m /\ n <= n
    BY <1>1, <2>1
  <2>4. s[m].list # s[n].list
    BY <1>6, <2>1, <2>2, <2>3
  <2> QED BY <1>9, <2>4
<1>11. ASSUME NEW x \in B PROVE \E n \in DOMAIN G : G[n].list = x.list
  <2> DEFINE D == {i \in Nat : i \in 1..top /\ s[i].list = x.list}
  <2>1. PICK i \in 1..top : s[i] = x
    BY <1>1
  <2>2. i \in D
    BY <1>1, <2>1
  <2>3. PICK t \in D : \A y \in D : t <= y
    BY <2>2, LeastNumber
  <2>4. t \in starts
    <3> SUFFICES ASSUME t # 1 PROVE s[t].list # s[t - 1].list
      BY <1>3, <2>3
    <3>1. t - 1 \in 1..top /\ t - 1 \in Nat /\ ~(t <= t - 1)
      BY <1>1, <2>3
    <3>2. t - 1 \notin D
      BY <2>3, <3>1
    <3> QED BY <2>3, <3>1, <3>2
  <2>5. t \in DOMAIN G /\ G[t].list = s[t].list
    BY <1>2, <2>4
  <2> QED BY <2>3, <2>5
<1> QED BY <1>9, <1>10, <1>11 DEF G

-----------------------------------------------------------------------------
(* What a wave reads and writes.                                           *)

\* Which links are selected depends on the vectors of the nodes only.
LEMMA SameSelect ==
    ASSUME NEW g, NEW h, h.nodes = g.nodes, NEW i, NEW cands, NEW m
    PROVE  SelectNeighbours(h, i, cands, m) = SelectNeighbours(g, i, cands, m)
BY DEF SelectNeighbours, Closest, Nearest, Vec

\* A graph between two waves: the first n nodes are linked soundly, the others
\* not at all, and every node has the layers of its level.
Linkable(g, n) ==
    /\ Shaped(g) /\ ~g.sealed /\ ~g.undefined /\ VecsOnce(g)
    /\ n \in 1..Len(g.nodes) /\ LinkedTo(g, n) /\ Entered(g, n) /\ Unlinked(g, n)
    /\ \A i \in Ordinals(g) : Len(g.links[i]) = g.nodes[i].level + 1

WaveFrom(g, n) == (n + 1)..(n + WaveSize(n, Len(g.nodes)))

\* The links a wave chooses are links to nodes before it, in layers that these
\* have; applied at once, they leave a graph that the next wave can start from.
LEMMA WaveIs ==
    ASSUME NEW g, NEW n, Linkable(g, n), WaveSize(n, Len(g.nodes)) # 0
    PROVE  LET size == WaveSize(n, Len(g.nodes))
               wave == WaveFrom(g, n)
               picks == WavePicks(g, wave)
               h == LinkWave(g, wave)
           IN  /\ size \in Nat /\ n + size <= Len(g.nodes)
               /\ wave \subseteq Ordinals(g) /\ \A i \in wave : i > n
               /\ h = [Raise(g, wave) EXCEPT !.links = TakenLinks(g, wave, picks)]
               /\ Linkable(h, n + size) /\ h.nodes = g.nodes
               /\ \A i \in wave : \A L \in DOMAIN picks[i] :
                      /\ L \in Nat /\ L < Len(g.links[i])
                      /\ picks[i][L] \subseteq 1..n
                      /\ \A nb \in picks[i][L] : L < Len(g.links[nb])
<1> DEFINE size == WaveSize(n, Len(g.nodes))
           wave == WaveFrom(g, n)
           picks == WavePicks(g, wave)
           h == LinkWave(g, wave)
           links == TakenLinks(g, wave, picks)
<1>1. /\ Shaped(g) /\ ~g.sealed /\ ~g.undefined /\ VecsOnce(g)
      /\ n \in 1..Len(g.nodes) /\ LinkedTo(g, n) /\ Entered(g, n) /\ Unlinked(g, n)
      /\ Len(g.nodes) \in Nat
      /\ \A i \in Ordinals(g) : Len(g.links[i]) = g.nodes[i].level + 1
  BY DEF Linkable, Shaped
<1>2. /\ size \in Nat /\ size # 0 /\ n + size <= Len(g.nodes) /\ n \in Nat
      /\ n + size \in (n + 1)..Len(g.nodes)
  <2> DEFINE len == Len(g.nodes)
  <2>1. len \in Nat /\ n \in 1..len
    BY <1>1
  <2>2. n \in Nat /\ n <= len
    BY <2>1
  <2> HIDE DEF len
  <2>3. WaveSize(n, len) \in Nat /\ n + WaveSize(n, len) <= len
    BY <2>1, <2>2, WaveFits
  <2>4. WaveSize(n, len) # 0
    BY DEF len
  <2> QED BY <2>1, <2>2, <2>3, <2>4 DEF len
<1> HIDE DEF size
<1>3. wave = (n + 1)..(n + size)
  BY DEF WaveFrom, size
<1>4. /\ wave \subseteq Ordinals(g) /\ wave # {}
      /\ \A i \in wave : i > n /\ Len(g.links[i]) \in 1..(MaxLevel + 1)
  <2>1. wave \subseteq Ordinals(g) /\ n + 1 \in wave /\ \A i \in wave : i > n
    BY <1>1, <1>2, <1>3 DEF Ordinals
  <2>2. ASSUME NEW i \in wave PROVE Len(g.links[i]) \in 1..(MaxLevel + 1)
    <3>1. i \in Ordinals(g)
      BY <2>1
    <3>2. g.nodes[i].level \in Nat /\ g.nodes[i].level <= MaxLevel
      BY <1>1, <3>1, LevelNat
    <3>3. Len(g.links[i]) = g.nodes[i].level + 1
      BY <1>1, <3>1
    <3> QED BY <3>2, <3>3, ConstantsAssumption
  <2> QED BY <2>1, <2>2
<1>5. /\ Shaped(h) /\ SameNodes(g, h) /\ ~h.sealed
      /\ \A i \in Ordinals(g) : Len(h.links[i]) = Len(g.links[i])
  BY <1>1, <1>4, LinkShaped
<1>6. h = IF Misses(g, wave, picks) THEN Undefined(g) ELSE [Raise(g, wave) EXCEPT !.links = links]
  BY DEF LinkWave, ApplyLinks, WavePicks, Wanted, Backs, Taken, TakenLinks, Misses
<1>7. ASSUME NEW i \in wave, NEW L \in DOMAIN picks[i]
      PROVE  /\ L \in Nat /\ L < Len(g.links[i])
             /\ picks[i][L] \subseteq 1..n
             /\ \A nb \in picks[i][L] : L < Len(g.links[nb])
  <2> DEFINE level == Len(g.links[i]) - 1
  <2>1. i \in Ordinals(g) /\ level \in Nat
    BY <1>4
  <2>2. picks[i] = Picks(g, i, level)
    BY DEF WavePicks
  <2>3. L \in Nat /\ L <= level /\ picks[i][L] \subseteq At(g, n, L)
    <3> HIDE DEF level, picks
    <3> QED BY <1>1, <1>7, <2>1, <2>2, PicksRight
  <2>4. At(g, n, L) \subseteq 1..n
    BY DEF At
  <2>5. ASSUME NEW nb \in At(g, n, L) PROVE L < Len(g.links[nb])
    <3>1. nb \in 1..n /\ g.nodes[nb].level >= L
      BY DEF At
    <3>2. nb \in Ordinals(g)
      BY <1>1, <1>2, <3>1 DEF Ordinals
    <3>3. Len(g.links[nb]) = g.nodes[nb].level + 1 /\ g.nodes[nb].level \in Nat
      BY <1>1, <3>2, LevelNat
    <3> QED BY <2>3, <3>1, <3>3
  <2>6. L < Len(g.links[i])
    <3>1. Len(g.links[i]) \in Int
      BY <1>4
    <3> QED BY <2>3, <3>1
  <2> QED BY <2>3, <2>4, <2>5, <2>6
<1>8. ~Misses(g, wave, picks)
  <2> SUFFICES ASSUME NEW i \in wave, NEW L \in DOMAIN picks[i], NEW nb \in picks[i][L],
                      L >= Len(g.links[nb])
               PROVE  FALSE
    BY DEF Misses
  <2>1. L \in Nat /\ L < Len(g.links[nb]) /\ nb \in 1..n
    BY <1>7
  <2>2. nb \in Ordinals(g)
    BY <1>1, <1>2, <2>1 DEF Ordinals
  <2>3. Len(g.links[nb]) = g.nodes[nb].level + 1 /\ g.nodes[nb].level \in Nat
    BY <1>1, <2>2, LevelNat
  <2> QED BY <2>1, <2>3
<1>9. ~\E i \in Ordinals(g) : Len(g.links[i]) <= g.nodes[i].level
  <2> SUFFICES ASSUME NEW i \in Ordinals(g), Len(g.links[i]) <= g.nodes[i].level PROVE FALSE
    OBVIOUS
  <2>1. Len(g.links[i]) = g.nodes[i].level + 1 /\ g.nodes[i].level \in Nat
    BY <1>1, LevelNat
  <2> QED BY <2>1
<1>10. /\ h.undefined = g.undefined /\ LinkedTo(h, n + size) /\ Entered(h, n + size)
       /\ Unlinked(h, n + size)
  <2> HIDE DEF h
  <2>1. LET f == LinkWave(g, (n + 1)..(n + size))
        IN  \/ /\ f = Undefined(g)
               /\ \E i \in Ordinals(g) : Len(g.links[i]) <= g.nodes[i].level
            \/ /\ f.undefined = g.undefined /\ LinkedTo(f, n + size)
               /\ Entered(f, n + size) /\ Unlinked(f, n + size)
    BY <1>1, <1>2, WaveLinked
  <2> QED BY <1>3, <1>9, <2>1 DEF h
<1>11. Linkable(h, n + size)
  <2> HIDE DEF h
  <2>1. h.nodes = g.nodes
    BY <1>5 DEF SameNodes
  <2>2. VecsOnce(h) /\ Ordinals(h) = Ordinals(g)
    BY <1>1, <2>1 DEF VecsOnce, Vec, Ordinals
  <2>3. n + size \in 1..Len(h.nodes)
    BY <1>1, <1>2, <2>1
  <2>4. \A i \in Ordinals(h) : Len(h.links[i]) = h.nodes[i].level + 1
    BY <1>1, <1>5, <2>1, <2>2
  <2> QED BY <1>1, <1>5, <1>10, <2>2, <2>3, <2>4 DEF Linkable
<1>12. h = [Raise(g, wave) EXCEPT !.links = links] /\ h.nodes = g.nodes
  BY <1>5, <1>6, <1>8 DEF SameNodes
<1> HIDE DEF h, links, wave, picks
<1> QED BY <1>2, <1>4, <1>7, <1>11, <1>12 DEF size, h, links, wave, picks

-----------------------------------------------------------------------------
(* Where a batch starts, and the serial build.                             *)

\* A call of build_batch: a sound graph, whose nodes have the layers of their
\* levels once it is growing, and vectors that are not in it yet.
BatchOk(b) ==
    /\ Shaped(b.graph) /\ Navigable(b.graph) /\ ~b.graph.undefined
    /\ \A i \in Ordinals(b.graph) :
           Len(Unseal(b.graph).links[i]) = b.graph.nodes[i].level + 1
    /\ Batch(b.items, b.levels) /\ b.items # <<>> /\ Apart(b.items)
    /\ \A i \in Ordinals(b.graph), k \in 1..Len(b.items) :
           Vec(b.graph, i) # b.items[k].vec

StartOf(b) == BatchStart(b.graph, b.items, b.levels)

LEMMA StartIs ==
    ASSUME NEW b, BatchOk(b)
    PROVE  LET s == StartOf(b)
           IN  /\ s = [graph |-> s.graph, linked |-> s.linked]
               /\ Linkable(s.graph, s.linked)
               /\ Len(b.items) \in Nat
               /\ Len(s.graph.nodes) <= s.linked + Len(b.items)
<1> DEFINE g == b.graph
           items == b.items
           levels == b.levels
           u == Unseal(g)
           h == Stage(u, items, levels)
           base == Len(u.nodes)
           len == Len(items)
           e == [h EXCEPT !.indexed = FALSE, !.ords = <<>>, !.codes = base + len]
           f == IF e.top >= 0 THEN e ELSE [e EXCEPT !.top = levels[1], !.entry = base + 1]
           n == IF e.top >= 0 THEN base ELSE base + 1
           s == StartOf(b)
<1>1. s = [graph |-> f, linked |-> n]
  BY DEF StartOf, BatchStart
<1>2. /\ Shaped(u) /\ ~u.sealed /\ ~u.undefined /\ u.nodes = g.nodes
      /\ Navigable(u) /\ Batch(items, levels) /\ items # <<>>
      /\ \A i \in Ordinals(u) : Len(u.links[i]) = u.nodes[i].level + 1
  <2>1. /\ Shaped(g) /\ Navigable(g) /\ ~g.undefined /\ Batch(items, levels) /\ items # <<>>
        /\ \A i \in Ordinals(g) : Len(u.links[i]) = g.nodes[i].level + 1
    BY DEF BatchOk
  <2>2. /\ Shaped(u) /\ SameNodes(g, u) /\ ~u.sealed /\ u.undefined = g.undefined
    BY <2>1, UnsealShaped
  <2>3. Navigable(u)
    BY <2>1, UnsealLinks, SameNavigable
  <2> HIDE DEF u
  <2>4. u.nodes = g.nodes /\ Ordinals(u) = Ordinals(g)
    BY <2>2 DEF SameNodes, Ordinals
  <2> QED BY <2>1, <2>2, <2>3, <2>4
<1> HIDE DEF u
<1>3. /\ Shaped(h) /\ ~h.sealed /\ ~h.undefined
      /\ h.top = u.top /\ h.entry = u.entry
      /\ len \in Nat /\ Len(h.nodes) = base + len
      /\ \A i \in Ordinals(u) : h.nodes[i] = u.nodes[i] /\ h.links[i] = u.links[i]
      /\ \A k \in 1..len :
             /\ h.nodes[base + k] = NewNode(items[k].id, items[k].vec, levels[k])
             /\ h.links[base + k] = NoLinks(levels[k])
  <2> HIDE DEF items, levels
  <2>1. /\ Shaped(h) /\ ~h.sealed /\ h.undefined = u.undefined
        /\ h.top = u.top /\ h.entry = u.entry
        /\ Len(items) \in Nat /\ Len(h.nodes) = Len(u.nodes) + Len(items)
        /\ \A i \in Ordinals(u) : h.nodes[i] = u.nodes[i] /\ h.links[i] = u.links[i]
        /\ \A k \in 1..Len(items) :
               /\ h.nodes[Len(u.nodes) + k] = NewNode(items[k].id, items[k].vec, levels[k])
               /\ h.links[Len(u.nodes) + k] = NoLinks(levels[k])
    <3>1. Shaped(u) /\ ~u.sealed /\ Batch(items, levels)
      BY <1>2
    <3> QED BY <3>1, Staged
  <2> HIDE DEF h
  <2> QED BY <1>2, <2>1
<1>4. base \in Nat /\ len # 0 /\ 1 \in 1..len
  <2>1. base \in Nat
    BY <1>2 DEF Shaped
  <2>2. len # 0
    BY <1>2 DEF Batch, List
  <2> QED BY <1>3, <2>1, <2>2
<1>5. \A k \in 1..len : levels[k] \in Nat /\ levels[k] \in 0..MaxLevel
  BY <1>2, ConstantsAssumption DEF Batch
<1> HIDE DEF h
<1>6. /\ IsGraph(f) /\ f.nodes = h.nodes /\ f.links = h.links /\ f.sealed = h.sealed
      /\ f.deleted = h.deleted /\ f.indexed = FALSE /\ f.csr = h.csr
      /\ f.undefined = h.undefined /\ f.floats = h.floats
      /\ e.top = h.top
      /\ f.top = IF h.top >= 0 THEN h.top ELSE levels[1]
      /\ f.entry = IF h.top >= 0 THEN h.entry ELSE base + 1
  BY <1>3 DEF Shaped, IsGraph, EmptyGraph
<1>7. n = IF u.top >= 0 THEN base ELSE base + 1
  BY <1>3, <1>6
<1> HIDE DEF f, e, n
<1>8. Shaped(f)
  <2>1. f.top \in -1..MaxLevel
    <3>1. h.top \in -1..MaxLevel
      BY <1>3 DEF Shaped
    <3> QED BY <1>4, <1>5, <1>6, <3>1, ConstantsAssumption
  <2>2. Shaped(h) /\ ~h.sealed
    BY <1>3
  <2> QED BY <1>6, <2>1, <2>2 DEF Shaped, Ordinals
<1> HIDE DEF len
\* A node is an old one or a new one.
<1>9. /\ Ordinals(f) = 1..(base + len) /\ Ordinals(u) = 1..base
      /\ \A i \in Ordinals(f) : i \in Ordinals(u) \/ \E k \in 1..len : i = base + k
      /\ \A k \in 1..len : base + k \notin Ordinals(u)
  <2>1. Ordinals(f) = 1..(base + len) /\ Ordinals(u) = 1..base
    BY <1>3, <1>6 DEF Ordinals
  <2> HIDE DEF base
  <2>2. ASSUME NEW i \in 1..(base + len), i \notin 1..base PROVE \E k \in 1..len : i = base + k
    <3>1. i - base \in 1..len /\ i = base + (i - base)
      BY <1>3, <1>4, <2>2
    <3> QED BY <3>1
  <2>3. \A k \in 1..len : base + k \notin 1..base
    BY <1>3, <1>4
  <2> QED BY <2>1, <2>2, <2>3
<1>10. ASSUME NEW i \in Ordinals(u)
       PROVE  f.nodes[i] = u.nodes[i] /\ f.links[i] = u.links[i]
  BY <1>3, <1>6
<1>11. ASSUME NEW k \in 1..len
       PROVE  /\ f.nodes[base + k].level = levels[k] /\ Vec(f, base + k) = items[k].vec
              /\ f.links[base + k] = NoLinks(levels[k])
              /\ Len(f.links[base + k]) = levels[k] + 1
              /\ \A L \in Nat : Neighbours(f, base + k, L) = {}
  <2>1. /\ f.nodes[base + k] = NewNode(items[k].id, items[k].vec, levels[k])
        /\ f.links[base + k] = NoLinks(levels[k])
    BY <1>3, <1>6
  <2>2. /\ Len(f.links[base + k]) = levels[k] + 1
        /\ \A K \in 1..(levels[k] + 1) : f.links[base + k][K] = {}
    BY <1>5, <2>1, NoLinksLen
  <2>3. ASSUME NEW L \in Nat PROVE Neighbours(f, base + k, L) = {}
    <3>1. CASE L < Len(f.links[base + k])
      <4>1. L + 1 \in 1..(levels[k] + 1)
        BY <1>5, <2>2, <3>1
      <4> QED BY <1>3, <1>6, <2>2, <3>1, <4>1 DEF Neighbours
    <3>2. CASE ~(L < Len(f.links[base + k]))
      BY <1>3, <1>6, <3>2 DEF Neighbours
    <3> QED BY <3>1, <3>2
  <2>4. f.nodes[base + k].level = levels[k] /\ Vec(f, base + k) = items[k].vec
    BY <2>1 DEF NewNode, Vec
  <2> QED BY <2>1, <2>2, <2>3, <2>4
<1>12. \A i \in Ordinals(f) : Len(f.links[i]) = f.nodes[i].level + 1
  <2> SUFFICES ASSUME NEW i \in Ordinals(f) PROVE Len(f.links[i]) = f.nodes[i].level + 1
    OBVIOUS
  <2>1. CASE i \in Ordinals(u)
    BY <1>2, <1>10, <2>1
  <2>2. ASSUME NEW k \in 1..len, i = base + k PROVE Len(f.links[i]) = f.nodes[i].level + 1
    BY <1>11, <2>2
  <2> QED BY <1>9, <2>1, <2>2
<1>13. VecsOnce(f)
  <2>1. /\ VecsOnce(u) /\ Apart(items)
        /\ \A i \in Ordinals(u), k \in 1..len : Vec(u, i) # items[k].vec
    <3>1. \A i \in Ordinals(g), k \in 1..len : Vec(g, i) # items[k].vec
      BY DEF BatchOk, len
    <3>2. Ordinals(g) = Ordinals(u) /\ \A i : Vec(g, i) = Vec(u, i)
      BY <1>2 DEF Ordinals, Vec
    <3>3. VecsOnce(u) /\ Apart(items)
      BY <1>2 DEF BatchOk, Navigable
    <3> QED BY <3>1, <3>2, <3>3
  <2>2. \A i \in Ordinals(u) : Vec(f, i) = Vec(u, i)
    BY <1>10 DEF Vec
  <2> SUFFICES ASSUME NEW i \in Ordinals(f), NEW j \in Ordinals(f), Vec(f, i) = Vec(f, j)
               PROVE  i = j
    BY DEF VecsOnce
  <2>3. CASE i \in Ordinals(u) /\ j \in Ordinals(u)
    BY <2>1, <2>2, <2>3 DEF VecsOnce
  <2>4. ASSUME NEW k \in 1..len, i = base + k, j \in Ordinals(u) PROVE FALSE
    BY <1>11, <2>1, <2>2, <2>4
  <2>5. ASSUME NEW k \in 1..len, j = base + k, i \in Ordinals(u) PROVE FALSE
    BY <1>11, <2>1, <2>2, <2>5
  <2>6. ASSUME NEW k \in 1..len, NEW l \in 1..len, i = base + k, j = base + l PROVE i = j
    <3>1. items[k].vec = items[l].vec
      BY <1>11, <2>6
    <3>2. k = l
      BY <2>1, <3>1 DEF Apart, len
    <3> QED BY <2>6, <3>2
  <2> QED BY <1>9, <2>3, <2>4, <2>5, <2>6
<1>14. \A i \in Ordinals(u), L \in Nat : Neighbours(f, i, L) = Neighbours(u, i, L)
  BY <1>2, <1>3, <1>6, <1>10 DEF Neighbours
<1>15. \A L \in Nat : Cardinality({}) <= MaxM(L)
  <2>1. \A L \in Nat : MaxM(L) \in Nat
    BY BeamAssumption DEF MaxM
  <2> QED BY <2>1, FS_EmptySet
<1>16. LinkedTo(u, base) /\ Entered(u, base)
  BY <1>2 DEF Navigable
<1>17. Len(f.nodes) = base + len
  BY <1>3, <1>6
<1>18. \A i \in Ordinals(f) : i > base => f.links[i] = NoLinks(f.nodes[i].level)
  <2> SUFFICES ASSUME NEW i \in Ordinals(f), i > base PROVE f.links[i] = NoLinks(f.nodes[i].level)
    OBVIOUS
  <2>1. i \notin Ordinals(u)
    BY <1>4, <1>9
  <2>2. PICK k \in 1..len : i = base + k
    BY <1>9, <2>1
  <2> QED BY <1>11, <2>2
<1>19. CASE u.top >= 0
  <2>1. n = base /\ f.top = u.top /\ f.entry = u.entry
    BY <1>3, <1>6, <1>7, <1>19
  <2>2. base # 0 /\ n \in 1..Len(f.nodes) /\ Len(f.nodes) <= n + len
    <3>1. base # 0
      BY <1>16, <1>19 DEF Entered
    <3> QED BY <1>3, <1>4, <1>17, <2>1, <3>1
  <2>3. \A L : At(f, base, L) = At(u, base, L)
    BY <1>9, <1>10 DEF At
  <2>4. LinkedTo(f, n)
    <3> SUFFICES ASSUME NEW i \in Ordinals(f), NEW L \in Nat
                 PROVE  /\ Neighbours(f, i, L) \subseteq At(f, base, L) \ {i}
                        /\ Cardinality(Neighbours(f, i, L)) <= MaxM(L)
      BY <2>1 DEF LinkedTo
    <3>1. CASE i \in Ordinals(u)
      BY <1>14, <1>16, <2>3, <3>1 DEF LinkedTo
    <3>2. ASSUME NEW k \in 1..len, i = base + k
          PROVE  /\ Neighbours(f, i, L) \subseteq At(f, base, L) \ {i}
                 /\ Cardinality(Neighbours(f, i, L)) <= MaxM(L)
      <4>1. Neighbours(f, i, L) = {}
        BY <1>11, <3>2
      <4> QED BY <1>15, <4>1
    <3> QED BY <1>9, <3>1, <3>2
  <2>5. Entered(f, n)
    BY <1>16, <2>1, <2>2, <2>3 DEF Entered
  <2>6. Unlinked(f, n)
    BY <1>18, <2>1 DEF Unlinked
  <2>7. Linkable(f, n)
    BY <1>3, <1>6, <1>8, <1>12, <1>13, <2>2, <2>4, <2>5, <2>6 DEF Linkable
  <2> QED BY <1>1, <1>3, <2>2, <2>7 DEF s, len
<1>20. CASE ~(u.top >= 0)
  <2>1. n = base + 1 /\ f.top = levels[1] /\ f.entry = base + 1
    BY <1>3, <1>6, <1>7, <1>20
  <2>2. base = 0 /\ n = 1 /\ n \in 1..Len(f.nodes) /\ Len(f.nodes) <= n + len
    <3>1. base = 0
      <4>1. base # 0 => u.top \in Nat
        BY <1>16 DEF Entered
      <4> QED BY <1>20, <4>1
    <3> QED BY <1>3, <1>4, <1>17, <2>1, <3>1
  <2>3. \A i \in Ordinals(f), L \in Nat : Neighbours(f, i, L) = {}
    <3> SUFFICES ASSUME NEW i \in Ordinals(f), NEW L \in Nat PROVE Neighbours(f, i, L) = {}
      OBVIOUS
    <3>1. i \notin Ordinals(u)
      BY <1>9, <2>2
    <3>2. PICK k \in 1..len : i = base + k
      BY <1>9, <3>1
    <3> QED BY <1>11, <3>2
  <2>4. LinkedTo(f, n)
    <3>1. \A i \in Ordinals(f), L \in Nat : {} \subseteq At(f, n, L) \ {i}
      OBVIOUS
    <3> QED BY <1>15, <2>3, <3>1, Zenon DEF LinkedTo
  <2>5. Entered(f, n)
    <3>1. f.nodes[base + 1].level = levels[1] /\ levels[1] \in Nat /\ base + 1 = 1
      BY <1>4, <1>5, <1>11, <2>2
    <3>2. 1 \in At(f, 1, levels[1])
      <4>1. f.nodes[1].level >= levels[1]
        BY <3>1
      <4> QED BY <4>1 DEF At
    <3> QED BY <2>1, <2>2, <3>1, <3>2 DEF Entered
  <2>6. Unlinked(f, n)
    <3>1. \A i \in Ordinals(f) : i > n => i > base
      BY <1>9, <2>2
    <3> QED BY <1>18, <3>1 DEF Unlinked
  <2>7. Linkable(f, n)
    BY <1>3, <1>6, <1>8, <1>12, <1>13, <2>2, <2>4, <2>5, <2>6 DEF Linkable
  <2> QED BY <1>1, <1>3, <2>2, <2>7 DEF s, len
<1> QED BY <1>19, <1>20
-----------------------------------------------------------------------------
(* The graphs that waves linked in one step each go through.               *)

States(b) == WaveStates(StartOf(b), Len(StartOf(b).graph.nodes), Len(b.items))

\* One of them: g, of which n nodes are linked.  A wave links at least one
\* node, so there are steps left for those that are not.
SerialAt(b, g, n) ==
    /\ Linkable(g, n) /\ Len(g.nodes) = Len(StartOf(b).graph.nodes)
    /\ \E k \in 0..Len(b.items) : /\ States(b)[k] = [graph |-> g, linked |-> n]
                                  /\ Len(g.nodes) + k <= n + Len(b.items)

LEMMA SerialStart ==
    ASSUME NEW b, BatchOk(b)
    PROVE  SerialAt(b, StartOf(b).graph, StartOf(b).linked)
<1> DEFINE s == StartOf(b)
           len == Len(b.items)
           total == Len(s.graph.nodes)
<1>1. /\ s = [graph |-> s.graph, linked |-> s.linked] /\ Linkable(s.graph, s.linked)
      /\ len \in Nat /\ total <= s.linked + len
  BY StartIs
<1>2. total \in Nat
  BY <1>1 DEF Linkable, Shaped
<1> HIDE DEF s
<1>3. WaveStates(s, total, len)[0] = s
  BY <1>1, WavesGo
<1>4. States(b)[0] = [graph |-> s.graph, linked |-> s.linked]
  BY <1>1, <1>3 DEF States, s
<1>5. 0 \in 0..len /\ total + 0 <= s.linked + len
  BY <1>1, <1>2
<1> QED BY <1>1, <1>4, <1>5 DEF SerialAt, s

LEMMA SerialStep ==
    ASSUME NEW b, BatchOk(b), NEW g, NEW n, SerialAt(b, g, n),
           WaveSize(n, Len(g.nodes)) # 0
    PROVE  LET h == LinkWave(g, WaveFrom(g, n))
           IN  SerialAt(b, h, n + WaveSize(n, Len(g.nodes))) /\ Len(h.nodes) = Len(g.nodes)
<1> DEFINE s == StartOf(b)
           len == Len(b.items)
           total == Len(g.nodes)
           size == WaveSize(n, total)
           h == LinkWave(g, WaveFrom(g, n))
           w == WaveStates(s, total, len)
<1>1. /\ Linkable(g, n) /\ total = Len(s.graph.nodes) /\ len \in Nat
      /\ n \in Nat /\ total \in Nat /\ ~g.undefined
  BY StartIs DEF SerialAt, Linkable, Shaped
<1>2. PICK k \in 0..len : w[k] = [graph |-> g, linked |-> n] /\ total + k <= n + len
  BY <1>1 DEF SerialAt, States
<1>3. /\ size \in Nat /\ n + size <= total /\ Linkable(h, n + size) /\ h.nodes = g.nodes
  BY <1>1, WaveIs
<1> HIDE DEF h, w
<1>4. k + 1 \in 1..len /\ k + 1 \in 0..len /\ (k + 1) - 1 = k /\ total + (k + 1) <= (n + size) + len
  <2>0. size # 0
    OBVIOUS
  <2>1. /\ size \in Nat /\ total \in Nat /\ len \in Nat /\ n \in Nat
        /\ n + size <= total /\ total + k <= n + len
    BY <1>1, <1>2, <1>3
  <2> HIDE DEF size, total, len
  <2>2. k \in Nat /\ k <= len
    BY <2>1
  <2>3. k + 1 <= len
    BY <2>0, <2>1, <2>2
  <2>4. total + (k + 1) <= (n + size) + len
    BY <2>0, <2>1, <2>2
  <2>5. k + 1 \in 1..len /\ k + 1 \in 0..len /\ (k + 1) - 1 = k
    BY <2>1, <2>2, <2>3
  <2> QED BY <2>4, <2>5
<1>5. w[k + 1] = WaveStep(w[k], total)
  <2>1. \A j \in 1..len : w[j] = WaveStep(w[j - 1], total)
    BY <1>1, WavesGo DEF w
  <2> QED BY <1>4, <2>1
<1>6. w[k + 1] = [graph |-> h, linked |-> n + size]
  BY <1>1, <1>2, <1>5 DEF WaveStep, WaveFrom, h
<1>7. States(b)[k + 1] = [graph |-> h, linked |-> n + size]
  BY <1>1, <1>6 DEF States, w
<1>8. Len(h.nodes) = total
  BY <1>3
<1> HIDE DEF size
<1> QED BY <1>1, <1>3, <1>4, <1>7, <1>8 DEF SerialAt, size, h

\* When nothing is left to link, they stay where they are to the last.
LEMMA SerialEnd ==
    ASSUME NEW b, BatchOk(b), NEW g, NEW n, SerialAt(b, g, n),
           WaveSize(n, Len(g.nodes)) = 0
    PROVE  Seal(g, FALSE) = BuildBatch(b.graph, b.items, b.levels, FALSE)
<1> DEFINE s == StartOf(b)
           len == Len(b.items)
           total == Len(g.nodes)
           here == [graph |-> g, linked |-> n]
           w == WaveStates(s, total, len)
<1>1. total = Len(s.graph.nodes) /\ len \in Nat
  BY StartIs DEF SerialAt
<1>2. PICK k \in 0..len : w[k] = here
  BY <1>1 DEF SerialAt, States
<1>3. \A j \in 1..len : w[j] = WaveStep(w[j - 1], total)
  BY <1>1, WavesGo
<1>4. WaveStep(here, total) = here
  BY DEF WaveStep
<1> HIDE DEF w, here
<1> DEFINE N == {j \in Nat : k + j <= len => w[k + j] = here}
<1>5. \A j \in Nat : j \in N
  <2>1. 0 \in N
    BY <1>2
  <2>2. ASSUME NEW j \in Nat, j \in N PROVE j + 1 \in N
    <3> SUFFICES ASSUME k + (j + 1) <= len PROVE w[k + (j + 1)] = here
      OBVIOUS
    <3>1. k + j <= len /\ k + (j + 1) \in 1..len /\ (k + (j + 1)) - 1 = k + j
      BY <1>1
    <3>2. w[k + j] = here
      BY <2>2, <3>1
    <3> QED BY <1>3, <1>4, <3>1, <3>2
  <2> HIDE DEF N
  <2> QED BY <2>1, <2>2, Induction
<1>6. w[len] = here
  <2>1. len - k \in Nat /\ k + (len - k) = len
    BY <1>1
  <2>2. len - k \in N
    BY <1>5, <2>1
  <2> QED BY <1>1, <2>1, <2>2
<1>7. b.items # <<>>
  BY DEF BatchOk
<1>8. BuildBatch(b.graph, b.items, b.levels, FALSE) = Seal(w[len].graph, FALSE)
  <2>1. BuildBatch(b.graph, b.items, b.levels, FALSE)
          = Seal(WaveStates(s, Len(s.graph.nodes), len)[len].graph, FALSE)
    BY <1>7, BuildIs, Zenon DEF StartOf
  <2> HIDE DEF s, total, len
  <2> QED BY <1>1, <2>1 DEF w
<1>9. here.graph = g
  BY DEF here
<1> QED BY <1>6, <1>8, <1>9
-----------------------------------------------------------------------------
(* The shares search.                                                      *)

SizeAt(g, n) == WaveSize(n, Len(g.nodes))

\* Share k has come to item k + q * c, and searched for those before it.
Searching(g, n, next, picked) ==
    LET size == SizeAt(g, n)
        c == ShareOf(size)
        picks == WavePicks(g, WaveFrom(g, n))
    IN  /\ size # 0 /\ DOMAIN next = 0..(c - 1)
        /\ \A k \in 0..(c - 1) : \E q \in Nat :
               /\ next[k] = k + q * c
               /\ \A p \in Nat : p < q /\ k + p * c < size => n + 1 + (k + p * c) \in DOMAIN picked
        /\ DOMAIN picked \subseteq WaveFrom(g, n)
        /\ picked = [i \in DOMAIN picked |-> picks[i]]

LEMMA ShareIs ==
    ASSUME NEW size \in Nat, size # 0
    PROVE  ShareOf(size) \in Nat \ {0}
BY WavesAssumption DEF ShareOf

LEMMA SearchStarts ==
    ASSUME NEW g, NEW n, SizeAt(g, n) \in Nat, SizeAt(g, n) # 0
    PROVE  Searching(g, n, [k \in 0..(ShareOf(SizeAt(g, n)) - 1) |-> k], <<>>)
<1> DEFINE c == ShareOf(SizeAt(g, n))
           next == [k \in 0..(c - 1) |-> k]
<1>1. c \in Nat \ {0}
  BY ShareIs
<1> HIDE DEF c
<1>2. ASSUME NEW k \in 0..(c - 1)
      PROVE  \E q \in Nat : /\ next[k] = k + q * c
                            /\ \A p \in Nat : ~(p < q)
  <2>1. k + 0 * c = k /\ \A p \in Nat : ~(p < 0)
    BY <1>1
  <2>2. next[k] = k + 0 * c
    BY <2>1
  <2> QED BY <2>1, <2>2
<1>3. DOMAIN next = 0..(c - 1)
  OBVIOUS
<1>4. DOMAIN <<>> = {} /\ <<>> = [i \in {} |-> WavePicks(g, WaveFrom(g, n))[i]]
  OBVIOUS
<1> HIDE DEF next
<1>5. Searching(g, n, next, <<>>)
  BY <1>2, <1>3, <1>4 DEF Searching, c
<1> QED BY <1>5 DEF next, c

\* What a search, a read and a write change.
Searched(g, i, picked) ==
    [j \in DOMAIN picked \union {i} |->
        IF j = i THEN Picks(g, i, Len(g.links[i]) - 1) ELSE picked[j]]
Ahead(next, k, c) == [next EXCEPT ![k] = @ + c]
ReadIn(h, some, read, m) ==
    [l \in DOMAIN read \union {m} |->
        IF l = m THEN h.links[some[m].list[1]][some[m].list[2] + 1] ELSE read[l]]
WrittenIn(h, some, read, m) ==
    LET nb == some[m].list[1]
        L == some[m].list[2]
        seen == [h EXCEPT !.links[nb][L + 1] = read[m]]
    IN  [h EXCEPT !.links[nb][L + 1] = TakeLinks(seen, nb, L, some[m].new)]
Without(f, m) == [l \in DOMAIN f \ {m} |-> f[l]]

LEMMA SearchGoes ==
    ASSUME NEW g, NEW n \in Nat, SizeAt(g, n) \in Nat, NEW next, NEW picked,
           Searching(g, n, next, picked),
           NEW k \in DOMAIN next, next[k] < SizeAt(g, n)
    PROVE  Searching(g, n, Ahead(next, k, ShareOf(SizeAt(g, n))),
                     Searched(g, n + 1 + next[k], picked))
<1> DEFINE size == SizeAt(g, n)
           c == ShareOf(size)
           wave == WaveFrom(g, n)
           all == WavePicks(g, wave)
           i == n + 1 + next[k]
           picks == [j \in DOMAIN picked \union {i} |->
                        IF j = i THEN Picks(g, i, Len(g.links[i]) - 1) ELSE picked[j]]
           then == [next EXCEPT ![k] = @ + c]
<1>1. /\ size # 0 /\ size \in Nat /\ DOMAIN next = 0..(c - 1)
      /\ \A j \in 0..(c - 1) : \E q \in Nat :
             /\ next[j] = j + q * c
             /\ \A p \in Nat : p < q /\ j + p * c < size => n + 1 + (j + p * c) \in DOMAIN picked
      /\ DOMAIN picked \subseteq wave
      /\ picked = [j \in DOMAIN picked |-> all[j]]
  BY DEF Searching
<1>2. c \in Nat \ {0}
  BY <1>1, ShareIs
<1>3. wave = (n + 1)..(n + size)
  BY DEF WaveFrom, SizeAt
<1> HIDE DEF size, c, wave
<1>4. PICK q \in Nat : /\ next[k] = k + q * c
                       /\ \A p \in Nat : p < q /\ k + p * c < size => n + 1 + (k + p * c) \in DOMAIN picked
  BY <1>1
<1>5. k \in Nat /\ q * c \in Nat /\ next[k] \in Nat /\ next[k] < size
  <2>1. k \in Nat /\ q * c \in Nat
    BY <1>1, <1>2
  <2> QED BY <1>4, <2>1 DEF size
<1>6. i \in wave
  BY <1>1, <1>3, <1>5
<1>7. /\ DOMAIN picks = DOMAIN picked \union {i}
      /\ picks = [j \in DOMAIN picks |-> all[j]]
  <2>1. all[i] = Picks(g, i, Len(g.links[i]) - 1)
    BY <1>6 DEF WavePicks
  <2> HIDE DEF all, i
  <2> QED BY <1>1, <2>1
<1>8. DOMAIN then = 0..(c - 1) /\ then[k] = next[k] + c
      /\ \A j \in 0..(c - 1) : j # k => then[j] = next[j]
  BY <1>1
<1>9. ASSUME NEW j \in 0..(c - 1)
      PROVE  \E r \in Nat :
                 /\ then[j] = j + r * c
                 /\ \A p \in Nat : p < r /\ j + p * c < size => n + 1 + (j + p * c) \in DOMAIN picks
  <2>1. CASE j # k
    <3>1. PICK r \in Nat : /\ next[j] = j + r * c
                           /\ \A p \in Nat : p < r /\ j + p * c < size
                                  => n + 1 + (j + p * c) \in DOMAIN picked
      BY <1>1
    <3> HIDE DEF then, picks
    <3> QED BY <1>7, <1>8, <2>1, <3>1
  <2>2. CASE j = k
    <3>1. (q + 1) * c = q * c + c /\ q + 1 \in Nat
      BY <1>2
    <3>2. then[k] = k + (q + 1) * c
      <4> HIDE DEF then
      <4> QED BY <1>2, <1>4, <1>5, <1>8, <3>1
    <3>3. ASSUME NEW p \in Nat, p < q + 1, k + p * c < size
          PROVE  n + 1 + (k + p * c) \in DOMAIN picks
      <4>1. p < q \/ p = q
        BY <3>3
      <4>2. CASE p < q
        BY <1>4, <1>7, <3>3, <4>2
      <4>3. CASE p = q
        <5>1. n + 1 + (k + p * c) = i
          BY <1>4, <4>3
        <5> QED BY <1>7, <5>1
      <4> QED BY <4>1, <4>2, <4>3
    <3> HIDE DEF then, picks
    <3> QED BY <2>2, <3>1, <3>2, <3>3
  <2> QED BY <2>1, <2>2
<1>10. DOMAIN picks \subseteq wave
  BY <1>1, <1>6, <1>7
<1> HIDE DEF then, picks, i, all
<1>11. Searching(g, n, then, picks)
  BY <1>1, <1>7, <1>8, <1>9, <1>10 DEF Searching, size, c, wave, all
<1> QED BY <1>11 DEF Ahead, Searched, then, picks, i, size, c

\* When every share is past the end, every node of the wave has its links.
LEMMA SearchEnds ==
    ASSUME NEW g, NEW n \in Nat, SizeAt(g, n) \in Nat, NEW next, NEW picked,
           Searching(g, n, next, picked), \A k \in DOMAIN next : next[k] >= SizeAt(g, n)
    PROVE  picked = WavePicks(g, WaveFrom(g, n))
<1> DEFINE size == SizeAt(g, n)
           c == ShareOf(size)
           wave == WaveFrom(g, n)
           all == WavePicks(g, wave)
<1>1. /\ size # 0 /\ size \in Nat /\ DOMAIN next = 0..(c - 1)
      /\ \A j \in 0..(c - 1) : \E q \in Nat :
             /\ next[j] = j + q * c
             /\ \A p \in Nat : p < q /\ j + p * c < size => n + 1 + (j + p * c) \in DOMAIN picked
      /\ DOMAIN picked \subseteq wave
      /\ picked = [j \in DOMAIN picked |-> all[j]]
      /\ \A k \in DOMAIN next : next[k] >= size
  BY DEF Searching
<1>2. c \in Nat \ {0}
  BY <1>1, ShareIs
<1>3. wave = (n + 1)..(n + size)
  BY DEF WaveFrom, SizeAt
<1> HIDE DEF size, c, wave
<1>4. ASSUME NEW i \in wave PROVE i \in DOMAIN picked
  <2> DEFINE w == i - (n + 1)
  <2>1. w \in Nat /\ w < size /\ n + 1 + w = i
    BY <1>1, <1>3
  <2> HIDE DEF w
  <2>2. /\ w \div c \in Nat /\ w % c \in 0..(c - 1)
        /\ w = (w % c) + (w \div c) * c
    BY <1>2, <2>1
  <2> DEFINE p == w \div c
             k == w % c
  <2>3. p \in Nat /\ k \in 0..(c - 1) /\ w = k + p * c
    BY <2>2
  <2> HIDE DEF p, k
  <2>4. PICK q \in Nat : /\ next[k] = k + q * c
                         /\ \A r \in Nat : r < q /\ k + r * c < size => n + 1 + (k + r * c) \in DOMAIN picked
    BY <1>1, <2>3
  <2>5. p < q
    <3> SUFFICES ASSUME ~(p < q) PROVE FALSE
      OBVIOUS
    <3>1. p = q \/ q < p
      BY <2>3
    <3>2. p * c \in Nat /\ q * c \in Nat /\ k \in Nat
      BY <1>2, <2>3
    <3>3. q * c <= p * c
      <4>1. CASE p = q
        BY <3>2, <4>1
      <4>2. CASE q < p
        <5>1. q * c + c <= p * c
          BY <1>2, <2>3, <4>2, TimesApart
        <5> QED BY <1>2, <3>2, <5>1
      <4> QED BY <3>1, <4>1, <4>2
    <3>4. next[k] >= size
      BY <1>1, <2>3
    <3> DEFINE x == q * c
               y == p * c
    <3>5. /\ x \in Nat /\ y \in Nat /\ k \in Nat /\ size \in Nat /\ x <= y
          /\ k + x >= size /\ k + y < size
      BY <1>1, <2>1, <2>3, <2>4, <3>2, <3>3, <3>4
    <3> HIDE DEF x, y
    <3> QED BY <3>5
  <2> QED BY <2>1, <2>3, <2>4, <2>5
<1>5. DOMAIN picked = wave
  BY <1>1, <1>4
<1> QED BY <1>1, <1>5 DEF WavePicks, wave
-----------------------------------------------------------------------------
(* The workers take the groups.                                            *)

BacksOf(picks) ==
    UNION {UNION {{[list |-> <<nb, L>>, node |-> i] : nb \in picks[i][L]} :
                      L \in DOMAIN picks[i]} : i \in DOMAIN picks}
GroupsOf(picks) == Groups(SortedLinks(BacksOf(picks)))
ListsOf(groupsOf, some) == {groupsOf[m].list : m \in some}

\* The links of a wave when the lists of some groups are not written yet.
Partly(g, wave, picks, lists) ==
    [i \in Ordinals(g) |-> [L \in 1..Len(g.links[i]) |->
        IF <<i, L - 1>> \in lists THEN g.links[i][L] ELSE Taken(g, wave, picks, i, L - 1)]]
HalfLinked(g, n, lists) ==
    LET wave == WaveFrom(g, n)
    IN  [Raise(g, wave) EXCEPT !.links = Partly(g, wave, WavePicks(g, wave), lists)]

\* Every list that is read and not written is as the wave found it.
Taking(g, n, h, some, read) ==
    LET all == GroupsOf(WavePicks(g, WaveFrom(g, n)))
    IN  /\ SizeAt(g, n) # 0
        /\ DOMAIN some \subseteq DOMAIN all /\ \A m \in DOMAIN some : some[m] = all[m]
        /\ DOMAIN read \subseteq DOMAIN some
        /\ \A m \in DOMAIN read : read[m] = g.links[all[m].list[1]][all[m].list[2] + 1]
        /\ h = HalfLinked(g, n, ListsOf(all, DOMAIN some))

\* The links back of a wave, and the groups of them: each has the nodes that
\* chose the node whose list it is.
LEMMA WaveGroups ==
    ASSUME NEW g, NEW n, Linkable(g, n), SizeAt(g, n) # 0
    PROVE  LET wave == WaveFrom(g, n)
               picks == WavePicks(g, wave)
               G == GroupsOf(picks)
           IN  /\ \A m \in DOMAIN G :
                      LET nb == G[m].list[1]
                          L == G[m].list[2]
                      IN  /\ G[m].list = <<nb, L>> /\ L \in Nat
                          /\ nb \in Ordinals(g) /\ nb \notin wave /\ L + 1 \in 1..Len(g.links[nb])
                          /\ G[m].new = Backs(wave, picks, nb, L) /\ G[m].new # {}
               /\ \A l, m \in DOMAIN G : l # m => G[l].list # G[m].list
               /\ \A nb \in Ordinals(g), L \in Nat :
                      Backs(wave, picks, nb, L) # {} => <<nb, L>> \in ListsOf(G, DOMAIN G)
<1> DEFINE wave == WaveFrom(g, n)
           picks == WavePicks(g, wave)
           B == BacksOf(picks)
           G == GroupsOf(picks)
           size == SizeAt(g, n)
<1>1. /\ size \in Nat /\ n + size <= Len(g.nodes)
      /\ wave \subseteq Ordinals(g) /\ \A i \in wave : i > n
      /\ \A i \in wave : \A L \in DOMAIN picks[i] :
             /\ L \in Nat /\ L < Len(g.links[i])
             /\ picks[i][L] \subseteq 1..n
             /\ \A nb \in picks[i][L] : L < Len(g.links[nb])
  BY WaveIs DEF SizeAt
<1>2. n \in Nat /\ n \in 1..Len(g.nodes) /\ Len(g.nodes) \in Nat /\ wave = (n + 1)..(n + size)
  BY DEF Linkable, Shaped, WaveFrom, SizeAt
<1>3. \A i \in wave : /\ DOMAIN picks[i] = 0..(IF Len(g.links[i]) - 1 < g.top THEN Len(g.links[i]) - 1 ELSE g.top)
                      /\ i \in Nat
  <2>1. \A i \in wave : picks[i] = Picks(g, i, Len(g.links[i]) - 1)
    BY DEF WavePicks
  <2>2. \A i \in wave : i \in Nat
    BY <1>1, <1>2
  <2> HIDE DEF wave, picks
  <2> QED BY <2>1, <2>2 DEF Picks
<1>4. DOMAIN picks = wave
  BY DEF WavePicks
<1>5. \A i \in Ordinals(g) : Len(g.links[i]) = g.nodes[i].level + 1 /\ g.nodes[i].level \in Nat
  BY LevelNat DEF Linkable
<1>6. 1..n \subseteq Ordinals(g)
  BY <1>2 DEF Ordinals
<1> HIDE DEF wave, picks, size
<1>7. ASSUME NEW x \in B
      PROVE  \E i \in wave : \E L \in DOMAIN picks[i] : \E nb \in picks[i][L] :
                 x = [list |-> <<nb, L>>, node |-> i]
  BY <1>4, <1>7 DEF BacksOf
<1>8. ASSUME NEW i \in wave, NEW L \in DOMAIN picks[i], NEW nb \in picks[i][L]
      PROVE  [list |-> <<nb, L>>, node |-> i] \in B
  BY <1>4, <1>8 DEF BacksOf
<1>9. ASSUME NEW i \in wave, NEW L \in DOMAIN picks[i], NEW nb \in picks[i][L]
      PROVE  /\ nb \in 1..n /\ nb \in Nat /\ nb \in Ordinals(g) /\ nb \notin wave
             /\ L \in Nat /\ L + 1 \in 1..Len(g.links[nb]) /\ i \in Nat
  <2>1. nb \in 1..n /\ L \in Nat /\ L < Len(g.links[nb]) /\ i \in Nat
    BY <1>1, <1>3
  <2>2. nb \in Nat /\ nb \notin wave
    BY <1>2, <2>1
  <2>3. nb \in Ordinals(g)
    BY <1>6, <2>1
  <2>4. Len(g.links[nb]) \in Nat
    BY <1>5, <2>3
  <2>5. L + 1 \in 1..Len(g.links[nb])
    BY <2>1, <2>4
  <2> QED BY <2>1, <2>2, <2>3, <2>5
<1> HIDE DEF B
<1>10. B \in SUBSET Back
  <2>1. ASSUME NEW x \in B PROVE x \in Back
    <3>1. PICK i \in wave : \E L \in DOMAIN picks[i] : \E nb \in picks[i][L] :
                x = [list |-> <<nb, L>>, node |-> i]
      BY <1>7
    <3>2. PICK L \in DOMAIN picks[i] : \E nb \in picks[i][L] :
                x = [list |-> <<nb, L>>, node |-> i]
      BY <3>1
    <3>3. PICK nb \in picks[i][L] : x = [list |-> <<nb, L>>, node |-> i]
      BY <3>2
    <3>4. nb \in Nat /\ L \in Nat /\ i \in Nat
      BY <1>9
    <3> QED BY <3>3, <3>4 DEF Back
  <2> QED BY <2>1
<1>11. IsFiniteSet(B)
  <2>1. ASSUME NEW i \in wave, NEW L \in DOMAIN picks[i]
        PROVE  IsFiniteSet({[list |-> <<nb, L>>, node |-> i] : nb \in picks[i][L]})
    <3>1. IsFiniteSet(1..n)
      BY <1>2, FS_Interval
    <3>2. IsFiniteSet(picks[i][L])
      BY <1>1, <3>1, FS_Subset
    <3> DEFINE f == [nb \in picks[i][L] |-> [list |-> <<nb, L>>, node |-> i]]
    <3>3. /\ DOMAIN f = picks[i][L]
          /\ {f[nb] : nb \in DOMAIN f} = {[list |-> <<nb, L>>, node |-> i] : nb \in picks[i][L]}
      OBVIOUS
    <3> HIDE DEF f
    <3> QED BY <3>2, <3>3, ImageFinite
  <2>2. ASSUME NEW i \in wave
        PROVE  IsFiniteSet(UNION {{[list |-> <<nb, L>>, node |-> i] : nb \in picks[i][L]} :
                                     L \in DOMAIN picks[i]})
    <3>1. IsFiniteSet(DOMAIN picks[i])
      <4> DEFINE shared == IF Len(g.links[i]) - 1 < g.top THEN Len(g.links[i]) - 1 ELSE g.top
      <4>1. shared \in Int
        <5>1. Len(g.links[i]) - 1 \in Int
          BY <1>1, <1>5
        <5>2. g.top \in Int
          BY ConstantsAssumption DEF Linkable, Shaped
        <5> QED BY <5>1, <5>2
      <4>2. IsFiniteSet(0..shared)
        <5> HIDE DEF shared
        <5> QED BY <4>1, FS_Interval
      <4> QED BY <1>3, <4>2
    <3> DEFINE S == {{[list |-> <<nb, L>>, node |-> i] : nb \in picks[i][L]} :
                         L \in DOMAIN picks[i]}
    <3>2. IsFiniteSet(S)
      <4> DEFINE f == [L \in DOMAIN picks[i] |->
                          {[list |-> <<nb, L>>, node |-> i] : nb \in picks[i][L]}]
      <4>1. DOMAIN f = DOMAIN picks[i] /\ {f[L] : L \in DOMAIN f} = S
        OBVIOUS
      <4> HIDE DEF f, S
      <4> QED BY <3>1, <4>1, ImageFinite
    <3>3. \A T \in S : IsFiniteSet(T)
      BY <2>1
    <3> HIDE DEF S
    <3>4. IsFiniteSet(UNION S)
      BY <3>2, <3>3, FS_UNION
    <3> QED BY <3>4 DEF S
  <2>3. IsFiniteSet(wave)
    BY <1>1, <1>2, FS_Interval
  <2> DEFINE S == {UNION {{[list |-> <<nb, L>>, node |-> i] : nb \in picks[i][L]} :
                              L \in DOMAIN picks[i]} : i \in wave}
  <2>4. IsFiniteSet(S)
    <3> DEFINE f == [i \in wave |-> UNION {{[list |-> <<nb, L>>, node |-> i] : nb \in picks[i][L]} :
                                              L \in DOMAIN picks[i]}]
    <3>1. DOMAIN f = wave /\ {f[i] : i \in DOMAIN f} = S
      OBVIOUS
    <3> HIDE DEF f, S
    <3> QED BY <2>3, <3>1, ImageFinite
  <2>5. \A T \in S : IsFiniteSet(T)
    BY <2>2
  <2>6. B = UNION S
    BY <1>4 DEF B, BacksOf
  <2> HIDE DEF S
  <2> QED BY <2>4, <2>5, <2>6, FS_UNION
<1>12. /\ \A m \in DOMAIN G : /\ \E x \in B : x.list = G[m].list
                              /\ G[m].new = {x.node : x \in {y \in B : y.list = G[m].list}}
       /\ \A l, m \in DOMAIN G : l # m => G[l].list # G[m].list
       /\ \A x \in B : \E m \in DOMAIN G : G[m].list = x.list
  BY <1>10, <1>11, GroupsAre DEF GroupsOf, B
<1> HIDE DEF G
<1>13. ASSUME NEW nb, NEW L
       PROVE  {x.node : x \in {y \in B : y.list = <<nb, L>>}} = Backs(wave, picks, nb, L)
  <2>1. ASSUME NEW x \in B, x.list = <<nb, L>> PROVE x.node \in Backs(wave, picks, nb, L)
    <3>1. PICK i \in wave : \E K \in DOMAIN picks[i] : \E j \in picks[i][K] :
                x = [list |-> <<j, K>>, node |-> i]
      BY <1>7
    <3>2. PICK K \in DOMAIN picks[i] : \E j \in picks[i][K] :
                x = [list |-> <<j, K>>, node |-> i]
      BY <3>1
    <3>3. PICK j \in picks[i][K] : x = [list |-> <<j, K>>, node |-> i]
      BY <3>2
    <3>4. j = nb /\ K = L /\ x.node = i
      BY <2>1, <3>3
    <3> QED BY <3>4 DEF Backs, Wanted
  <2>2. ASSUME NEW i \in Backs(wave, picks, nb, L)
        PROVE  \E x \in {y \in B : y.list = <<nb, L>>} : x.node = i
    <3>1. i \in wave /\ L \in DOMAIN picks[i] /\ nb \in picks[i][L]
      BY DEF Backs, Wanted
    <3>2. [list |-> <<nb, L>>, node |-> i] \in B
      BY <1>8, <3>1
    <3> QED BY <3>2
  <2> QED BY <2>1, <2>2
<1>14. ASSUME NEW m \in DOMAIN G
       PROVE  LET nb == G[m].list[1]
                  L == G[m].list[2]
              IN  /\ G[m].list = <<nb, L>> /\ L \in Nat
                  /\ nb \in Ordinals(g) /\ nb \notin wave /\ L + 1 \in 1..Len(g.links[nb])
                  /\ G[m].new = Backs(wave, picks, nb, L) /\ G[m].new # {}
  <2>1. PICK x \in B : x.list = G[m].list
    BY <1>12
  <2>2. PICK i \in wave : \E L \in DOMAIN picks[i] : \E nb \in picks[i][L] :
              x = [list |-> <<nb, L>>, node |-> i]
    BY <1>7
  <2>3. PICK L \in DOMAIN picks[i] : \E nb \in picks[i][L] :
              x = [list |-> <<nb, L>>, node |-> i]
    BY <2>2
  <2>4. PICK nb \in picks[i][L] : x = [list |-> <<nb, L>>, node |-> i]
    BY <2>3
  <2>5. G[m].list = <<nb, L>> /\ G[m].list[1] = nb /\ G[m].list[2] = L
    BY <2>1, <2>4
  <2>6. /\ nb \in Ordinals(g) /\ nb \notin wave /\ L \in Nat /\ L + 1 \in 1..Len(g.links[nb])
    BY <1>9
  <2>7. G[m].new = Backs(wave, picks, nb, L)
    <3>1. G[m].new = {z.node : z \in {y \in B : y.list = G[m].list}}
      BY <1>12
    <3>2. G[m].new = {z.node : z \in {y \in B : y.list = <<nb, L>>}}
      BY <2>5, <3>1
    <3> QED BY <1>13, <3>2
  <2>8. i \in Backs(wave, picks, nb, L)
    BY DEF Backs, Wanted
  <2> QED BY <2>5, <2>6, <2>7, <2>8
<1>15. ASSUME NEW nb \in Ordinals(g), NEW L \in Nat, Backs(wave, picks, nb, L) # {}
       PROVE  <<nb, L>> \in ListsOf(G, DOMAIN G)
  <2>1. PICK x \in B : x.list = <<nb, L>>
    BY <1>13, <1>15
  <2>2. PICK m \in DOMAIN G : G[m].list = <<nb, L>>
    BY <1>12, <2>1
  <2> QED BY <2>2 DEF ListsOf
<1> QED BY <1>12, <1>14, <1>15 DEF G, wave, picks
\* The nodes and the lists of a graph that is half linked.
LEMMA HalfIs ==
    ASSUME NEW g, NEW n, Linkable(g, n), SizeAt(g, n) # 0, NEW lists
    PROVE  LET h == HalfLinked(g, n, lists)
               wave == WaveFrom(g, n)
           IN  /\ h.nodes = g.nodes
               /\ h = [Raise(g, wave) EXCEPT !.links = h.links]
               /\ h.links = Partly(g, wave, WavePicks(g, wave), lists)
               /\ IsGraph(Raise(g, wave)) /\ Raise(g, wave).links = g.links
               /\ Raise(g, wave).nodes = g.nodes
<1> DEFINE wave == WaveFrom(g, n)
           r == Raise(g, wave)
           p == Partly(g, wave, WavePicks(g, wave), lists)
           h == HalfLinked(g, n, lists)
<1>1. IsGraph(g)
  BY DEF Linkable, Shaped
<1>2. IsGraph(r) /\ r.links = g.links /\ r.nodes = g.nodes
  BY <1>1 DEF Raise, IsGraph, EmptyGraph
<1>3. h = [r EXCEPT !.links = p]
  BY DEF HalfLinked
<1> HIDE DEF r, p, h
<1>4. h.nodes = r.nodes /\ h.links = p
  BY <1>2, <1>3 DEF IsGraph, EmptyGraph
<1> QED BY <1>2, <1>3, <1>4 DEF r, p, h

\* When the nodes of a wave have their own links, no list is written yet.
LEMMA TakingStarts ==
    ASSUME NEW g, NEW n, Linkable(g, n), SizeAt(g, n) # 0
    PROVE  LET wave == WaveFrom(g, n)
               picks == WavePicks(g, wave)
               mine == [i \in DOMAIN picks |-> [K \in DOMAIN g.links[i] |->
                            IF K - 1 \in DOMAIN picks[i] THEN picks[i][K - 1] ELSE {}]]
               h == [Raise(g, wave) EXCEPT
                        !.links = [i \in DOMAIN @ |-> IF i \in DOMAIN mine THEN mine[i] ELSE @[i]]]
           IN  Taking(g, n, h, GroupsOf(picks), <<>>)
<1> DEFINE wave == WaveFrom(g, n)
           picks == WavePicks(g, wave)
           mine == [i \in DOMAIN picks |-> [K \in DOMAIN g.links[i] |->
                        IF K - 1 \in DOMAIN picks[i] THEN picks[i][K - 1] ELSE {}]]
           r == Raise(g, wave)
           own == [i \in DOMAIN r.links |-> IF i \in DOMAIN mine THEN mine[i] ELSE r.links[i]]
           h == [r EXCEPT !.links = own]
           G == GroupsOf(picks)
           lists == ListsOf(G, DOMAIN G)
<1>1. /\ \A m \in DOMAIN G :
             LET nb == G[m].list[1]
                 L == G[m].list[2]
             IN  /\ G[m].list = <<nb, L>> /\ L \in Nat
                 /\ nb \in Ordinals(g) /\ nb \notin wave /\ L + 1 \in 1..Len(g.links[nb])
      /\ \A nb \in Ordinals(g), L \in Nat : Backs(wave, picks, nb, L) # {} => <<nb, L>> \in lists
  BY WaveGroups
<1>2. /\ IsGraph(r) /\ r.links = g.links
      /\ HalfLinked(g, n, lists) = [r EXCEPT !.links = Partly(g, wave, picks, lists)]
  BY HalfIs DEF HalfLinked
<1>3. DOMAIN picks = wave /\ DOMAIN mine = wave
  BY DEF WavePicks
<1>4. /\ DOMAIN g.links = Ordinals(g)
      /\ \A i \in Ordinals(g) : /\ g.links[i] = [K \in 1..Len(g.links[i]) |-> g.links[i][K]]
                                /\ DOMAIN g.links[i] = 1..Len(g.links[i])
                                /\ Len(g.links[i]) \in Nat
  <2>1. Shaped(g) /\ ~g.sealed /\ \A i \in Ordinals(g) : Len(g.links[i]) = g.nodes[i].level + 1
    BY DEF Linkable
  <2>2. \A i \in Ordinals(g) : g.nodes[i].level \in Nat
    BY <2>1, LevelNat
  <2> QED BY <2>1, <2>2 DEF Shaped, List, Ordinals
<1>5. ASSUME NEW i \in wave, NEW L PROVE <<i, L>> \notin lists
  <2> SUFFICES ASSUME NEW m \in DOMAIN G, G[m].list = <<i, L>> PROVE FALSE
    BY DEF ListsOf
  <2>1. G[m].list = <<G[m].list[1], G[m].list[2]>> /\ G[m].list[1] \notin wave
    BY <1>1
  <2> HIDE DEF G, wave
  <2> QED BY <2>1
<1>6. own = Partly(g, wave, picks, lists)
  <2> DEFINE cell(i, K) == IF <<i, K - 1>> \in lists THEN g.links[i][K] ELSE Taken(g, wave, picks, i, K - 1)
  <2>1. ASSUME NEW i \in Ordinals(g) PROVE own[i] = [K \in 1..Len(g.links[i]) |-> cell(i, K)]
    <3>1. CASE i \in wave
      <4>1. own[i] = [K \in 1..Len(g.links[i]) |-> Wanted(picks, i, K - 1)]
        BY <1>2, <1>3, <1>4, <3>1 DEF Wanted
      <4>2. \A K : cell(i, K) = Wanted(picks, i, K - 1)
        BY <1>5, <3>1 DEF Taken
      <4> HIDE DEF own, cell
      <4> QED BY <4>1, <4>2
    <3>2. CASE i \notin wave
      <4>1. own[i] = g.links[i]
        BY <1>2, <1>3, <1>4, <3>2
      <4>2. ASSUME NEW K \in 1..Len(g.links[i]) PROVE cell(i, K) = g.links[i][K]
        <5>1. CASE <<i, K - 1>> \in lists
          BY <5>1
        <5>2. CASE <<i, K - 1>> \notin lists
          <6>1. K - 1 \in Nat /\ (K - 1) + 1 = K
            BY <1>4
          <6>2. Backs(wave, picks, i, K - 1) = {}
            BY <1>1, <5>2, <6>1
          <6>3. Taken(g, wave, picks, i, K - 1) = g.links[i][(K - 1) + 1]
            BY <3>2, <6>2 DEF Taken
          <6> QED BY <5>2, <6>1, <6>3
        <5> QED BY <5>1, <5>2
      <4> HIDE DEF own, cell
      <4> QED BY <1>4, <4>1, <4>2
    <3> QED BY <3>1, <3>2
  <2>2. own = [i \in Ordinals(g) |-> own[i]]
    BY <1>2, <1>4
  <2>3. Partly(g, wave, picks, lists) = [i \in Ordinals(g) |-> [K \in 1..Len(g.links[i]) |-> cell(i, K)]]
    BY DEF Partly
  <2> HIDE DEF own, cell
  <2> QED BY <2>1, <2>2, <2>3
<1>7. h = HalfLinked(g, n, lists)
  <2> HIDE DEF own, r, lists, picks, wave
  <2> QED BY <1>2, <1>6
<1>8. DOMAIN <<>> = {}
  OBVIOUS
<1> HIDE DEF h, G
<1>9. Taking(g, n, h, G, <<>>)
  BY <1>7, <1>8 DEF Taking, G
<1> QED BY <1>9 DEF h, G

\* A list that is not written yet is as the wave found it.
LEMMA TakingReads ==
    ASSUME NEW g, NEW n, Linkable(g, n), NEW h, NEW some, NEW read,
           Taking(g, n, h, some, read), NEW m \in DOMAIN some
    PROVE  Taking(g, n, h, some, ReadIn(h, some, read, m))
<1> DEFINE wave == WaveFrom(g, n)
           picks == WavePicks(g, wave)
           G == GroupsOf(picks)
           list == some[m].list
           lists == [l \in DOMAIN read \union {m} |->
                        IF l = m THEN h.links[list[1]][list[2] + 1] ELSE read[l]]
           left == ListsOf(G, DOMAIN some)
<1>1. /\ SizeAt(g, n) # 0
      /\ DOMAIN some \subseteq DOMAIN G /\ \A l \in DOMAIN some : some[l] = G[l]
      /\ DOMAIN read \subseteq DOMAIN some
      /\ \A l \in DOMAIN read : read[l] = g.links[G[l].list[1]][G[l].list[2] + 1]
      /\ h = HalfLinked(g, n, left)
  BY DEF Taking
<1>2. /\ list = G[m].list /\ list = <<list[1], list[2]>> /\ list[2] \in Nat
      /\ list[1] \in Ordinals(g) /\ list[2] + 1 \in 1..Len(g.links[list[1]])
  BY <1>1, WaveGroups
<1>3. list \in left
  BY <1>1, <1>2 DEF ListsOf
<1>4. h.links = Partly(g, wave, picks, left)
  BY <1>1, HalfIs
<1>5. h.links[list[1]][list[2] + 1] = g.links[list[1]][list[2] + 1]
  <2>1. (list[2] + 1) - 1 = list[2]
    BY <1>2
  <2>2. <<list[1], (list[2] + 1) - 1>> \in left
    BY <1>2, <1>3, <2>1
  <2> HIDE DEF left, list, picks, wave, G
  <2> QED BY <1>2, <1>4, <2>2 DEF Partly
<1>6. /\ DOMAIN lists = DOMAIN read \union {m}
      /\ \A l \in DOMAIN lists : lists[l] = g.links[G[l].list[1]][G[l].list[2] + 1]
  <2> DEFINE v(l) == g.links[G[l].list[1]][G[l].list[2] + 1]
  <2>1. h.links[list[1]][list[2] + 1] = v(m)
    BY <1>2, <1>5
  <2>2. \A l \in DOMAIN read : read[l] = v(l)
    BY <1>1
  <2>3. lists = [l \in DOMAIN read \union {m} |-> IF l = m THEN v(m) ELSE read[l]]
    BY <2>1
  <2> HIDE DEF v, lists
  <2>4. /\ DOMAIN lists = DOMAIN read \union {m}
        /\ \A l \in DOMAIN lists : lists[l] = v(l)
    BY <2>2, <2>3
  <2> QED BY <2>4 DEF v
<1> HIDE DEF lists
<1>7. Taking(g, n, h, some, lists)
  BY <1>1, <1>6 DEF Taking
<1> QED BY <1>7 DEF ReadIn, lists

\* Written, it is as the wave in one step leaves it, and no other list is.
LEMMA TakingWrites ==
    ASSUME NEW g, NEW n, Linkable(g, n), NEW h, NEW some, NEW read,
           Taking(g, n, h, some, read), NEW m \in DOMAIN read
    PROVE  Taking(g, n, WrittenIn(h, some, read, m), Without(some, m), Without(read, m))
<1> DEFINE wave == WaveFrom(g, n)
           picks == WavePicks(g, wave)
           G == GroupsOf(picks)
           nb == some[m].list[1]
           L == some[m].list[2]
           new == some[m].new
           seen == [h EXCEPT !.links[nb][L + 1] = read[m]]
           then == [h EXCEPT !.links[nb][L + 1] = TakeLinks(seen, nb, L, new)]
           left == ListsOf(G, DOMAIN some)
           after == ListsOf(G, DOMAIN some \ {m})
           some2 == [l \in DOMAIN some \ {m} |-> some[l]]
           read2 == [l \in DOMAIN read \ {m} |-> read[l]]
<1>1. /\ SizeAt(g, n) # 0
      /\ DOMAIN some \subseteq DOMAIN G /\ \A l \in DOMAIN some : some[l] = G[l]
      /\ DOMAIN read \subseteq DOMAIN some
      /\ \A l \in DOMAIN read : read[l] = g.links[G[l].list[1]][G[l].list[2] + 1]
      /\ h = HalfLinked(g, n, left)
  BY DEF Taking
<1>2. m \in DOMAIN some /\ m \in DOMAIN G /\ some[m] = G[m]
  BY <1>1
<1>3. /\ some[m].list = <<nb, L>> /\ L \in Nat /\ (L + 1) - 1 = L
      /\ nb \in Ordinals(g) /\ nb \notin wave /\ L + 1 \in 1..Len(g.links[nb])
      /\ new = Backs(wave, picks, nb, L) /\ new # {}
      /\ \A l \in DOMAIN G : l # m => G[l].list # G[m].list
  BY <1>1, <1>2, WaveGroups
<1>4. /\ h.nodes = g.nodes /\ h.links = Partly(g, wave, picks, left)
      /\ h = [Raise(g, wave) EXCEPT !.links = h.links]
      /\ IsGraph(Raise(g, wave))
  BY <1>1, HalfIs
<1>5. IsGraph(h)
  BY <1>4 DEF IsGraph, EmptyGraph
<1>6. read[m] = g.links[nb][L + 1]
  BY <1>1, <1>2
<1>7. DOMAIN h.links = Ordinals(g) /\ DOMAIN h.links[nb] = 1..Len(g.links[nb])
  BY <1>3, <1>4 DEF Partly
<1> HIDE DEF nb, L, new, left, after, G, picks, wave
<1>8. seen.nodes = g.nodes /\ seen.links[nb][L + 1] = g.links[nb][L + 1]
  <2>1. seen.nodes = h.nodes
    BY <1>5 DEF IsGraph, EmptyGraph
  <2>2. seen.links[nb][L + 1] = read[m]
    BY <1>3, <1>5, <1>7 DEF IsGraph, EmptyGraph
  <2> QED BY <1>4, <1>6, <2>1, <2>2
<1> HIDE DEF seen
<1> DEFINE taken == TakeLinks(seen, nb, L, new)
<1>9. taken = Taken(g, wave, picks, nb, L)
  <2> DEFINE all == g.links[nb][L + 1] \union new
  <2>1. SelectNeighbours(seen, nb, all, MaxM(L)) = SelectNeighbours(g, nb, all, MaxM(L))
    BY <1>8, SameSelect
  <2>2. taken = TakeLinks(g, nb, L, new)
    BY <1>8, <2>1 DEF TakeLinks
  <2>3. Taken(g, wave, picks, nb, L) = TakeLinks(g, nb, L, new)
    BY <1>3 DEF Taken
  <2> QED BY <2>2, <2>3
<1> HIDE DEF taken
<1>10. after = left \ {<<nb, L>>}
  <2>1. \A l \in DOMAIN some : G[l].list = <<nb, L>> <=> l = m
    BY <1>1, <1>2, <1>3
  <2> QED BY <2>1 DEF after, left, ListsOf
<1> DEFINE inner == [h.links[nb] EXCEPT ![L + 1] = taken]
           links == [h.links EXCEPT ![nb] = inner]
<1>11. then = [h EXCEPT !.links = links]
  BY DEF taken
<1>12. inner = [K \in 1..Len(g.links[nb]) |->
                  IF <<nb, K - 1>> \in after THEN g.links[nb][K] ELSE Taken(g, wave, picks, nb, K - 1)]
  <2> DEFINE cell(lists, K) == IF <<nb, K - 1>> \in lists THEN g.links[nb][K]
                               ELSE Taken(g, wave, picks, nb, K - 1)
  <2>1. h.links[nb] = [K \in 1..Len(g.links[nb]) |-> cell(left, K)]
    BY <1>3, <1>4 DEF Partly
  <2>2. ASSUME NEW K \in 1..Len(g.links[nb])
        PROVE  (IF K = L + 1 THEN taken ELSE cell(left, K)) = cell(after, K)
    <3>1. CASE K = L + 1
      <4>1. K - 1 = L
        BY <1>3, <3>1
      <4>2. <<nb, K - 1>> \notin after
        BY <1>10, <4>1
      <4> QED BY <1>9, <3>1, <4>1, <4>2
    <3>2. CASE K # L + 1
      <4>1. K - 1 # L
        BY <1>3, <3>2
      <4>2. <<nb, K - 1>> \in after <=> <<nb, K - 1>> \in left
        BY <1>10, <4>1
      <4> QED BY <3>2, <4>2
    <3> QED BY <3>1, <3>2
  <2>3. inner = [K \in 1..Len(g.links[nb]) |-> IF K = L + 1 THEN taken ELSE h.links[nb][K]]
    BY <1>7
  <2> HIDE DEF inner
  <2>4. \A K \in 1..Len(g.links[nb]) : h.links[nb][K] = cell(left, K)
    BY <2>1
  <2> HIDE DEF cell
  <2>5. inner = [K \in 1..Len(g.links[nb]) |-> cell(after, K)]
    BY <2>2, <2>3, <2>4
  <2> QED BY <2>5 DEF cell
<1> HIDE DEF inner
<1>13. links = Partly(g, wave, picks, after)
  <2> DEFINE row(lists, i) == [K \in 1..Len(g.links[i]) |->
                  IF <<i, K - 1>> \in lists THEN g.links[i][K] ELSE Taken(g, wave, picks, i, K - 1)]
  <2>1. h.links = [i \in Ordinals(g) |-> row(left, i)]
    BY <1>4 DEF Partly
  <2>2. ASSUME NEW i \in Ordinals(g), i # nb PROVE row(left, i) = row(after, i)
    <3>1. \A K : <<i, K - 1>> \in after <=> <<i, K - 1>> \in left
      BY <1>10, <2>2
    <3> QED BY <3>1
  <2>3. inner = row(after, nb)
    BY <1>12
  <2> HIDE DEF row
  <2>4. links = [i \in Ordinals(g) |-> row(after, i)]
    BY <1>3, <2>1, <2>2, <2>3
  <2> QED BY <2>4 DEF Partly, row
<1> HIDE DEF links
<1>14. then = HalfLinked(g, n, after)
  <2> DEFINE r == Raise(g, wave)
  <2>1. HalfLinked(g, n, after) = [r EXCEPT !.links = links]
    BY <1>13 DEF HalfLinked, wave, picks
  <2> HIDE DEF r, then
  <2>2. h = [r EXCEPT !.links = h.links] /\ IsGraph(r)
    BY <1>4 DEF r
  <2>3. [h EXCEPT !.links = links] = [r EXCEPT !.links = links]
    BY <2>2 DEF IsGraph, EmptyGraph
  <2> QED BY <1>11, <2>1, <2>3
<1> HIDE DEF then
<1>15. /\ DOMAIN some2 = DOMAIN some \ {m} /\ DOMAIN read2 = DOMAIN read \ {m}
       /\ \A l \in DOMAIN some2 : some2[l] = some[l]
       /\ \A l \in DOMAIN read2 : read2[l] = read[l]
  OBVIOUS
<1> HIDE DEF some2, read2
<1>16. /\ DOMAIN some2 \subseteq DOMAIN G /\ \A l \in DOMAIN some2 : some2[l] = G[l]
       /\ DOMAIN read2 \subseteq DOMAIN some2
       /\ \A l \in DOMAIN read2 : read2[l] = g.links[G[l].list[1]][G[l].list[2] + 1]
  BY <1>1, <1>15
<1>17. Taking(g, n, then, some2, read2)
  BY <1>1, <1>14, <1>15, <1>16 DEF Taking, after, G, picks, wave
<1> QED BY <1>17 DEF WrittenIn, Without, then, taken, seen, nb, L, new, some2, read2

\* With no group left, the wave is linked.
LEMMA TakingEnds ==
    ASSUME NEW g, NEW n, Linkable(g, n), NEW h, NEW some, NEW read,
           Taking(g, n, h, some, read), DOMAIN some = {}
    PROVE  h = LinkWave(g, WaveFrom(g, n))
<1> DEFINE wave == WaveFrom(g, n)
           picks == WavePicks(g, wave)
<1>1. SizeAt(g, n) # 0 /\ h = HalfLinked(g, n, {})
  BY DEF Taking, ListsOf
<1>2. Partly(g, wave, picks, {}) = TakenLinks(g, wave, picks)
  BY DEF Partly, TakenLinks
<1>3. LinkWave(g, wave) = [Raise(g, wave) EXCEPT !.links = TakenLinks(g, wave, picks)]
  BY <1>1, WaveIs DEF SizeAt
<1> QED BY <1>1, <1>2, <1>3 DEF HalfLinked
-----------------------------------------------------------------------------
(* The waves with several workers give the graph of the serial build.      *)

\* Between two waves the graph is one of the serial build's; while a wave is
\* searched for it does not change; while one is applied, it is the graph
\* before the wave with a part of its lists written.
WavesInv ==
    /\ BatchOk(batch) /\ wPc \in {"start", "search", "take", "done"}
    /\ wPc \in {"start", "search"} => SerialAt(batch, wGraph, wLinked)
    /\ wPc # "take" => DOMAIN local = {}
    /\ wPc = "search" => Searching(wGraph, wLinked, turn, chosen)
    /\ wPc = "take" => \E g : /\ SerialAt(batch, g, wLinked)
                              /\ Taking(g, wLinked, wGraph, groups, local)
    /\ wPc = "done" => wGraph = BuildBatch(batch.graph, batch.items, batch.levels, FALSE)

LEMMA SerialSize ==
    ASSUME NEW b, NEW g, NEW n, SerialAt(b, g, n)
    PROVE  Linkable(g, n) /\ n \in Nat /\ SizeAt(g, n) \in Nat
<1>1. Linkable(g, n) /\ n \in 1..Len(g.nodes) /\ Len(g.nodes) \in Nat
  BY DEF SerialAt, Linkable, Shaped
<1>2. n \in Nat /\ n <= Len(g.nodes)
  BY <1>1
<1> QED BY <1>1, <1>2, WaveFits DEF SizeAt

LEMMA WavesStart ==
    ASSUME NEW batches, \A b \in batches : BatchOk(b), WavesInit(batches)
    PROVE  WavesInv
<1>1. BatchOk(batch) /\ wGraph = StartOf(batch).graph /\ wLinked = StartOf(batch).linked
  BY DEF WavesInit, StartOf
<1>2. SerialAt(batch, wGraph, wLinked)
  BY <1>1, SerialStart
<1>3. wPc = "start" /\ DOMAIN local = {}
  BY DEF WavesInit
<1> QED BY <1>1, <1>2, <1>3 DEF WavesInv

LEMMA WavesStep ==
    ASSUME WavesInv, [WavesNext]_wavesVars
    PROVE  WavesInv'
<1> USE DEF WavesInv
<1>1. CASE StartWave
  <2>1. /\ SerialAt(batch, wGraph, wLinked) /\ wPc' = "search" /\ Size > 0
        /\ turn' = [k \in 0 .. ShareOf(Size) - 1 |-> k] /\ chosen' = <<>>
        /\ UNCHANGED <<batch, wGraph, wLinked, local>> /\ DOMAIN local = {}
    BY <1>1 DEF StartWave
  <2>2. Size = SizeAt(wGraph, wLinked) /\ SizeAt(wGraph, wLinked) \in Nat
    BY <2>1, SerialSize DEF Size, Total, SizeAt
  <2>3. Searching(wGraph, wLinked, turn', chosen')
    <3>1. SizeAt(wGraph, wLinked) # 0
      BY <2>1, <2>2
    <3> QED BY <2>1, <2>2, <3>1, SearchStarts
  <2> QED BY <2>1, <2>3
<1>2. ASSUME NEW k \in DOMAIN turn, SearchFor(k) PROVE WavesInv'
  <2>1. /\ SerialAt(batch, wGraph, wLinked) /\ Searching(wGraph, wLinked, turn, chosen)
        /\ wPc = "search" /\ DOMAIN local = {}
        /\ UNCHANGED <<batch, wGraph, wLinked, wPc, local>> /\ turn[k] < Size
    BY <1>2 DEF SearchFor
  <2>2. /\ Size = SizeAt(wGraph, wLinked) /\ SizeAt(wGraph, wLinked) \in Nat
        /\ wLinked \in Nat
    BY <2>1, SerialSize DEF Size, Total, SizeAt
  <2>3. /\ chosen' = Searched(wGraph, wLinked + 1 + turn[k], chosen)
        /\ turn' = Ahead(turn, k, ShareOf(SizeAt(wGraph, wLinked)))
    BY <1>2, <2>2 DEF SearchFor, WaveNode, LevelOf, Searched, Ahead
  <2>4. Searching(wGraph, wLinked, turn', chosen')
    BY <2>1, <2>2, <2>3, SearchGoes
  <2> QED BY <2>1, <2>4
<1>3. CASE ApplyOwn
  <2> DEFINE wave == WaveFrom(wGraph, wLinked)
             picks == WavePicks(wGraph, wave)
  <2>1. /\ SerialAt(batch, wGraph, wLinked) /\ Searching(wGraph, wLinked, turn, chosen)
        /\ wPc' = "take" /\ local' = <<>> /\ UNCHANGED <<batch, wLinked>>
        /\ \A k \in DOMAIN turn : turn[k] >= Size
    BY <1>3 DEF ApplyOwn
  <2>2. /\ Size = SizeAt(wGraph, wLinked) /\ SizeAt(wGraph, wLinked) \in Nat
        /\ SizeAt(wGraph, wLinked) # 0
        /\ wLinked \in Nat /\ Linkable(wGraph, wLinked)
    BY <2>1, SerialSize DEF Size, Total, SizeAt, Searching
  <2>3. chosen = picks
    BY <2>1, <2>2, SearchEnds
  <2>4. DOMAIN picks = wave /\ BackLinks = BacksOf(picks)
    BY <2>3 DEF WavePicks, BackLinks, BacksOf
  <2> DEFINE mine == [i \in DOMAIN picks |-> [K \in DOMAIN wGraph.links[i] |->
                          IF K - 1 \in DOMAIN picks[i] THEN picks[i][K - 1] ELSE {}]]
             h == [Raise(wGraph, wave) EXCEPT
                      !.links = [i \in DOMAIN @ |-> IF i \in DOMAIN mine THEN mine[i] ELSE @[i]]]
  <2>5. Taking(wGraph, wLinked, h, GroupsOf(picks), <<>>)
    BY <2>2, TakingStarts
  <2>6. wGraph' = h
    <3> HIDE DEF picks, wave
    <3> QED BY <1>3, <2>3, <2>4 DEF ApplyOwn
  <2>7. groups' = GroupsOf(picks)
    BY <1>3, <2>4 DEF ApplyOwn, GroupsOf
  <2> HIDE DEF h, picks, wave
  <2>8. Taking(wGraph, wLinked, wGraph', groups', local')
    BY <2>1, <2>5, <2>6, <2>7
  <2>9. \E g : /\ SerialAt(batch', g, wLinked')
               /\ Taking(g, wLinked', wGraph', groups', local')
    BY <2>1, <2>8
  <2> QED BY <2>1, <2>9
<1>4. ASSUME NEW n \in DOMAIN groups, ReadList(n) PROVE WavesInv'
  <2>1. wPc = "take" /\ UNCHANGED <<batch, wGraph, wLinked, wPc, groups>>
    BY <1>4 DEF ReadList
  <2>2. PICK g : SerialAt(batch, g, wLinked) /\ Taking(g, wLinked, wGraph, groups, local)
    BY <2>1
  <2>3. local' = ReadIn(wGraph, groups, local, n)
    BY <1>4 DEF ReadList, ReadIn
  <2>4. Taking(g, wLinked, wGraph, groups, local')
    BY <2>2, <2>3, SerialSize, TakingReads
  <2> QED BY <2>1, <2>2, <2>4
<1>5. ASSUME NEW n \in DOMAIN groups, WriteList(n) PROVE WavesInv'
  <2>1. wPc = "take" /\ n \in DOMAIN local /\ UNCHANGED <<batch, wLinked, wPc>>
    BY <1>5 DEF WriteList
  <2>2. PICK g : SerialAt(batch, g, wLinked) /\ Taking(g, wLinked, wGraph, groups, local)
    BY <2>1
  <2>3. /\ wGraph' = WrittenIn(wGraph, groups, local, n)
        /\ groups' = Without(groups, n) /\ local' = Without(local, n)
    BY <1>5 DEF WriteList, WrittenIn, Without
  <2>4. Taking(g, wLinked, wGraph', groups', local')
    BY <2>1, <2>2, <2>3, SerialSize, TakingWrites
  <2> QED BY <2>1, <2>2, <2>4
<1>6. CASE EndWave
  <2>1. /\ wPc = "take" /\ DOMAIN groups = {} /\ wPc' = "start" /\ wLinked' = wLinked + Size
        /\ UNCHANGED <<batch, wGraph, local>>
    BY <1>6 DEF EndWave
  <2>2. PICK g : SerialAt(batch, g, wLinked) /\ Taking(g, wLinked, wGraph, groups, local)
    BY <2>1
  <2>3. wGraph = LinkWave(g, WaveFrom(g, wLinked)) /\ SizeAt(g, wLinked) # 0
    BY <2>1, <2>2, SerialSize, TakingEnds DEF Taking
  <2>4. /\ SerialAt(batch, wGraph, wLinked + SizeAt(g, wLinked))
        /\ Len(wGraph.nodes) = Len(g.nodes)
    BY <2>2, <2>3, SerialStep DEF SizeAt
  <2>5. Size = SizeAt(g, wLinked)
    BY <2>4 DEF Size, Total, SizeAt
  <2>6. DOMAIN local = {}
    BY <2>1, <2>2 DEF Taking
  <2> QED BY <2>1, <2>4, <2>5, <2>6
<1>7. CASE Freeze
  <2>1. /\ wPc = "start" /\ Size = 0 /\ wGraph' = Seal(wGraph, FALSE) /\ wPc' = "done"
        /\ UNCHANGED <<batch, local>>
    BY <1>7 DEF Freeze
  <2>2. wGraph' = BuildBatch(batch.graph, batch.items, batch.levels, FALSE)
    BY <2>1, SerialEnd DEF Size, Total
  <2> QED BY <2>1, <2>2
<1>8. CASE UNCHANGED wavesVars
  BY <1>8 DEF wavesVars
<1> QED BY <1>1, <1>2, <1>3, <1>4, <1>5, <1>6, <1>7, <1>8 DEF WavesNext

LEMMA WavesInvSerial == WavesInv => BuildIsSerial
<1> SUFFICES ASSUME WavesInv PROVE BuildIsSerial
  OBVIOUS
<1>1. ASSUME NEW m \in DOMAIN local, NEW n \in DOMAIN local, m # n
      PROVE  groups[m].list # groups[n].list
  <2>1. wPc = "take"
    BY DEF WavesInv
  <2>2. PICK g : SerialAt(batch, g, wLinked) /\ Taking(g, wLinked, wGraph, groups, local)
    BY <2>1 DEF WavesInv
  <2> DEFINE all == GroupsOf(WavePicks(g, WaveFrom(g, wLinked)))
  <2>3. /\ m \in DOMAIN all /\ groups[m] = all[m] /\ n \in DOMAIN all /\ groups[n] = all[n]
        /\ SizeAt(g, wLinked) # 0
    BY <2>2 DEF Taking
  <2>4. \A k, l \in DOMAIN all : k # l => all[k].list # all[l].list
    BY <2>2, <2>3, SerialSize, WaveGroups
  <2> QED BY <1>1, <2>3, <2>4
<1> QED BY <1>1 DEF WavesInv, BuildIsSerial

\* A batch linked in waves by several workers comes out as it does with one,
\* and no two workers hold the same list: for every graph and every batch,
\* every number of workers and every order in which they search, read and
\* write (hnsw.cpp:518-648).
THEOREM WavesAreSerial ==
    ASSUME NEW batches, \A b \in batches : BatchOk(b)
    PROVE  WavesInit(batches) /\ [][WavesNext]_wavesVars => []BuildIsSerial
<1>1. WavesInit(batches) => WavesInv
  BY WavesStart
<1>2. WavesInv /\ [WavesNext]_wavesVars => WavesInv'
  BY WavesStep
<1>3. WavesInv => BuildIsSerial
  BY WavesInvSerial
<1> QED BY <1>1, <1>2, <1>3, PTL
=============================================================================
