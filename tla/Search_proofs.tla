---------------------------- MODULE Search_proofs ----------------------------
(***************************************************************************)
(* Proofs about the parts a search is made of.                              *)
(*                                                                         *)
(* Wand, for every set of terms, documents and weights, every block size    *)
(* and every k: what block-max WAND skips is never an answer (NothingLost). *)
(*                                                                         *)
(* A document is passed when a cursor of one of its terms is beyond it.  A  *)
(* passed document is either a result, and then all its terms have passed   *)
(* it, or its score does not beat the threshold and the maxima of the       *)
(* blocks of the cursors still at it do not either, so that it can never be *)
(* scored from some of its terms only (Fine); and no cursor is before it.   *)
(* The heap holds exact scores, none below the threshold, which is positive *)
(* only when the heap is full (HeapFine).  When the loop has ended, no      *)
(* cursor is a pivot (NoPivot).                                             *)
(*                                                                         *)
(* The steps rest on three kinds of facts.  A sum over finitely many terms  *)
(* does not depend on the order and grows with its terms (SumBound).  A     *)
(* block's last document and largest weight bound those of its postings     *)
(* (FinalizedBlocks), so that a skip passes only documents before its       *)
(* target (SkipIs, SkipHops).  And the sums of the terms' or blocks' maxima *)
(* bound the score of what they are taken for (TermsBound, BlocksBound).    *)
(*                                                                         *)
(* DocGraph, for any number of documents, any links and likenesses: a       *)
(* label never leaves the component it started in, and a round that changes *)
(* nothing leaves every document with the label its neighbours vote for     *)
(* (SettledTo); what a query's seeds reach stays in their components.       *)
(*                                                                         *)
(* Splade, for any corpus and any default decay: the index is built from    *)
(* the corpus alone (Faithful), a blob keeps every part of it but the       *)
(* inverted lists, and those are the transpose of what it keeps.            *)
(*                                                                         *)
(* Raptor, for any chunks, cluster size and reach: the clusters of a level  *)
(* divide its positions (Clustered), the ids of the new nodes follow those  *)
(* there are (IdsAre, GrownIs), and so the leaves under a node of the next  *)
(* level are those under its cluster (NextLeaves).                          *)
(*                                                                         *)
(* Strategies, for any chunks, scores and requests, whatever fails: the     *)
(* pool of a cascade has different chunks within reach, and is as long as   *)
(* the stages that worked leave it (PoolOk); every search, sort, selection  *)
(* and fusion keeps lists without repetition (Once).                        *)
(*                                                                         *)
(* The predicates take the variables' values as arguments, so that what is  *)
(* said of the cursors or nodes before a step and after it is one           *)
(* definition.                                                              *)
(***************************************************************************)
EXTENDS Wand, DocGraph, Splade, Raptor, Strategies, Orders_proofs

-----------------------------------------------------------------------------
(* Postings, their blocks and the hops over them.                          *)

\* The list of a set of numbers has each of them once, in order.
Ascends(S, a) ==
    /\ a \in [1 .. Cardinality(S) -> S]
    /\ \A i, j \in 1 .. Cardinality(S) : i < j => a[i] < a[j]
    /\ \A d \in S : \E i \in 1 .. Cardinality(S) : a[i] = d

LEMMA AscendingIs ==
    ASSUME NEW S \in SUBSET Nat, IsFiniteSet(S)
    PROVE  Ascends(S, Ascending(S))
<1> DEFINE n == Cardinality(S)
           upto(d) == {e \in S : e <= d}
           rank == [d \in S |-> Cardinality(upto(d))]
           a == Ascending(S)
<1>0. n \in Nat
  BY FS_CardinalityType
<1>1. \A d \in S : upto(d) \in SUBSET S /\ IsFiniteSet(upto(d)) /\ Cardinality(upto(d)) \in Nat
  BY FS_Subset, FS_CardinalityType
<1>2. \A d \in S : rank[d] \in 1 .. n
  <2> TAKE d \in S
  <2>1. Cardinality(upto(d)) <= n
    BY <1>1, FS_Subset
  <2>2. d \in upto(d)
    OBVIOUS
  <2>3. Cardinality(upto(d)) # 0
    BY <1>1, <2>2, FS_EmptySet
  <2> QED BY <1>0, <1>1, <2>1, <2>3
<1>3. \A d, e \in S : d < e => rank[d] < rank[e]
  <2> SUFFICES ASSUME NEW d \in S, NEW e \in S, d < e
               PROVE  Cardinality(upto(d)) < Cardinality(upto(e))
    OBVIOUS
  <2>0. d \in Nat /\ e \in Nat /\ \A x \in S : x \in Nat /\ (x <= d => x <= e)
    OBVIOUS
  <2>1. upto(d) \in SUBSET upto(e) /\ e \in upto(e) /\ e \notin upto(d)
    <3>1. \A x \in upto(d) : x \in upto(e)
      BY <2>0
    <3>2. e \in upto(e) /\ e \notin upto(d)
      BY <2>0
    <3> QED BY <3>1, <3>2
  <2>2. Cardinality(upto(d)) <= Cardinality(upto(e)) /\ Cardinality(upto(d)) # Cardinality(upto(e))
    <3>1. upto(d) # upto(e)
      BY <2>1
    <3> HIDE DEF upto
    <3> QED BY <1>1, <2>1, <3>1, FS_Subset
  <2> QED BY <1>1, <2>2
<1>4. \A d, e \in S : rank[d] = rank[e] => d = e
  <2> SUFFICES ASSUME NEW d \in S, NEW e \in S, rank[d] = rank[e], d # e PROVE FALSE
    OBVIOUS
  <2>1. d < e \/ e < d
    OBVIOUS
  <2>2. rank[d] \in Nat /\ rank[e] \in Nat
    BY <1>1
  <2> HIDE DEF rank
  <2> QED BY <1>3, <2>1, <2>2
<1>5. rank \in Injection(S, 1 .. n)
  <2>1. rank \in [S -> 1 .. n]
    BY <1>2
  <2>2. DOMAIN rank = S
    OBVIOUS
  <2> HIDE DEF rank
  <2> QED BY <1>4, <2>1, <2>2 DEF Injection, IsInjective
<1>6. \A i \in 1 .. n : \E d \in S : rank[d] = i
  <2>1. IsFiniteSet(1 .. n) /\ Cardinality(1 .. n) = n
    BY <1>0, FS_Interval
  <2>2. rank \in Surjection(S, 1 .. n)
    <3> HIDE DEF rank
    <3> QED BY <1>5, <2>1, FS_Injection
  <2> HIDE DEF rank
  <2> QED BY <2>2 DEF Surjection
<1>7. \A i \in 1 .. n : a[i] \in S /\ rank[a[i]] = i
  <2> TAKE i \in 1 .. n
  <2>1. a[i] = CHOOSE d \in S : Cardinality(upto(d)) = i
    BY DEF Ascending
  <2>2. \E d \in S : Cardinality(upto(d)) = i
    BY <1>6
  <2>3. a[i] \in S /\ Cardinality(upto(a[i])) = i
    <3> HIDE DEF a, upto
    <3> QED BY <2>1, <2>2
  <2> HIDE DEF a
  <2> QED BY <2>3
<1>8. a = [i \in 1 .. n |-> a[i]]
  BY DEF Ascending
<1> HIDE DEF a, rank
<1>9. a \in [1 .. n -> S]
  BY <1>7, <1>8
<1>10. \A i, j \in 1 .. n : i < j => a[i] < a[j]
  <2> SUFFICES ASSUME NEW i \in 1 .. n, NEW j \in 1 .. n, i < j, ~(a[i] < a[j]) PROVE FALSE
    OBVIOUS
  <2>1. a[i] \in Nat /\ a[j] \in Nat /\ a[i] \in S /\ a[j] \in S
    BY <1>7
  <2>2. a[j] < a[i] \/ a[j] = a[i]
    BY <2>1
  <2>3. rank[a[i]] = i /\ rank[a[j]] = j
    BY <1>7
  <2> QED BY <1>3, <2>1, <2>2, <2>3
<1>11. \A d \in S : \E i \in 1 .. n : a[i] = d
  BY <1>2, <1>4, <1>7
<1> QED BY <1>9, <1>10, <1>11 DEF Ascends, a

\* A quotient is the last multiple not beyond the number.
LEMMA Quotient ==
    ASSUME NEW r \in Nat, NEW B \in Nat \ {0}
    PROVE  /\ r \div B \in Nat
           /\ (r \div B) * B <= r /\ r < (r \div B) * B + B
OBVIOUS

\* A multiple of more is more.
LEMMA TimesMonotone ==
    ASSUME NEW x \in Int, NEW y \in Int, x <= y, NEW B \in Nat
    PROVE  x * B <= y * B
OBVIOUS

\* The block of the i-th posting starts before it and does not end before it.
LEMMA BlockOfIs ==
    ASSUME NEW i \in Nat \ {0}
    PROVE  /\ BlockOf(i) \in Nat \ {0}
           /\ (BlockOf(i) - 1) * BlockSize < i
           /\ i <= (BlockOf(i) - 1) * BlockSize + BlockSize
<1>1. BlockSize \in Nat \ {0} /\ i - 1 \in Nat
  BY WandAssumption
<1> DEFINE q == (i - 1) \div BlockSize
<1>2. q \in Nat /\ q * BlockSize <= i - 1 /\ i - 1 < q * BlockSize + BlockSize
  BY <1>1, Quotient
<1>3. BlockOf(i) = 1 + q
  BY DEF BlockOf
<1> HIDE DEF q
<1>4. BlockOf(i) - 1 = q
  BY <1>2, <1>3
<1>5. q * BlockSize \in Nat
  BY <1>1, <1>2
<1> DEFINE qb == q * BlockSize
<1>6. qb < i /\ i <= qb + BlockSize
  <2> HIDE DEF qb
  <2> QED BY <1>1, <1>2, <1>5 DEF qb
<1> QED BY <1>2, <1>3, <1>4, <1>6

\* What is before the start of block b is in a block before it.
LEMMA BlockBefore ==
    ASSUME NEW i \in Nat \ {0}, NEW b \in Nat \ {0}, i <= (b - 1) * BlockSize
    PROVE  BlockOf(i) < b
<1>1. BlockSize \in Nat \ {0}
  BY WandAssumption
<1>2. BlockOf(i) \in Nat \ {0} /\ (BlockOf(i) - 1) * BlockSize < i
  BY BlockOfIs
<1> SUFFICES ASSUME b <= BlockOf(i) PROVE FALSE
  BY <1>2
<1>3. (b - 1) * BlockSize <= (BlockOf(i) - 1) * BlockSize
  BY <1>1, <1>2, TimesMonotone
<1>4. (b - 1) * BlockSize \in Nat /\ (BlockOf(i) - 1) * BlockSize \in Nat
  BY <1>1, <1>2
<1> QED BY <1>2, <1>3, <1>4

\* And what is past the start of block b is not in a block before it.
LEMMA BlockAfter ==
    ASSUME NEW i \in Nat \ {0}, NEW b \in Nat \ {0}, (b - 1) * BlockSize < i
    PROVE  b <= BlockOf(i)
<1>1. BlockSize \in Nat \ {0}
  BY WandAssumption
<1>2. BlockOf(i) \in Nat \ {0} /\ i <= (BlockOf(i) - 1) * BlockSize + BlockSize
  BY BlockOfIs
<1> SUFFICES ASSUME BlockOf(i) <= b - 1 PROVE FALSE
  BY <1>2
<1>3. BlockOf(i) * BlockSize <= (b - 1) * BlockSize
  BY <1>1, <1>2, TimesMonotone
<1>4. (BlockOf(i) - 1) * BlockSize + BlockSize = BlockOf(i) * BlockSize
  BY <1>1, <1>2
<1>5. (b - 1) * BlockSize \in Nat /\ BlockOf(i) * BlockSize \in Nat
  BY <1>1, <1>2
<1> QED BY <1>2, <1>3, <1>4, <1>5

\* A later posting is in the same block or a later one.
LEMMA BlockMonotone ==
    ASSUME NEW i \in Nat \ {0}, NEW j \in Nat \ {0}, i <= j
    PROVE  BlockOf(i) <= BlockOf(j)
<1>1. BlockOf(i) \in Nat \ {0} /\ (BlockOf(i) - 1) * BlockSize < i
  BY BlockOfIs
<1>2. BlockSize \in Nat
  BY WandAssumption
<1>3. (BlockOf(i) - 1) * BlockSize \in Nat
  BY <1>1, <1>2
<1>4. (BlockOf(i) - 1) * BlockSize < j
  BY <1>1, <1>3
<1> QED BY <1>1, <1>4, BlockAfter

\* Every block up to that of the n-th posting has a posting.
LEMMA BlockHasOne ==
    ASSUME NEW n \in Nat \ {0}, NEW b \in 1 .. BlockOf(n)
    PROVE  \E i \in 1 .. n : BlockOf(i) = b
<1> DEFINE i == (b - 1) * BlockSize + 1
<1>0. BlockSize \in Nat \ {0} /\ b \in Nat \ {0} /\ b <= BlockOf(n) /\ BlockOf(n) \in Nat \ {0}
  BY WandAssumption, BlockOfIs
<1>1. (b - 1) * BlockSize \in Nat
  BY <1>0
<1>2. i \in Nat \ {0} /\ (b - 1) * BlockSize < i
  BY <1>1
<1>3. i \in 1 .. n
  <2>1. (b - 1) * BlockSize <= (BlockOf(n) - 1) * BlockSize
    BY <1>0, TimesMonotone
  <2>2. (BlockOf(n) - 1) * BlockSize < n
    BY BlockOfIs
  <2>3. (BlockOf(n) - 1) * BlockSize \in Nat
    BY <1>0
  <2> QED BY <1>1, <2>1, <2>2, <2>3
<1>4. b <= BlockOf(i)
  <2> HIDE DEF i
  <2> QED BY <1>0, <1>2, BlockAfter
<1>5. BlockOf(i) < b + 1
  <2>1. i <= ((b + 1) - 1) * BlockSize
    <3>1. (b + 1) - 1 = b /\ b * BlockSize = (b - 1) * BlockSize + BlockSize
      BY <1>0
    <3> QED BY <1>0, <1>1, <3>1
  <2> HIDE DEF i
  <2> QED BY <1>0, <1>2, <2>1, BlockBefore
<1>6. BlockOf(i) \in Nat
  <2> HIDE DEF i
  <2> QED BY <1>2, BlockOfIs
<1> HIDE DEF i
<1>7. BlockOf(i) = b
  BY <1>0, <1>4, <1>5, <1>6
<1> QED BY <1>3, <1>7

\* The document at the i-th posting of p, the maximum of its weights, and that of its block.
PDoc(p, i) == IF i <= Len(p.docs) THEN p.docs[i] ELSE Exhausted
PMax(p) == Max({b.maxPw : b \in Range(p.blocks)})
MaxAt(p, i) == p.blocks[BlockOf(i)].maxPw

\* The postings p of a term that gives every document its weight w[d]: the list, and
\* what the blocks say of it.
ListOk(p, w) ==
    /\ Len(p.docs) \in Nat
    /\ \A i \in 1 .. Len(p.docs) : p.docs[i] \in WandDocs /\ w[p.docs[i]] > 0
    /\ \A i, j \in 1 .. Len(p.docs) : i < j => p.docs[i] < p.docs[j]
    /\ \A d \in WandDocs : w[d] > 0 => \E i \in 1 .. Len(p.docs) : p.docs[i] = d
BlocksOk(p, w) ==
    /\ DOMAIN p.blocks = 1 .. BlockOf(Len(p.docs))
    /\ \A i \in 1 .. Len(p.docs) :
          /\ p.blocks[BlockOf(i)].last \in Nat
          /\ p.docs[i] <= p.blocks[BlockOf(i)].last
          /\ MaxAt(p, i) \in Nat
          /\ w[p.docs[i]] <= MaxAt(p, i)
          /\ PMax(p) \in Nat
          /\ w[p.docs[i]] <= PMax(p)
PostingOk(p, w) == ListOk(p, w) /\ BlocksOk(p, w)

\* finalize() lists the documents with the term, in order.
LEMMA FinalizedList ==
    ASSUME NEW w \in [WandDocs -> Nat]
    PROVE  /\ ListOk(Finalized(w), w)
           /\ Len(Finalized(w).docs) = 0 => Finalized(w).docs = << >>
<1> DEFINE S == {d \in WandDocs : w[d] > 0}
           docs == Ascending(S)
           n == Cardinality(S)
<1>0. S \in SUBSET Nat /\ IsFiniteSet(S) /\ n \in Nat
  <2>1. S \in SUBSET WandDocs /\ WandDocs \in SUBSET Nat /\ IsFiniteSet(WandDocs)
    BY WandAssumption
  <2> HIDE DEF S
  <2>2. IsFiniteSet(S)
    BY <2>1, FS_Subset
  <2> QED BY <2>1, <2>2, FS_CardinalityType
<1>1. Ascends(S, docs)
  <2> HIDE DEF S
  <2> QED BY <1>0, AscendingIs
<1>2. Finalized(w).docs = docs
  BY DEF Finalized
<1> HIDE DEF docs
<1>3. docs \in [1 .. n -> S]
  BY <1>1 DEF Ascends
<1>4. Len(docs) = n
  <2> HIDE DEF S, n
  <2> QED BY <1>0, <1>3
<1>5. \A i, j \in 1 .. n : i < j => docs[i] < docs[j]
  BY <1>1 DEF Ascends
<1>6. \A d \in S : \E i \in 1 .. n : docs[i] = d
  BY <1>1 DEF Ascends
<1>7. \A d : d \in S <=> d \in WandDocs /\ w[d] > 0
  OBVIOUS
<1>8. n = 0 => docs = << >>
  <2>1. n = 0 => 1 .. n = {}
    BY <1>0
  <2> HIDE DEF S, n
  <2> QED BY <1>3, <2>1
<1> HIDE DEF S, n
<1>9. ListOk(Finalized(w), w)
  BY <1>0, <1>2, <1>3, <1>4, <1>5, <1>6, <1>7 DEF ListOk
<1> QED BY <1>2, <1>4, <1>8, <1>9

\* The last document and the largest weight of a block bound those of its postings.
LEMMA FinalizedBlocks ==
    ASSUME NEW w \in [WandDocs -> Nat]
    PROVE  BlocksOk(Finalized(w), w)
<1> DEFINE p == Finalized(w)
           docs == p.docs
           n == Len(docs)
           count == BlockOf(n)
           within(b) == {i \in DOMAIN docs : BlockOf(i) = b}
           values(b) == {w[docs[i]] : i \in within(b)}
           full == [b \in 1 .. count |-> [last |-> docs[Max(within(b))], maxPw |-> Max(values(b))]]
<1>1. ListOk(p, w) /\ (n = 0 => docs = << >>)
  BY FinalizedList
<1>2. docs = Ascending({d \in WandDocs : w[d] > 0})
  BY DEF Finalized
<1>3. p.blocks = IF docs = << >> THEN << >> ELSE full
  BY DEF Finalized
<1>4. n \in Nat /\ DOMAIN docs = 1 .. n
  <2>1. DOMAIN docs = 1 .. Cardinality({d \in WandDocs : w[d] > 0})
    BY <1>2 DEF Ascending
  <2>2. Cardinality({d \in WandDocs : w[d] > 0}) \in Nat
    <3>1. IsFiniteSet({d \in WandDocs : w[d] > 0})
      BY WandAssumption, FS_Subset
    <3> QED BY <3>1, FS_CardinalityType
  <2> HIDE DEF p
  <2> QED BY <1>1, <2>1, <2>2 DEF ListOk
<1> SUFFICES BlocksOk(p, w)
  OBVIOUS
<1> HIDE DEF p
<1>5. CASE n = 0
  <2>1. docs = << >> /\ p.blocks = << >>
    BY <1>1, <1>3, <1>5
  <2>2. BlockOf(0) = 0
    <3>1. BlockSize \in Nat \ {0}
      BY WandAssumption
    <3>2. (0 - 1) \div BlockSize = -1
      BY <3>1
    <3> QED BY <3>2 DEF BlockOf
  <2>3. 1 .. Len(p.docs) = {}
    BY <1>5
  <2>4. DOMAIN p.blocks = 1 .. BlockOf(Len(p.docs))
    BY <1>5, <2>1, <2>2
  <2> QED BY <2>3, <2>4 DEF BlocksOk
<1>6. CASE n # 0
  <2>1. p.blocks = full /\ n \in Nat \ {0} /\ count \in Nat
    <3>1. docs # << >>
      BY <1>6
    <3>2. n \in Nat \ {0}
      BY <1>4, <1>6
    <3> HIDE DEF full, docs, n
    <3> QED BY <1>3, <3>1, <3>2, BlockOfIs
  <2>2. DOMAIN p.blocks = 1 .. BlockOf(Len(p.docs))
    BY <2>1
  <2>3. \A b \in 1 .. count : /\ p.blocks[b].last = docs[Max(within(b))]
                              /\ p.blocks[b].maxPw = Max(values(b))
    BY <2>1
  <2>4. \A b \in 1 .. count : \E i \in 1 .. n : BlockOf(i) = b
    BY <2>1, BlockHasOne
  <2>5. \A i \in 1 .. n : BlockOf(i) \in 1 .. count
    <3> TAKE i \in 1 .. n
    <3>1. i \in Nat \ {0} /\ n \in Nat \ {0} /\ i <= n
      BY <2>1
    <3> HIDE DEF n
    <3>2. BlockOf(i) \in Nat \ {0} /\ BlockOf(i) <= BlockOf(n) /\ BlockOf(n) \in Nat
      BY <3>1, BlockOfIs, BlockMonotone
    <3> QED BY <3>2
  <2>6. \A b \in 1 .. count : Max(within(b)) \in within(b) /\ \A i \in within(b) : i <= Max(within(b))
    <3> TAKE b \in 1 .. count
    <3>1. within(b) \in SUBSET Nat /\ within(b) # {} /\ n \in Nat /\ \A i \in within(b) : i <= n
      BY <1>4, <2>1, <2>4
    <3> HIDE DEF within, n
    <3> QED BY <3>1, GreatestIs
  <2>7. \A i \in 1 .. n : docs[i] \in WandDocs /\ docs[i] \in Nat /\ w[docs[i]] \in Nat
    BY <1>1, WandAssumption DEF ListOk
  <2>8. \A b \in 1 .. count : Max(values(b)) \in values(b) /\ \A x \in values(b) : x <= Max(values(b))
    <3> TAKE b \in 1 .. count
    <3>1. values(b) \in SUBSET Nat /\ values(b) # {}
      <4>1. \A i \in within(b) : w[docs[i]] \in Nat
        BY <1>4, <2>7
      <4>2. PICK i \in within(b) : TRUE
        BY <1>4, <2>4
      <4>3. w[docs[i]] \in values(b)
        OBVIOUS
      <4> HIDE DEF within, docs
      <4> QED BY <4>1, <4>3
    <3>2. IsFiniteSet(values(b))
      <4>1. IsFiniteSet(within(b))
        <5>1. within(b) \in SUBSET (1 .. n) /\ IsFiniteSet(1 .. n)
          BY <1>4, FS_Interval
        <5> HIDE DEF within
        <5> QED BY <5>1, FS_Subset
      <4> DEFINE f == [i \in within(b) |-> w[docs[i]]]
      <4>2. f \in Surjection(within(b), values(b))
        BY DEF Surjection
      <4> HIDE DEF within, values, f
      <4> QED BY <4>1, <4>2, FS_Surjection
    <3> HIDE DEF values
    <3> QED BY <3>1, <3>2, FiniteMax
  <2>9. \A b \in 1 .. count : p.blocks[b].maxPw \in Nat
    <3> TAKE b \in 1 .. count
    <3>1. values(b) \in SUBSET Nat
      BY <1>4, <2>7
    <3> HIDE DEF values
    <3> QED BY <2>3, <2>8, <3>1
  <2>10. /\ PMax(p) \in Nat
         /\ \A b \in 1 .. count : p.blocks[b].maxPw <= PMax(p)
    <3> DEFINE M == {b.maxPw : b \in Range(p.blocks)}
    <3>1. \A x : x \in M <=> \E b \in 1 .. count : x = p.blocks[b].maxPw
      BY <2>2 DEF Range
    <3>2. M \in SUBSET Nat
      BY <2>9, <3>1
    <3>3. M # {}
      <4>1. 1 \in 1 .. count
        <5>1. 1 \in 1 .. n
          BY <2>1
        <5>2. BlockOf(1) \in 1 .. count
          BY <2>5, <5>1
        <5> QED BY <2>1, <5>2
      <4> QED BY <3>1, <4>1
    <3>4. IsFiniteSet(M)
      <4> DEFINE f == [b \in 1 .. count |-> p.blocks[b].maxPw]
      <4>1. \A b \in 1 .. count : f[b] \in M
        BY <3>1
      <4>2. \A x \in M : \E b \in 1 .. count : f[b] = x
        BY <3>1
      <4>3. f \in Surjection(1 .. count, M)
        <5>1. f \in [1 .. count -> M]
          <6> HIDE DEF M
          <6> QED BY <4>1
        <5> HIDE DEF f, M
        <5> QED BY <4>2, <5>1 DEF Surjection
      <4>4. IsFiniteSet(1 .. count)
        BY <2>1, FS_Interval
      <4> HIDE DEF f, M
      <4> QED BY <4>3, <4>4, FS_Surjection
    <3>5. PMax(p) = Max(M)
      BY DEF PMax
    <3> HIDE DEF M
    <3>6. Max(M) \in M /\ \A x \in M : x <= Max(M)
      BY <3>2, <3>3, <3>4, FiniteMax
    <3> QED BY <3>1, <3>2, <3>5, <3>6
  <2>11. ASSUME NEW i \in 1 .. n
         PROVE  /\ p.blocks[BlockOf(i)].last \in Nat
                /\ docs[i] <= p.blocks[BlockOf(i)].last
                /\ MaxAt(p, i) \in Nat /\ w[docs[i]] <= MaxAt(p, i)
                /\ PMax(p) \in Nat /\ w[docs[i]] <= PMax(p)
    <3> DEFINE b == BlockOf(i)
               m == Max(within(b))
    <3>1. b \in 1 .. count /\ i \in within(b) /\ w[docs[i]] \in values(b)
      BY <1>4, <2>5
    <3>2. m \in 1 .. n /\ i <= m
      <4>1. m \in within(b) /\ i <= m
        <5> HIDE DEF within
        <5> QED BY <2>6, <3>1
      <4>2. within(b) \in SUBSET (1 .. n)
        BY <1>4
      <4> HIDE DEF within, m
      <4> QED BY <4>1, <4>2
    <3>3. p.blocks[b].last = docs[m] /\ p.blocks[b].maxPw = Max(values(b))
      <4> HIDE DEF within, values, b
      <4> QED BY <2>3, <3>1
    <3> HIDE DEF m
    <3>4. docs[m] \in Nat /\ docs[i] \in Nat /\ w[docs[i]] \in Nat
      BY <2>7, <3>2
    <3>5. docs[i] <= docs[m]
      <4>1. i = m \/ i < m
        BY <1>4, <3>2
      <4>2. i < m => docs[i] < docs[m]
        BY <1>1, <3>2 DEF ListOk
      <4> QED BY <3>4, <4>1, <4>2
    <3>6. w[docs[i]] <= Max(values(b))
      <4> HIDE DEF values, b
      <4> QED BY <2>8, <3>1
    <3>7. p.blocks[b].maxPw \in Nat /\ p.blocks[b].maxPw <= PMax(p) /\ PMax(p) \in Nat
      <4> HIDE DEF b
      <4> QED BY <2>9, <2>10, <3>1
    <3>8. MaxAt(p, i) = p.blocks[b].maxPw
      BY DEF MaxAt
    <3>9. w[docs[i]] <= MaxAt(p, i)
      <4> HIDE DEF values, b
      <4> QED BY <3>3, <3>6, <3>8
    <3>10. w[docs[i]] <= PMax(p)
      <4> DEFINE x == w[docs[i]]
                 y == p.blocks[b].maxPw
      <4>1. x \in Nat /\ y \in Nat /\ x <= y /\ y <= PMax(p) /\ PMax(p) \in Nat
        BY <3>4, <3>7, <3>8, <3>9
      <4> HIDE DEF x, y
      <4>2. x <= PMax(p)
        BY <4>1
      <4> QED BY <4>2 DEF x
    <3> QED BY <3>3, <3>4, <3>5, <3>7, <3>8, <3>9, <3>10
  <2> QED BY <2>2, <2>11 DEF BlocksOk
<1> QED BY <1>5, <1>6

\* The mark of a spent cursor is beyond every document.
LEMMA ExhaustedIs ==
    Exhausted \in Nat /\ \A d \in WandDocs : d \in Nat /\ d < Exhausted
<1> DEFINE S == WandDocs \cup {0}
<1>1. S \in SUBSET Nat /\ S # {} /\ IsFiniteSet(S)
  BY WandAssumption, FS_AddElement
<1>2. Max(S) \in S /\ \A y \in S : y <= Max(S)
  <2> HIDE DEF S
  <2> QED BY <1>1, FiniteMax
<1>3. Exhausted = 1 + Max(S)
  BY DEF Exhausted
<1>4. Max(S) \in Nat
  <2> HIDE DEF S
  <2> QED BY <1>1, <1>2
<1>5. \A d \in WandDocs : d \in Nat /\ d <= Max(S)
  BY <1>2, WandAssumption
<1> HIDE DEF S
<1> QED BY <1>3, <1>4, <1>5

\* Where the cursor is, and what the maxima say of the document there.
LEMMA DocIs ==
    ASSUME NEW p, NEW w, PostingOk(p, w), NEW i \in 1 .. Len(p.docs) + 1
    PROVE  /\ PDoc(p, i) \in Nat /\ PDoc(p, i) <= Exhausted
           /\ PDoc(p, i) # Exhausted =>
                 /\ i \in 1 .. Len(p.docs) /\ PDoc(p, i) = p.docs[i]
                 /\ PDoc(p, i) \in WandDocs /\ w[PDoc(p, i)] > 0
                 /\ MaxAt(p, i) \in Nat /\ w[PDoc(p, i)] <= MaxAt(p, i)
                 /\ PMax(p) \in Nat
<1>1. Len(p.docs) \in Nat /\ \A j \in 1 .. Len(p.docs) : p.docs[j] \in WandDocs /\ w[p.docs[j]] > 0
  BY DEF PostingOk, ListOk
<1>2. \A j \in 1 .. Len(p.docs) : /\ MaxAt(p, j) \in Nat /\ w[p.docs[j]] <= MaxAt(p, j)
                                  /\ PMax(p) \in Nat
  BY DEF PostingOk, BlocksOk
<1>3. CASE i \in 1 .. Len(p.docs)
  <2>1. PDoc(p, i) = p.docs[i] /\ p.docs[i] \in WandDocs
    BY <1>1, <1>3 DEF PDoc
  <2> QED BY <1>1, <1>2, <1>3, <2>1, ExhaustedIs
<1>4. CASE i \notin 1 .. Len(p.docs)
  <2>1. PDoc(p, i) = Exhausted
    BY <1>1, <1>4 DEF PDoc
  <2> QED BY <2>1, ExhaustedIs
<1> QED BY <1>3, <1>4

\* A later cursor is at a later document.
LEMMA DocMonotone ==
    ASSUME NEW p, NEW w, PostingOk(p, w),
           NEW i \in 1 .. Len(p.docs) + 1, NEW j \in 1 .. Len(p.docs) + 1, i < j
    PROVE  PDoc(p, i) < PDoc(p, j)
<1>1. /\ Len(p.docs) \in Nat
      /\ \A a \in 1 .. Len(p.docs) : p.docs[a] \in WandDocs
      /\ \A a, b \in 1 .. Len(p.docs) : a < b => p.docs[a] < p.docs[b]
  BY DEF PostingOk, ListOk
<1>2. i \in 1 .. Len(p.docs) /\ PDoc(p, i) = p.docs[i]
  BY <1>1 DEF PDoc
<1>3. CASE j \in 1 .. Len(p.docs)
  BY <1>1, <1>2, <1>3 DEF PDoc
<1>4. CASE j \notin 1 .. Len(p.docs)
  <2>1. PDoc(p, j) = Exhausted
    BY <1>1, <1>4 DEF PDoc
  <2> QED BY <1>1, <1>2, <2>1, ExhaustedIs
<1> QED BY <1>3, <1>4

\* skip_to leaves the cursor at the first posting from where it was that is not before the
\* target: the blocks it hops end before it.
LEMMA SkipIs ==
    ASSUME NEW t, NEW w, PostingOk(postings[t], w),
           NEW i \in 1 .. Spent(t), NEW target \in Nat, target <= Exhausted
    PROVE  /\ SkipTo(t, i, target) \in 1 .. Spent(t)
           /\ i <= SkipTo(t, i, target)
           /\ target <= DocOf(t, SkipTo(t, i, target))
           /\ \A j \in 1 .. Spent(t) : i <= j /\ j < SkipTo(t, i, target) => DocOf(t, j) < target
<1> DEFINE p == postings[t]
           n == Len(p.docs)
           blocks == p.blocks
           ahead == {b \in DOMAIN blocks : b >= BlockOf(i) /\ blocks[b].last >= target}
           from == IF ahead = {} THEN Spent(t) ELSE Max({i, (Min(ahead) - 1) * BlockSize + 1})
           T == {j \in from .. Spent(t) : DocOf(t, j) >= target}
<1>1. n \in Nat /\ Spent(t) = n + 1 /\ i \in Nat \ {0} /\ i <= n + 1
  BY DEF PostingOk, ListOk, Spent
<1>2. \A j \in 1 .. Spent(t) : DocOf(t, j) = PDoc(p, j) /\ PDoc(p, j) \in Nat
  <2> TAKE j \in 1 .. Spent(t)
  <2>1. j \in 1 .. Len(p.docs) + 1
    BY <1>1
  <2> HIDE DEF p
  <2>2. PDoc(p, j) \in Nat
    BY <2>1, DocIs DEF p
  <2> QED BY <2>2 DEF DocOf, PDoc, p
<1>3. CASE target <= DocOf(t, i)
  <2>1. SkipTo(t, i, target) = i
    BY <1>3 DEF SkipTo
  <2>2. \A j \in 1 .. Spent(t) : ~(i <= j /\ j < i)
    BY <1>1
  <2> QED BY <1>3, <2>1, <2>2
<1>4. CASE ~(target <= DocOf(t, i))
  <2>0. SkipTo(t, i, target) = Min(T)
    BY <1>4 DEF SkipTo
  <2>1. n # 0 /\ i \in 1 .. n
    <3>1. i # n + 1
      <4> SUFFICES ASSUME i = n + 1 PROVE FALSE
        OBVIOUS
      <4>1. DocOf(t, i) = Exhausted
        BY <1>1 DEF DocOf
      <4> QED BY <1>4, <4>1, ExhaustedIs
    <3> QED BY <1>1, <3>1
  <2>2. DOMAIN blocks = 1 .. BlockOf(n) /\ BlockOf(n) \in Nat
    <3>1. n \in Nat \ {0}
      BY <1>1, <2>1
    <3> HIDE DEF n
    <3> QED BY <3>1, BlockOfIs DEF PostingOk, BlocksOk, n
  <2>3. ASSUME NEW j \in 1 .. n, i <= j, ahead = {} \/ BlockOf(j) < Min(ahead)
        PROVE  DocOf(t, j) < target
    <3>1. BlockOf(j) \in DOMAIN blocks /\ BlockOf(j) >= BlockOf(i) /\ BlockOf(j) \in Nat
      <4>1. j \in Nat \ {0} /\ i \in Nat \ {0} /\ n \in Nat \ {0} /\ j <= n
        BY <1>1, <2>1
      <4> HIDE DEF n
      <4>2. /\ BlockOf(j) \in Nat \ {0} /\ BlockOf(j) <= BlockOf(n)
            /\ BlockOf(i) <= BlockOf(j) /\ BlockOf(i) \in Nat
        BY <2>3, <4>1, BlockOfIs, BlockMonotone
      <4> QED BY <2>2, <4>2
    <3>2. BlockOf(j) \notin ahead
      <4>1. \A b \in ahead : Min(ahead) <= b
        <5>1. ahead \in SUBSET Nat
          BY <2>2
        <5> HIDE DEF ahead
        <5> QED BY <5>1, LeastIs
      <4>2. ahead # {} => Min(ahead) \in Nat
        <5>1. ahead \in SUBSET Nat
          BY <2>2
        <5> HIDE DEF ahead
        <5> QED BY <5>1, LeastIs
      <4> HIDE DEF ahead
      <4> QED BY <2>3, <3>1, <4>1, <4>2
    <3>3. ~(blocks[BlockOf(j)].last >= target)
      BY <3>1, <3>2
    <3>4. blocks[BlockOf(j)].last \in Nat /\ p.docs[j] <= blocks[BlockOf(j)].last
      BY DEF PostingOk, BlocksOk
    <3>5. DocOf(t, j) = p.docs[j] /\ p.docs[j] \in Nat
      <4>1. j <= Len(p.docs) /\ j \in 1 .. Spent(t)
        BY <1>1
      <4> QED BY <1>2, <4>1 DEF DocOf
    <3> HIDE DEF p, blocks
    <3> QED BY <3>3, <3>4, <3>5
  <2>4. /\ from \in 1 .. Spent(t) \/ from \in Nat \ {0}
        /\ i <= from
        /\ \A j \in 1 .. n : i <= j /\ j < from => DocOf(t, j) < target
    <3>1. CASE ahead = {}
      <4>1. from = Spent(t)
        BY <3>1
      <4> HIDE DEF ahead, from
      <4> QED BY <1>1, <2>3, <3>1, <4>1
    <3>2. CASE ahead # {}
      <4> DEFINE b == Min(ahead)
                 x == (b - 1) * BlockSize
      <4>1. b \in ahead /\ b \in Nat \ {0}
        <5>1. ahead \in SUBSET (Nat \ {0}) /\ ahead \in SUBSET Nat
          BY <2>2
        <5> HIDE DEF ahead
        <5> QED BY <3>2, <5>1, LeastIs
      <4>2. from = Max({i, x + 1})
        BY <3>2
      <4> HIDE DEF from
      <4>3. x \in Nat
        <5> HIDE DEF b
        <5> QED BY <4>1, WandAssumption
      <4> DEFINE F == {i, x + 1}
      <4>4. from \in F /\ \A y \in F : y <= from
        <5>1. F \in SUBSET Nat /\ F # {} /\ IsFiniteSet(F)
          <6>1. IsFiniteSet({i}) /\ F = {i} \cup {x + 1}
            BY FS_Singleton
          <6>2. IsFiniteSet(F)
            <7> HIDE DEF F, x
            <7> QED BY <6>1, FS_AddElement
          <6> HIDE DEF x
          <6> QED BY <1>1, <4>3, <6>2
        <5>2. from = Max(F)
          BY <4>2
        <5> HIDE DEF F
        <5> QED BY <5>1, <5>2, FiniteMax
      <4>5. i <= from /\ (from = i \/ from = x + 1)
        BY <4>4
      <4> HIDE DEF F
      <4>6. ASSUME NEW j \in 1 .. n, i <= j, j < from PROVE DocOf(t, j) < target
        <5>1. from = x + 1 /\ j <= x /\ j \in Nat \ {0}
          <6> HIDE DEF x
          <6> QED BY <1>1, <4>3, <4>5, <4>6
        <5>2. BlockOf(j) < b
          <6> HIDE DEF b
          <6> QED BY <4>1, <5>1, BlockBefore
        <5> HIDE DEF ahead
        <5> QED BY <2>3, <4>6, <5>2
      <4>7. from \in Nat \ {0}
        <5> HIDE DEF x
        <5> QED BY <1>1, <4>3, <4>5
      <4> QED BY <4>5, <4>6, <4>7
    <3> QED BY <3>1, <3>2
  <2>5. from \in Nat \ {0}
    <3> HIDE DEF from
    <3> QED BY <2>4
  <2>6. from <= Spent(t)
    <3>1. CASE ahead = {}
      BY <1>1, <3>1
    <3>2. CASE ahead # {}
      <4> DEFINE b == Min(ahead)
                 x == (b - 1) * BlockSize
      <4>1. b \in 1 .. BlockOf(n)
        <5>1. ahead \in SUBSET (1 .. BlockOf(n)) /\ ahead \in SUBSET Nat
          BY <2>2
        <5> HIDE DEF ahead
        <5> QED BY <3>2, <5>1, LeastIs
      <4>2. x < n
        <5>1. n \in Nat \ {0} /\ b \in Nat \ {0} /\ b <= BlockOf(n) /\ BlockOf(n) \in Nat \ {0}
          <6>1. n \in Nat \ {0}
            BY <1>1, <2>1
          <6> HIDE DEF n, b
          <6> QED BY <4>1, <6>1, BlockOfIs
        <5> HIDE DEF n, b
        <5>2. (BlockOf(n) - 1) * BlockSize < n /\ x <= (BlockOf(n) - 1) * BlockSize
          <6>1. (BlockOf(n) - 1) * BlockSize < n
            BY <5>1, BlockOfIs
          <6>2. b - 1 \in Int /\ BlockOf(n) - 1 \in Int /\ b - 1 <= BlockOf(n) - 1 /\ BlockSize \in Nat
            BY <5>1, WandAssumption
          <6>3. x <= (BlockOf(n) - 1) * BlockSize
            BY <6>2, TimesMonotone
          <6> QED BY <6>1, <6>3
        <5>3. x \in Nat /\ (BlockOf(n) - 1) * BlockSize \in Nat
          BY <5>1, WandAssumption
        <5> HIDE DEF x
        <5> QED BY <5>1, <5>2, <5>3
      <4>3. x \in Nat
        <5> HIDE DEF b
        <5> QED BY <4>1, WandAssumption
      <4>4. from = Max({i, x + 1})
        BY <3>2
      <4> HIDE DEF from
      <4> DEFINE F == {i, x + 1}
      <4>5. from \in F
        <5>1. F \in SUBSET Nat /\ F # {} /\ IsFiniteSet(F)
          <6>1. IsFiniteSet({i}) /\ F = {i} \cup {x + 1}
            BY FS_Singleton
          <6>2. IsFiniteSet(F)
            <7> HIDE DEF F, x
            <7> QED BY <6>1, FS_AddElement
          <6> HIDE DEF x
          <6> QED BY <1>1, <4>3, <6>2
        <5>2. from = Max(F)
          BY <4>4
        <5> HIDE DEF F
        <5> QED BY <5>1, <5>2, FiniteMax
      <4> HIDE DEF x
      <4> QED BY <1>1, <4>2, <4>3, <4>5
    <3> QED BY <3>1, <3>2
  <2> HIDE DEF from
  <2>7. Spent(t) \in T
    <3>1. Spent(t) \in from .. Spent(t)
      BY <1>1, <2>5, <2>6
    <3>2. DocOf(t, Spent(t)) = Exhausted
      BY <1>1 DEF DocOf
    <3> QED BY <3>1, <3>2, ExhaustedIs
  <2>8. T \in SUBSET Nat /\ T # {}
    BY <1>1, <2>5, <2>7
  <2>9. Min(T) \in T /\ \A y \in T : Min(T) <= y
    <3> HIDE DEF T
    <3> QED BY <2>8, LeastIs
  <2> DEFINE r == Min(T)
  <2>10. r \in from .. Spent(t) /\ DocOf(t, r) >= target
    BY <2>9
  <2>11. r \in 1 .. Spent(t) /\ i <= r
    <3> HIDE DEF r
    <3> QED BY <1>1, <2>4, <2>5, <2>10
  <2>12. target <= DocOf(t, r)
    <3>1. DocOf(t, r) \in Nat
      <4> HIDE DEF r
      <4> QED BY <1>2, <2>11
    <3> QED BY <2>10, <3>1
  <2>13. ASSUME NEW j \in 1 .. Spent(t), i <= j, j < r PROVE DocOf(t, j) < target
    <3>1. j \in 1 .. n
      <4> HIDE DEF r
      <4> QED BY <1>1, <2>11, <2>13
    <3>2. CASE j < from
      BY <2>4, <2>13, <3>1, <3>2
    <3>3. CASE ~(j < from)
      <4>1. j \in from .. Spent(t)
        BY <1>1, <2>5, <3>3
      <4>2. j \notin T
        <5>1. j \in Nat /\ r \in Nat
          <6> HIDE DEF r
          <6> QED BY <1>1, <2>11
        <5> HIDE DEF T
        <5> QED BY <2>9, <2>13, <5>1
      <4>3. DocOf(t, j) \in Nat
        BY <1>2
      <4>4. ~(DocOf(t, j) >= target)
        BY <4>1, <4>2
      <4> QED BY <4>3, <4>4
    <3> QED BY <3>2, <3>3
  <2> HIDE DEF r
  <2> QED BY <2>0, <2>11, <2>12, <2>13 DEF r
<1> QED BY <1>3, <1>4

\* So it passes only documents before the target.
LEMMA SkipHops ==
    ASSUME NEW t, NEW w, PostingOk(postings[t], w),
           NEW i \in 1 .. Spent(t), NEW target \in Nat, target <= Exhausted,
           NEW r, r = SkipTo(t, i, target)
    PROVE  /\ r \in 1 .. Spent(t)
           /\ PDoc(postings[t], r) >= target
           /\ PDoc(postings[t], r) >= PDoc(postings[t], i)
           /\ \A d \in WandDocs : w[d] > 0 /\ PDoc(postings[t], i) <= d /\ PDoc(postings[t], r) > d
                 => d < target
<1> DEFINE p == postings[t]
<1>1. /\ r \in 1 .. Spent(t) /\ i <= r /\ target <= DocOf(t, r)
      /\ \A j \in 1 .. Spent(t) : i <= j /\ j < r => DocOf(t, j) < target
  BY SkipIs
<1>2. Spent(t) = Len(p.docs) + 1 /\ Len(p.docs) \in Nat
  BY DEF Spent, PostingOk, ListOk
<1>3. \A j \in 1 .. Spent(t) : DocOf(t, j) = PDoc(p, j)
  BY DEF DocOf, PDoc
<1>4. PostingOk(p, w)
  OBVIOUS
<1> HIDE DEF p
<1>5. \A j \in 1 .. Spent(t) : PDoc(p, j) \in Nat
  BY <1>2, <1>4, DocIs
<1>6. \A a, b \in 1 .. Spent(t) : a < b => PDoc(p, a) < PDoc(p, b)
  BY <1>2, <1>4, DocMonotone
<1>7. PDoc(p, r) >= target
  BY <1>1, <1>3, <1>5
<1>8. PDoc(p, r) >= PDoc(p, i)
  <2>1. i = r \/ i < r
    BY <1>1, <1>2
  <2> QED BY <1>1, <1>5, <1>6, <2>1
<1>9. ASSUME NEW d \in WandDocs, w[d] > 0, PDoc(p, i) <= d, PDoc(p, r) > d PROVE d < target
  <2>1. PICK j \in 1 .. Len(p.docs) : p.docs[j] = d
    BY <1>4, <1>9 DEF PostingOk, ListOk
  <2>2. j \in 1 .. Spent(t) /\ PDoc(p, j) = d
    BY <1>2, <2>1 DEF PDoc
  <2>3. ~(j < i)
    <3>1. j < i => PDoc(p, j) < PDoc(p, i)
      BY <1>6, <2>2
    <3> QED BY <1>5, <1>9, <2>2, <3>1
  <2>4. ~(r <= j)
    <3>1. r = j \/ r < j => PDoc(p, r) <= PDoc(p, j)
      BY <1>1, <1>5, <1>6, <2>2
    <3>2. r <= j => r = j \/ r < j
      BY <1>1, <1>2, <2>2
    <3> QED BY <1>1, <1>5, <1>9, <2>2, <3>1, <3>2
  <2>5. i <= j /\ j < r
    BY <1>1, <1>2, <2>2, <2>3, <2>4
  <2> QED BY <1>1, <1>3, <2>2, <2>5
<1> QED BY <1>1, <1>7, <1>8, <1>9 DEF p

-----------------------------------------------------------------------------
(* The bounds: W are the weights, P the postings, c the cursors, k what is *)
(* wanted, H the heap and th the threshold.                                *)

\* The terms at d and those not past it, the sums of their maxima, and the score of d.
At(P, c, d) == {t \in WandTerms : PDoc(P[t], c[t]) = d}
UpTo(P, c, d) == {t \in WandTerms : PDoc(P[t], c[t]) <= d}
BSum(P, c, d) == SumOf([t \in At(P, c, d) |-> MaxAt(P[t], c[t])])
TSum(P, c, d) == SumOf([t \in UpTo(P, c, d) |-> PMax(P[t])])
Whole(W, d) == SumOf([t \in WandTerms |-> W[t][d]])
Part(W, A, d) == SumOf([t \in A |-> W[t][d]])

CursorsOk(W, P, c) ==
    /\ W \in [WandTerms -> [WandDocs -> Nat]]
    /\ c \in [WandTerms -> Nat]
    /\ \A t \in WandTerms : PostingOk(P[t], W[t]) /\ c[t] \in 1 .. Len(P[t].docs) + 1

\* Some, or all, of the terms of d have passed it.
Behind(W, P, c, d) == \E t \in WandTerms : W[t][d] > 0 /\ PDoc(P[t], c[t]) > d
Clear(W, P, c, d) == \A t \in WandTerms : W[t][d] > 0 => PDoc(P[t], c[t]) > d

\* DocIs, for every term of a search.
LEMMA PlaceIs ==
    ASSUME NEW W, NEW P, NEW c, CursorsOk(W, P, c), NEW t \in WandTerms
    PROVE  /\ PDoc(P[t], c[t]) \in Nat
           /\ PDoc(P[t], c[t]) <= Exhausted
           /\ PDoc(P[t], c[t]) # Exhausted =>
                 /\ PDoc(P[t], c[t]) \in WandDocs
                 /\ W[t][PDoc(P[t], c[t])] > 0
                 /\ MaxAt(P[t], c[t]) \in Nat
                 /\ W[t][PDoc(P[t], c[t])] <= MaxAt(P[t], c[t])
                 /\ PMax(P[t]) \in Nat
                 /\ \A d \in WandDocs : W[t][d] <= PMax(P[t])
<1>1. PostingOk(P[t], W[t]) /\ c[t] \in 1 .. Len(P[t].docs) + 1
  BY DEF CursorsOk
<1>2. ASSUME NEW d \in WandDocs, PDoc(P[t], c[t]) # Exhausted PROVE W[t][d] <= PMax(P[t])
  <2>1. W[t][d] \in Nat /\ PMax(P[t]) \in Nat
    BY <1>1, <1>2, DocIs DEF CursorsOk
  <2>2. CASE W[t][d] > 0
    BY <1>1, <2>2 DEF PostingOk, ListOk, BlocksOk
  <2>3. CASE ~(W[t][d] > 0)
    BY <2>1, <2>3
  <2> QED BY <2>2, <2>3
<1> QED BY <1>1, <1>2, DocIs

\* The sums are over finitely many numbers.
LEMMA SumsAre ==
    ASSUME NEW W, NEW P, NEW c, CursorsOk(W, P, c), NEW d \in WandDocs
    PROVE  /\ IsFiniteSet(At(P, c, d)) /\ IsFiniteSet(UpTo(P, c, d))
           /\ [t \in At(P, c, d) |-> MaxAt(P[t], c[t])] \in [At(P, c, d) -> Nat]
           /\ [t \in UpTo(P, c, d) |-> PMax(P[t])] \in [UpTo(P, c, d) -> Nat]
           /\ [t \in WandTerms |-> W[t][d]] \in [WandTerms -> Nat]
           /\ IsFiniteSet(WandTerms)
<1>0. IsFiniteSet(WandTerms)
  BY WandAssumption
<1>1. At(P, c, d) \in SUBSET WandTerms /\ UpTo(P, c, d) \in SUBSET WandTerms
  BY DEF At, UpTo
<1>2. IsFiniteSet(At(P, c, d)) /\ IsFiniteSet(UpTo(P, c, d))
  BY <1>0, <1>1, FS_Subset
<1>3. d \in Nat /\ d < Exhausted /\ Exhausted \in Nat
  BY ExhaustedIs
<1>4. \A t \in At(P, c, d) : MaxAt(P[t], c[t]) \in Nat
  <2> TAKE t \in At(P, c, d)
  <2>1. t \in WandTerms /\ PDoc(P[t], c[t]) # Exhausted
    BY <1>3 DEF At
  <2> QED BY <2>1, PlaceIs
<1>5. \A t \in UpTo(P, c, d) : PMax(P[t]) \in Nat
  <2> TAKE t \in UpTo(P, c, d)
  <2>1. t \in WandTerms /\ PDoc(P[t], c[t]) # Exhausted
    BY <1>3 DEF UpTo
  <2> QED BY <2>1, PlaceIs
<1>6. \A t \in WandTerms : W[t][d] \in Nat
  BY DEF CursorsOk
<1> QED BY <1>0, <1>2, <1>4, <1>5, <1>6

\* The maxima of the blocks where the cursors are at d bound its score, if no cursor of
\* its terms is elsewhere; the sum of its terms' weights there is its score.
LEMMA BlocksBound ==
    ASSUME NEW W, NEW P, NEW c, CursorsOk(W, P, c), NEW d \in WandDocs,
           \A t \in WandTerms : W[t][d] > 0 => PDoc(P[t], c[t]) = d
    PROVE  /\ Whole(W, d) \in Nat /\ BSum(P, c, d) \in Nat
           /\ Whole(W, d) <= BSum(P, c, d)
           /\ Part(W, At(P, c, d), d) = Whole(W, d)
<1> DEFINE A == At(P, c, d)
           u == [t \in A |-> MaxAt(P[t], c[t])]
           v == [t \in WandTerms |-> W[t][d]]
           x == [t \in A |-> W[t][d]]
<1>1. IsFiniteSet(A) /\ u \in [A -> Nat] /\ v \in [WandTerms -> Nat] /\ IsFiniteSet(WandTerms)
  BY SumsAre
<1>2. A \subseteq WandTerms /\ \A t \in WandTerms : t \notin A => W[t][d] = 0
  <2>1. \A t \in WandTerms : W[t][d] \in Nat
    BY DEF CursorsOk
  <2> QED BY <2>1 DEF At
<1>3. \A t \in A : W[t][d] <= MaxAt(P[t], c[t]) /\ W[t][d] \in Nat
  <2> TAKE t \in A
  <2>1. t \in WandTerms /\ PDoc(P[t], c[t]) = d /\ d # Exhausted
    BY ExhaustedIs DEF At
  <2> QED BY <2>1, PlaceIs DEF CursorsOk
<1>4. \A t \in WandTerms : v[t] = 0 \/ (t \in A /\ v[t] <= u[t])
  <2> HIDE DEF A
  <2> QED BY <1>2, <1>3
<1>5. x \in [A -> Nat]
  <2> HIDE DEF A
  <2> QED BY <1>3
<1>6. \A t \in A : x[t] = 0 \/ (t \in WandTerms /\ x[t] <= v[t])
  <2> HIDE DEF A
  <2> QED BY <1>2, <1>3
<1>7. \A t \in WandTerms : v[t] = 0 \/ (t \in A /\ v[t] <= x[t])
  <2> HIDE DEF A
  <2> QED BY <1>2, <1>3
<1>8. SumOf(u) = BSum(P, c, d) /\ SumOf(v) = Whole(W, d) /\ SumOf(x) = Part(W, A, d)
  BY DEF BSum, Whole, Part
<1> HIDE DEF u, v, x, A
<1>9. SumOf(v) \in Nat /\ SumOf(u) \in Nat /\ SumOf(v) <= SumOf(u)
  BY <1>1, <1>4, SumBound
<1>10. SumOf(v) <= SumOf(x) /\ SumOf(x) <= SumOf(v) /\ SumOf(x) \in Nat
  BY <1>1, <1>5, <1>6, <1>7, SumBound
<1> QED BY <1>8, <1>9, <1>10 DEF A

\* The terms' maxima up to document e bound the score of what has no term past e.
LEMMA TermsBound ==
    ASSUME NEW W, NEW P, NEW c, CursorsOk(W, P, c), NEW d \in WandDocs, NEW e \in WandDocs,
           \A t \in WandTerms : W[t][d] > 0 => PDoc(P[t], c[t]) <= e
    PROVE  Whole(W, d) \in Nat /\ TSum(P, c, e) \in Nat /\ Whole(W, d) <= TSum(P, c, e)
<1> DEFINE A == UpTo(P, c, e)
           u == [t \in A |-> PMax(P[t])]
           v == [t \in WandTerms |-> W[t][d]]
<1>1. IsFiniteSet(A) /\ u \in [A -> Nat] /\ v \in [WandTerms -> Nat] /\ IsFiniteSet(WandTerms)
  BY SumsAre
<1>2. \A t \in WandTerms : t \notin A => W[t][d] = 0
  <2>1. \A t \in WandTerms : W[t][d] \in Nat
    BY DEF CursorsOk
  <2> QED BY <2>1 DEF UpTo
<1>3. \A t \in A : W[t][d] <= PMax(P[t])
  <2> TAKE t \in A
  <2>1. t \in WandTerms /\ PDoc(P[t], c[t]) # Exhausted
    BY ExhaustedIs DEF UpTo
  <2> QED BY <2>1, PlaceIs
<1>4. \A t \in WandTerms : v[t] = 0 \/ (t \in A /\ v[t] <= u[t])
  <2> HIDE DEF A
  <2> QED BY <1>2, <1>3
<1>5. SumOf(u) = TSum(P, c, e) /\ SumOf(v) = Whole(W, d)
  BY DEF TSum, Whole
<1> HIDE DEF u, v, A
<1>6. SumOf(v) \in Nat /\ SumOf(u) \in Nat /\ SumOf(v) <= SumOf(u)
  BY <1>1, <1>4, SumBound
<1> QED BY <1>5, <1>6

\* A document with a term has a score.
LEMMA WholeIs ==
    ASSUME NEW W, NEW P, NEW c, CursorsOk(W, P, c), NEW d \in WandDocs
    PROVE  /\ Whole(W, d) \in Nat
           /\ Whole(W, d) > 0 <=> \E t \in WandTerms : W[t][d] > 0
<1> DEFINE v == [t \in WandTerms |-> W[t][d]]
           z == [t \in {} |-> 0]
<1>1. v \in [WandTerms -> Nat] /\ IsFiniteSet(WandTerms)
  BY SumsAre
<1>2. SumOf(v) = Whole(W, d)
  BY DEF Whole
<1>3. \A t \in WandTerms : v[t] = W[t][d] /\ W[t][d] \in Nat
  BY DEF CursorsOk
<1> HIDE DEF v
<1>4. SumOf(v) \in Nat
  BY <1>1, SumBound
<1>5. ASSUME NEW t \in WandTerms, W[t][d] > 0 PROVE SumOf(v) > 0
  <2>1. v[t] <= SumOf(v)
    BY <1>1, SumPart
  <2> QED BY <1>3, <1>4, <1>5, <2>1
<1>6. ASSUME ~(\E t \in WandTerms : W[t][d] > 0) PROVE SumOf(v) = 0
  <2>1. \A t \in WandTerms : v[t] = 0
    BY <1>3, <1>6
  <2>2. z \in [{} -> Nat] /\ IsFiniteSet({})
    BY FS_EmptySet
  <2> HIDE DEF z
  <2>3. SumOf(v) <= SumOf(z) /\ SumOf(z) \in Nat
    BY <1>1, <2>1, <2>2, SumBound
  <2>4. SumOf(z) = 0
    BY <2>2, SumNothing
  <2> QED BY <1>4, <2>3, <2>4
<1> QED BY <1>2, <1>4, <1>5, <1>6

-----------------------------------------------------------------------------
(* A step of the cursors.                                                  *)

\* The cursors go from c to c2: each stays or hops to the target T or past it, and passes
\* only documents before T; none is left behind T - 1.
Hop(W, P, c, c2, T) ==
    /\ CursorsOk(W, P, c2)
    /\ \A t \in WandTerms :
         /\ PDoc(P[t], c2[t]) >= PDoc(P[t], c[t])
         /\ PDoc(P[t], c2[t]) + 1 >= T
         /\ \A d \in WandDocs :
              W[t][d] > 0 /\ PDoc(P[t], c[t]) <= d /\ PDoc(P[t], c2[t]) > d => d < T

\* What is passed is all passed, or what remains of it cannot beat the threshold.
Fine(W, P, k, c, H, th, d) ==
    Behind(W, P, c, d) =>
        /\ \A t \in WandTerms : PDoc(P[t], c[t]) >= d
        /\ \/ \E h \in H : h.doc = d
           \/ Cardinality(H) = k /\ Whole(W, d) <= th /\ BSum(P, c, d) <= th

\* What a step passes first is before its target, and no cursor is left before it.
LEMMA HopBehind ==
    ASSUME NEW W, NEW P, NEW c, NEW c2, NEW T \in Nat, CursorsOk(W, P, c), Hop(W, P, c, c2, T),
           NEW d \in WandDocs, Behind(W, P, c2, d), ~Behind(W, P, c, d)
    PROVE  /\ d < T
           /\ \A t \in WandTerms : PDoc(P[t], c2[t]) >= d
           /\ \A t \in WandTerms : W[t][d] > 0 => PDoc(P[t], c[t]) <= d
<1>0. d \in Nat
  BY ExhaustedIs
<1>1. \A t \in WandTerms : PDoc(P[t], c[t]) \in Nat /\ PDoc(P[t], c2[t]) \in Nat
  BY PlaceIs DEF Hop
<1>2. \A t \in WandTerms : W[t][d] > 0 => PDoc(P[t], c[t]) <= d
  BY <1>0, <1>1 DEF Behind
<1>3. PICK t \in WandTerms : W[t][d] > 0 /\ PDoc(P[t], c2[t]) > d
  BY DEF Behind
<1>4. d < T
  BY <1>2, <1>3 DEF Hop
<1>5. \A u \in WandTerms : PDoc(P[u], c2[u]) + 1 >= T
  BY DEF Hop
<1>6. \A u \in WandTerms : PDoc(P[u], c2[u]) >= d
  BY <1>0, <1>1, <1>4, <1>5
<1> QED BY <1>2, <1>4, <1>6

\* A cursor that is at d after the step was there before it, if none was before d.
LEMMA HopStays ==
    ASSUME NEW W, NEW P, NEW c, NEW c2, NEW T, CursorsOk(W, P, c), Hop(W, P, c, c2, T),
           NEW d \in WandDocs, \A t \in WandTerms : PDoc(P[t], c[t]) >= d
    PROVE  /\ At(P, c2, d) \subseteq At(P, c, d)
           /\ \A t \in At(P, c2, d) : c2[t] = c[t]
<1> SUFFICES ASSUME NEW t \in WandTerms, PDoc(P[t], c2[t]) = d
             PROVE  PDoc(P[t], c[t]) = d /\ c2[t] = c[t]
  BY DEF At
<1>1. PDoc(P[t], c[t]) \in Nat /\ PDoc(P[t], c2[t]) >= PDoc(P[t], c[t]) /\ d \in Nat
  BY PlaceIs, ExhaustedIs DEF Hop
<1>2. PDoc(P[t], c[t]) = d
  BY <1>1
<1>3. /\ PostingOk(P[t], W[t]) /\ Len(P[t].docs) \in Nat
      /\ c[t] \in 1 .. Len(P[t].docs) + 1 /\ c2[t] \in 1 .. Len(P[t].docs) + 1
  BY DEF Hop, CursorsOk, PostingOk, ListOk
<1>4. ~(c[t] < c2[t]) /\ ~(c2[t] < c[t])
  <2>1. c[t] < c2[t] => d < d
    BY <1>2, <1>3, DocMonotone
  <2>2. c2[t] < c[t] => d < d
    BY <1>2, <1>3, DocMonotone
  <2> QED BY <1>1, <2>1, <2>2
<1>5. c2[t] = c[t]
  BY <1>3, <1>4
<1> QED BY <1>2, <1>5

\* So the blocks that remain for d only become fewer.
LEMMA HopSum ==
    ASSUME NEW W, NEW P, NEW c, NEW c2, NEW T, CursorsOk(W, P, c), Hop(W, P, c, c2, T),
           NEW d \in WandDocs, \A t \in WandTerms : PDoc(P[t], c[t]) >= d
    PROVE  /\ BSum(P, c2, d) \in Nat /\ BSum(P, c, d) \in Nat
           /\ BSum(P, c2, d) <= BSum(P, c, d)
<1> DEFINE A == At(P, c, d)
           B == At(P, c2, d)
           u == [t \in A |-> MaxAt(P[t], c[t])]
           v == [t \in B |-> MaxAt(P[t], c2[t])]
<1>1. IsFiniteSet(A) /\ u \in [A -> Nat]
  BY SumsAre
<1>2. IsFiniteSet(B) /\ v \in [B -> Nat]
  BY SumsAre DEF Hop
<1>3. B \subseteq A /\ \A t \in B : c2[t] = c[t]
  BY HopStays
<1>4. \A t \in B : t \in A /\ v[t] <= u[t]
  <2> TAKE t \in B
  <2>1. t \in A /\ v[t] = u[t] /\ u[t] \in Nat
    <3> HIDE DEF A, B
    <3>1. t \in A /\ c2[t] = c[t]
      BY <1>3
    <3>2. u[t] = MaxAt(P[t], c[t]) /\ v[t] = MaxAt(P[t], c2[t])
      BY <3>1
    <3> HIDE DEF u, v
    <3> QED BY <1>1, <3>1, <3>2
  <2> QED BY <2>1
<1>5. SumOf(u) = BSum(P, c, d) /\ SumOf(v) = BSum(P, c2, d)
  BY DEF BSum
<1> HIDE DEF u, v, A, B
<1>6. SumOf(v) \in Nat /\ SumOf(u) \in Nat /\ SumOf(v) <= SumOf(u)
  BY <1>1, <1>2, <1>4, SumBound
<1> QED BY <1>5, <1>6

\* Nothing remains of a document all of whose terms have passed it.
LEMMA ClearSum ==
    ASSUME NEW W, NEW P, NEW c, CursorsOk(W, P, c), NEW d \in WandDocs, Clear(W, P, c, d)
    PROVE  BSum(P, c, d) = 0
<1> DEFINE A == At(P, c, d)
           u == [t \in A |-> MaxAt(P[t], c[t])]
<1>1. u \in [A -> Nat]
  BY SumsAre
<1>2. A = {}
  <2> SUFFICES ASSUME NEW t \in WandTerms, PDoc(P[t], c[t]) = d PROVE FALSE
    BY DEF At
  <2>1. d # Exhausted /\ d \in Nat
    BY ExhaustedIs
  <2>2. W[t][d] > 0
    BY <2>1, PlaceIs
  <2>3. d > d
    BY <2>2 DEF Clear
  <2> QED BY <2>1, <2>3
<1>3. SumOf(u) = BSum(P, c, d)
  BY DEF BSum
<1> HIDE DEF u, A
<1> QED BY <1>1, <1>2, <1>3, SumNothing

\* A document all of whose terms have passed it stays so.
LEMMA HopClear ==
    ASSUME NEW W, NEW P, NEW c, NEW c2, NEW T, CursorsOk(W, P, c), Hop(W, P, c, c2, T),
           NEW d \in WandDocs, Clear(W, P, c, d)
    PROVE  Clear(W, P, c2, d)
<1> SUFFICES ASSUME NEW t \in WandTerms, W[t][d] > 0 PROVE PDoc(P[t], c2[t]) > d
  BY DEF Clear
<1>1. PDoc(P[t], c[t]) \in Nat /\ PDoc(P[t], c2[t]) \in Nat /\ d \in Nat
  BY PlaceIs, ExhaustedIs DEF Hop
<1>2. PDoc(P[t], c[t]) > d /\ PDoc(P[t], c2[t]) >= PDoc(P[t], c[t])
  BY DEF Clear, Hop
<1> QED BY <1>1, <1>2

-----------------------------------------------------------------------------
(* The invariant.                                                          *)

\* The heap holds exact scores, none below the threshold.
HeapFine(W, P, k, c, H, th) ==
    /\ H \in SUBSET [doc : WandDocs, score : Nat] /\ IsFiniteSet(H)
    /\ Cardinality(H) <= k
    /\ th > 0 => Cardinality(H) = k
    /\ k > 0 /\ Cardinality(H) = k => \E g \in H : g.score <= th
    /\ \A h \in H : h.score = Whole(W, h.doc) /\ Clear(W, P, c, h.doc) /\ th <= h.score

\* No cursor is one at which the terms' maxima beat the threshold.
NoPivot(P, c, th) ==
    \A u \in WandTerms : PDoc(P[u], c[u]) # Exhausted => TSum(P, c, PDoc(P[u], c[u])) <= th

Sound(W, P, k, c, H, th, pc) ==
    /\ CursorsOk(W, P, c) /\ k \in Nat /\ th \in Nat
    /\ HeapFine(W, P, k, c, H, th)
    /\ \A d \in WandDocs : Fine(W, P, k, c, H, th, d)
    /\ pc \in {"search", "done"}
    /\ pc = "search" => k > 0
    /\ pc = "done" => k = 0 \/ NoPivot(P, c, th)

WandInv == Sound(contrib, postings, want, cursor, heap, theta, wandPc)

\* A document up to which no cursor is a pivot, and none of whose terms is past it, has no
\* score that beats the threshold.
LEMMA NoPivotBound ==
    ASSUME NEW W, NEW P, NEW c, CursorsOk(W, P, c), NEW th \in Nat, NEW d \in WandDocs,
           \A t \in WandTerms : W[t][d] > 0 => PDoc(P[t], c[t]) <= d,
           \A u \in WandTerms : PDoc(P[u], c[u]) <= d => TSum(P, c, PDoc(P[u], c[u])) <= th
    PROVE  Whole(W, d) <= th
<1> DEFINE S == {PDoc(P[u], c[u]) : u \in UpTo(P, c, d)}
<1>0. d \in Nat /\ d < Exhausted
  BY ExhaustedIs
<1>1. \A u \in UpTo(P, c, d) : /\ u \in WandTerms
                               /\ PDoc(P[u], c[u]) \in Nat /\ PDoc(P[u], c[u]) <= d
  BY PlaceIs DEF UpTo
<1>2. CASE UpTo(P, c, d) = {}
  <2>1. \A t \in WandTerms : ~(W[t][d] > 0)
    BY <1>2 DEF UpTo
  <2>2. ~(Whole(W, d) > 0) /\ Whole(W, d) \in Nat
    BY <2>1, WholeIs
  <2> QED BY <2>2
<1>3. CASE UpTo(P, c, d) # {}
  <2>1. S # {} /\ S \in SUBSET Nat /\ \A x \in S : x <= d
    BY <1>1, <1>3
  <2>2. Max(S) \in S /\ \A y \in S : y <= Max(S)
    <3> HIDE DEF S
    <3> QED BY <1>0, <2>1, GreatestIs
  <2>3. PICK u \in UpTo(P, c, d) : Max(S) = PDoc(P[u], c[u])
    BY <2>2
  <2> DEFINE e == PDoc(P[u], c[u])
  <2>4. \A t \in UpTo(P, c, d) : PDoc(P[t], c[t]) <= e
    BY <2>2, <2>3
  <2>5. e \in WandDocs
    <3>1. u \in WandTerms /\ e # Exhausted
      BY <1>0, <1>1, ExhaustedIs
    <3> QED BY <3>1, PlaceIs
  <2>6. \A t \in WandTerms : W[t][d] > 0 => PDoc(P[t], c[t]) <= e
    BY <2>4 DEF UpTo
  <2>7. TSum(P, c, e) <= th
    BY <1>1
  <2> HIDE DEF e
  <2>8. Whole(W, d) \in Nat /\ TSum(P, c, e) \in Nat /\ Whole(W, d) <= TSum(P, c, e)
    BY <2>5, <2>6, TermsBound
  <2> QED BY <2>7, <2>8
<1> QED BY <1>2, <1>3

-----------------------------------------------------------------------------
(* The module's own words for the above.                                   *)

\* Where the cursors are.
LEMMA Words ==
    ASSUME CursorsOk(contrib, postings, cursor)
    PROVE  /\ \A t : Doc(t) = PDoc(postings[t], cursor[t])
           /\ \A t : t \in LiveTerms <=> t \in WandTerms /\ PDoc(postings[t], cursor[t]) # Exhausted
           /\ \A d \in WandDocs : {t \in LiveTerms : Doc(t) = d} = At(postings, cursor, d)
           /\ \A d \in WandDocs : {t \in LiveTerms : Doc(t) <= d} = UpTo(postings, cursor, d)
<1>1. \A t : Doc(t) = PDoc(postings[t], cursor[t])
  BY DEF Doc, DocOf, PDoc
<1>2. ASSUME NEW t \in WandTerms, PDoc(postings[t], cursor[t]) # Exhausted
      PROVE  t \in MatchedTerms
  <2>1. cursor[t] \in 1 .. Len(postings[t].docs)
    BY <1>2, DocIs DEF CursorsOk
  <2>2. postings[t].docs # << >>
    <3> SUFFICES ASSUME postings[t].docs = << >> PROVE FALSE
      OBVIOUS
    <3>1. Len(postings[t].docs) = 0
      OBVIOUS
    <3> QED BY <2>1, <3>1
  <2> QED BY <2>2 DEF MatchedTerms
<1>3. \A t : t \in LiveTerms <=> t \in WandTerms /\ PDoc(postings[t], cursor[t]) # Exhausted
  BY <1>1, <1>2 DEF LiveTerms, MatchedTerms
<1>4. \A t \in WandTerms : PDoc(postings[t], cursor[t]) \in Nat
  BY PlaceIs
<1>5. \A d \in WandDocs : {t \in LiveTerms : Doc(t) = d} = At(postings, cursor, d)
  <2> TAKE d \in WandDocs
  <2>1. d # Exhausted
    BY ExhaustedIs
  <2> QED BY <1>1, <1>3, <2>1 DEF At
<1>6. \A d \in WandDocs : {t \in LiveTerms : Doc(t) <= d} = UpTo(postings, cursor, d)
  <2> TAKE d \in WandDocs
  <2>1. \A t \in WandTerms : PDoc(postings[t], cursor[t]) <= d => PDoc(postings[t], cursor[t]) # Exhausted
    BY <1>4, ExhaustedIs
  <2> QED BY <1>1, <1>3, <2>1 DEF UpTo
<1> QED BY <1>1, <1>3, <1>5, <1>6

\* The sums of the module are those of the bounds.
LEMMA SumsInWords ==
    ASSUME CursorsOk(contrib, postings, cursor)
    PROVE  /\ \A d \in WandDocs : Exhaustive(d) = Whole(contrib, d)
           /\ \A d \in WandDocs :
                SumOver({v \in LiveTerms : Doc(v) <= d}, TermMax) = TSum(postings, cursor, d)
           /\ \A d \in WandDocs :
                SumOver({v \in LiveTerms : Doc(v) = d}, BlockMax) = BSum(postings, cursor, d)
<1>1. \A d \in WandDocs : Exhaustive(d) = Whole(contrib, d)
  BY DEF Exhaustive, Whole, SumOver
<1>2. ASSUME NEW d \in WandDocs
      PROVE  SumOver({v \in LiveTerms : Doc(v) <= d}, TermMax) = TSum(postings, cursor, d)
  <2>1. {v \in LiveTerms : Doc(v) <= d} = UpTo(postings, cursor, d)
    BY Words
  <2> DEFINE A == UpTo(postings, cursor, d)
  <2>2. SumOver(A, TermMax) = SumOf([t \in A |-> TermMax(t)])
    BY DEF SumOver
  <2>3. [t \in A |-> TermMax(t)] = [t \in A |-> PMax(postings[t])]
    BY DEF TermMax, PMax
  <2> QED BY <2>1, <2>2, <2>3 DEF TSum
<1>3. ASSUME NEW d \in WandDocs
      PROVE  SumOver({v \in LiveTerms : Doc(v) = d}, BlockMax) = BSum(postings, cursor, d)
  <2>1. {v \in LiveTerms : Doc(v) = d} = At(postings, cursor, d)
    BY Words
  <2> DEFINE A == At(postings, cursor, d)
  <2>2. SumOver(A, BlockMax) = SumOf([t \in A |-> BlockMax(t)])
    BY DEF SumOver
  <2>3. [t \in A |-> BlockMax(t)] = [t \in A |-> MaxAt(postings[t], cursor[t])]
    BY DEF BlockMax, MaxAt
  <2> QED BY <2>1, <2>2, <2>3 DEF BSum
<1> QED BY <1>1, <1>2, <1>3

\* The pivot documents are those where a cursor is and the terms' maxima beat the threshold.
LEMMA PivotsAre ==
    ASSUME CursorsOk(contrib, postings, cursor), NEW x
    PROVE  x \in PivotDocs <=>
             \E u \in WandTerms : /\ x = PDoc(postings[u], cursor[u]) /\ x \in WandDocs
                                  /\ x # Exhausted /\ TSum(postings, cursor, x) > theta
<1> DEFINE Over(u) == SumOver({v \in LiveTerms : Doc(v) <= Doc(u)}, TermMax)
<1>1. x \in PivotDocs <=> \E u \in LiveTerms : Over(u) > theta /\ x = Doc(u)
  BY DEF PivotDocs
<1>2. ASSUME NEW u \in LiveTerms
      PROVE  /\ u \in WandTerms /\ Doc(u) = PDoc(postings[u], cursor[u]) /\ Doc(u) # Exhausted
             /\ Doc(u) \in WandDocs /\ Over(u) = TSum(postings, cursor, Doc(u))
  <2>1. /\ u \in WandTerms /\ Doc(u) = PDoc(postings[u], cursor[u])
        /\ PDoc(postings[u], cursor[u]) # Exhausted
    BY Words
  <2>2. Doc(u) \in WandDocs
    BY <2>1, PlaceIs
  <2> QED BY <2>1, <2>2, SumsInWords
<1>3. \A u \in WandTerms : PDoc(postings[u], cursor[u]) # Exhausted => u \in LiveTerms
  BY Words
<1> HIDE DEF Over
<1> QED BY <1>1, <1>2, <1>3

\* No pivot document, no pivot.
LEMMA NoneAhead ==
    ASSUME CursorsOk(contrib, postings, cursor), theta \in Nat, NEW d \in Nat,
           \A x \in PivotDocs : d < x
    PROVE  \A u \in WandTerms :
              PDoc(postings[u], cursor[u]) # Exhausted /\ PDoc(postings[u], cursor[u]) <= d
                => TSum(postings, cursor, PDoc(postings[u], cursor[u])) <= theta
<1> SUFFICES ASSUME NEW u \in WandTerms, PDoc(postings[u], cursor[u]) # Exhausted,
                    PDoc(postings[u], cursor[u]) <= d,
                    ~(TSum(postings, cursor, PDoc(postings[u], cursor[u])) <= theta)
             PROVE  FALSE
  OBVIOUS
<1> DEFINE x == PDoc(postings[u], cursor[u])
<1>1. x \in WandDocs /\ x \in Nat
  BY PlaceIs
<1>2. TSum(postings, cursor, x) \in Nat
  <2> HIDE DEF x
  <2> DEFINE A == UpTo(postings, cursor, x)
             v == [t \in A |-> PMax(postings[t])]
  <2>1. IsFiniteSet(A) /\ v \in [A -> Nat]
    BY <1>1, SumsAre
  <2>2. TSum(postings, cursor, x) = SumOf(v)
    BY DEF TSum
  <2> HIDE DEF v, A
  <2>3. SumOf(v) \in Nat
    BY <2>1, SumBound
  <2> QED BY <2>2, <2>3
<1>3. TSum(postings, cursor, x) > theta
  <2> DEFINE s == TSum(postings, cursor, x)
  <2>1. s \in Nat /\ ~(s <= theta)
    BY <1>2
  <2> HIDE DEF s
  <2>2. s > theta
    BY <2>1
  <2> QED BY <2>2 DEF s
<1>4. x \in PivotDocs
  BY <1>1, <1>3, PivotsAre
<1> HIDE DEF x
<1>5. x <= d /\ d < x
  BY <1>4 DEF x
<1> QED BY <1>1, <1>5

-----------------------------------------------------------------------------
(* What the invariant says of the answers.                                 *)

\* A document that is decided and no result was passed, or the loop ended with no pivot.
LEMMA NothingIsLost ==
    ASSUME WandInv
    PROVE  NothingLost
<1> DEFINE W == contrib
           P == postings
           c == cursor
<1>0. CursorsOk(contrib, postings, cursor) /\ want \in Nat /\ theta \in Nat
  BY DEF WandInv, Sound
<1>1. heap \in SUBSET [doc : WandDocs, score : Nat]
  BY DEF WandInv, Sound, HeapFine
<1>2. \A h \in heap : h.score = Exhaustive(h.doc)
  <2> TAKE h \in heap
  <2>1. h.doc \in WandDocs /\ h.score = Whole(contrib, h.doc)
    BY <1>1 DEF WandInv, Sound, HeapFine
  <2> QED BY <1>0, <2>1, SumsInWords
<1>3. ASSUME NEW d \in WandDocs, Decided(d), Exhaustive(d) > 0, \A h \in heap : h.doc /= d
      PROVE  Cardinality(heap) = want /\ \A h \in heap : h.score >= Exhaustive(d)
  <2>0. Exhaustive(d) = Whole(contrib, d) /\ Whole(contrib, d) \in Nat
    BY <1>0, SumsInWords, WholeIs
  <2>1. CASE want = 0
    <3>1. Cardinality(heap) = 0
      <4>1. Cardinality(heap) <= want /\ IsFiniteSet(heap)
        BY DEF WandInv, Sound, HeapFine
      <4>2. Cardinality(heap) \in Nat
        BY <4>1, FS_CardinalityType
      <4> QED BY <2>1, <4>1, <4>2
    <3>2. heap = {}
      BY <3>1, FS_EmptySet DEF WandInv, Sound, HeapFine
    <3> QED BY <2>1, <3>1, <3>2
  <2>2. CASE want # 0
    <3>1. Whole(contrib, d) <= theta
      <4>1. CASE Behind(contrib, postings, cursor, d)
        <5>1. Fine(contrib, postings, want, cursor, heap, theta, d)
          BY DEF WandInv, Sound
        <5> QED BY <1>3, <4>1, <5>1 DEF Fine
      <4>2. CASE ~Behind(contrib, postings, cursor, d)
        <5>0. \A t \in WandTerms : PDoc(postings[t], cursor[t]) \in Nat /\ d \in Nat
          BY <1>0, PlaceIs, ExhaustedIs
        <5>1. \A t \in WandTerms : contrib[t][d] > 0 => PDoc(postings[t], cursor[t]) <= d
          BY <4>2, <5>0 DEF Behind
        <5>2. PICK t \in WandTerms : contrib[t][d] > 0
          BY <1>0, <1>3, <2>0, WholeIs
        <5>3. wandPc = "done"
          <6> SUFFICES ASSUME wandPc # "done" PROVE FALSE
            OBVIOUS
          <6>1. PDoc(postings[t], cursor[t]) # Exhausted
            BY <5>0, <5>1, <5>2, ExhaustedIs
          <6>2. t \in LiveTerms /\ Doc(t) = PDoc(postings[t], cursor[t])
            BY <1>0, <6>1, Words
          <6>3. Doc(t) > d
            BY <1>3, <6>2 DEF Decided, LiveTerms
          <6> QED BY <5>0, <5>1, <5>2, <6>2, <6>3
        <5>4. NoPivot(postings, cursor, theta)
          BY <2>2, <5>3 DEF WandInv, Sound
        <5>5. \A u \in WandTerms : PDoc(postings[u], cursor[u]) <= d =>
                TSum(postings, cursor, PDoc(postings[u], cursor[u])) <= theta
          <6>1. \A u \in WandTerms : PDoc(postings[u], cursor[u]) <= d
                   => PDoc(postings[u], cursor[u]) # Exhausted
            BY <5>0, ExhaustedIs
          <6> QED BY <5>4, <6>1 DEF NoPivot
        <5> QED BY <1>0, <5>1, <5>5, NoPivotBound
      <4> QED BY <4>1, <4>2
    <3>2. theta > 0
      BY <1>0, <1>3, <2>0, <3>1
    <3>3. Cardinality(heap) = want
      BY <3>2 DEF WandInv, Sound, HeapFine
    <3>4. \A h \in heap : theta <= h.score /\ h.score \in Nat
      BY <1>1 DEF WandInv, Sound, HeapFine
    <3>5. \A h \in heap : h.score >= Whole(contrib, d)
      BY <1>0, <2>0, <3>1, <3>4
    <3> QED BY <2>0, <3>3, <3>5
  <2> QED BY <2>1, <2>2
<1> QED BY <1>2, <1>3 DEF NothingLost

-----------------------------------------------------------------------------
(* The steps.                                                              *)

\* Cursors that stay at T - 1 or later, or skip to T, hop.
LEMMA SkipsHop ==
    ASSUME CursorsOk(contrib, postings, cursor), NEW T \in Nat, T <= Exhausted, NEW c2,
           DOMAIN c2 = WandTerms, c2 = [t \in WandTerms |-> c2[t]],
           \A t \in WandTerms :
              \/ c2[t] = cursor[t] /\ PDoc(postings[t], cursor[t]) + 1 >= T
              \/ c2[t] = SkipTo(t, cursor[t], T)
    PROVE  Hop(contrib, postings, cursor, c2, T)
<1>1. ASSUME NEW t \in WandTerms
      PROVE  /\ c2[t] \in 1 .. Len(postings[t].docs) + 1 /\ c2[t] \in Nat
             /\ PDoc(postings[t], c2[t]) >= PDoc(postings[t], cursor[t])
             /\ PDoc(postings[t], c2[t]) + 1 >= T
             /\ \A d \in WandDocs :
                  contrib[t][d] > 0 /\ PDoc(postings[t], cursor[t]) <= d /\ PDoc(postings[t], c2[t]) > d
                    => d < T
  <2>1. /\ PostingOk(postings[t], contrib[t]) /\ cursor[t] \in 1 .. Len(postings[t].docs) + 1
        /\ Len(postings[t].docs) \in Nat /\ Spent(t) = Len(postings[t].docs) + 1
        /\ PDoc(postings[t], cursor[t]) \in Nat
    <3>1. PDoc(postings[t], cursor[t]) \in Nat
      BY PlaceIs
    <3>2. PostingOk(postings[t], contrib[t]) /\ cursor[t] \in 1 .. Len(postings[t].docs) + 1
      BY DEF CursorsOk
    <3>3. Len(postings[t].docs) \in Nat
      BY <3>2 DEF PostingOk, ListOk
    <3>4. Spent(t) = Len(postings[t].docs) + 1
      BY DEF Spent
    <3> QED BY <3>1, <3>2, <3>3, <3>4
  <2>2. CASE c2[t] = cursor[t] /\ PDoc(postings[t], cursor[t]) + 1 >= T
    <3>1. \A d \in WandDocs : ~(PDoc(postings[t], cursor[t]) <= d /\ PDoc(postings[t], cursor[t]) > d)
      BY <2>1, ExhaustedIs
    <3> QED BY <2>1, <2>2, <3>1
  <2>3. CASE c2[t] = SkipTo(t, cursor[t], T)
    <3>1. /\ c2[t] \in 1 .. Spent(t)
          /\ PDoc(postings[t], c2[t]) >= T
          /\ PDoc(postings[t], c2[t]) >= PDoc(postings[t], cursor[t])
          /\ \A d \in WandDocs :
                contrib[t][d] > 0 /\ PDoc(postings[t], cursor[t]) <= d /\ PDoc(postings[t], c2[t]) > d
                  => d < T
      BY <2>1, <2>3, SkipHops
    <3>2. PDoc(postings[t], c2[t]) \in Nat
      BY <2>1, <3>1, DocIs
    <3>3. PDoc(postings[t], c2[t]) + 1 >= T
      BY <3>1, <3>2
    <3> QED BY <2>1, <3>1, <3>3
  <2> QED BY <2>2, <2>3
<1>2. c2 \in [WandTerms -> Nat]
  BY <1>1
<1>3. CursorsOk(contrib, postings, c2)
  BY <1>1, <1>2 DEF CursorsOk
<1> QED BY <1>1, <1>3 DEF Hop

\* Where nothing becomes a result, what is newly passed has to be bounded.
LEMMA HopFine ==
    ASSUME NEW W, NEW P, NEW k, NEW c, NEW c2, NEW H, NEW th \in Nat, NEW T \in Nat,
           CursorsOk(W, P, c), Hop(W, P, c, c2, T), HeapFine(W, P, k, c, H, th),
           NEW d \in WandDocs, Fine(W, P, k, c, H, th, d),
           \/ ~Behind(W, P, c2, d) \/ Behind(W, P, c, d)
           \/ Whole(W, d) <= th /\ BSum(P, c2, d) <= th
    PROVE  Fine(W, P, k, c2, H, th, d)
<1> SUFFICES ASSUME Behind(W, P, c2, d)
             PROVE  /\ \A t \in WandTerms : PDoc(P[t], c2[t]) >= d
                    /\ \/ \E h \in H : h.doc = d
                       \/ Cardinality(H) = k /\ Whole(W, d) <= th /\ BSum(P, c2, d) <= th
  BY DEF Fine
<1>1. CASE Behind(W, P, c, d)
  <2>1. \A t \in WandTerms : PDoc(P[t], c[t]) >= d
    BY <1>1 DEF Fine
  <2>2. \A t \in WandTerms : PDoc(P[t], c2[t]) >= d
    <3> TAKE t \in WandTerms
    <3>1. PDoc(P[t], c[t]) \in Nat /\ PDoc(P[t], c2[t]) \in Nat /\ d \in Nat
      BY PlaceIs, ExhaustedIs DEF Hop
    <3>2. PDoc(P[t], c2[t]) >= PDoc(P[t], c[t])
      BY DEF Hop
    <3> QED BY <2>1, <3>1, <3>2
  <2>3. BSum(P, c2, d) \in Nat /\ BSum(P, c, d) \in Nat /\ BSum(P, c2, d) <= BSum(P, c, d)
    BY <2>1, HopSum
  <2>4. BSum(P, c, d) <= th => BSum(P, c2, d) <= th
    BY <2>3
  <2> QED BY <1>1, <2>2, <2>4 DEF Fine
<1>2. CASE ~Behind(W, P, c, d)
  <2>1. \A t \in WandTerms : PDoc(P[t], c2[t]) >= d
    BY <1>2, HopBehind
  <2>2. Whole(W, d) <= th /\ BSum(P, c2, d) <= th
    BY <1>2
  <2>3. Whole(W, d) \in Nat /\ Whole(W, d) > 0
    BY WholeIs DEF Behind
  <2>4. th > 0
    BY <2>2, <2>3
  <2>5. Cardinality(H) = k
    BY <2>4 DEF HeapFine
  <2> QED BY <2>1, <2>2, <2>5
<1> QED BY <1>1, <1>2

\* The heap stays fine while the cursors move.
LEMMA HopHeap ==
    ASSUME NEW W, NEW P, NEW k, NEW c, NEW c2, NEW H, NEW th, NEW T,
           CursorsOk(W, P, c), Hop(W, P, c, c2, T), HeapFine(W, P, k, c, H, th)
    PROVE  HeapFine(W, P, k, c2, H, th)
<1>1. \A h \in H : Clear(W, P, c2, h.doc)
  <2> TAKE h \in H
  <2>1. h.doc \in WandDocs /\ Clear(W, P, c, h.doc)
    BY DEF HeapFine
  <2> QED BY <2>1, HopClear
<1> QED BY <1>1 DEF HeapFine

\* What the heap gives up and what it turns away is no better than what it keeps.
LEMMA HeapAdmits ==
    ASSUME NEW W, NEW P, NEW k \in Nat \ {0}, NEW c, NEW H, NEW th \in Nat,
           CursorsOk(W, P, c), HeapFine(W, P, k, c, H, th),
           NEW d \in WandDocs, Clear(W, P, c, d),
           NEW h, h = [doc |-> d, score |-> Whole(W, d)], h \notin H,
           NEW H2, NEW th2,
           H2 \in IF Cardinality(H) < k THEN {H \cup {h}}
                  ELSE IF h.score > th
                  THEN {(H \ {w}) \cup {h} : w \in {v \in H : v.score = LowestScore(H)}}
                  ELSE {H},
           th2 = IF Cardinality(H2) = k THEN LowestScore(H2) ELSE th
    PROVE  /\ th2 \in Nat /\ th <= th2
           /\ HeapFine(W, P, k, c, H2, th2)
           /\ h \in H2 \/ (Cardinality(H2) = k /\ Whole(W, d) <= th2)
           /\ \A g \in H : g \in H2 \/ (Cardinality(H2) = k /\ Whole(W, g.doc) <= th2)
           /\ Cardinality(H) = k => Cardinality(H2) = k
<1>0. /\ H \in SUBSET [doc : WandDocs, score : Nat] /\ IsFiniteSet(H)
      /\ Cardinality(H) <= k /\ Cardinality(H) \in Nat
      /\ th > 0 => Cardinality(H) = k
      /\ Cardinality(H) = k => \E g \in H : g.score <= th
      /\ \A g \in H : g.score = Whole(W, g.doc) /\ Clear(W, P, c, g.doc) /\ th <= g.score
  BY FS_CardinalityType DEF HeapFine
<1>1. /\ h \in [doc : WandDocs, score : Nat] /\ h.doc = d /\ h.score = Whole(W, d)
      /\ h.score \in Nat
  BY WholeIs
\* The lowest score of a heap that is not empty.
<1>2. ASSUME NEW S \in SUBSET [doc : WandDocs, score : Nat], S # {}
      PROVE  /\ LowestScore(S) \in Nat /\ \E g \in S : g.score = LowestScore(S)
             /\ \A g \in S : LowestScore(S) <= g.score
  <2> DEFINE V == {g.score : g \in S}
  <2>1. V # {} /\ V \in SUBSET Nat
    <3>1. \A g \in S : g.score \in Nat
      OBVIOUS
    <3>2. PICK g \in S : TRUE
      BY <1>2
    <3>3. g.score \in V
      BY <3>2
    <3>4. \A x \in V : x \in Nat
      BY <3>1
    <3> HIDE DEF V
    <3> QED BY <3>3, <3>4
  <2>2. LowestScore(S) = Min(V)
    BY DEF LowestScore
  <2>3. Min(V) \in V /\ \A y \in V : Min(V) <= y
    <3> HIDE DEF V
    <3> QED BY <2>1, LeastIs
  <2>4. \A x \in V : \E g \in S : g.score = x
    OBVIOUS
  <2>5. \A g \in S : g.score \in V
    OBVIOUS
  <2> HIDE DEF V
  <2> QED BY <2>1, <2>2, <2>3, <2>4, <2>5
<1>3. CASE Cardinality(H) < k
  <2>1. H2 = H \cup {h}
    BY <1>3
  <2>2. IsFiniteSet(H2) /\ Cardinality(H2) = Cardinality(H) + 1
    BY <1>0, <2>1, FS_AddElement
  <2>3. th = 0 /\ Cardinality(H) # k
    BY <1>0, <1>3
  <2>4. H2 \in SUBSET [doc : WandDocs, score : Nat] /\ H2 # {} /\ h \in H2
    BY <1>0, <1>1, <2>1
  <2>5. th2 \in Nat /\ (th2 > 0 => Cardinality(H2) = k) /\ \A g \in H2 : th2 <= g.score
    <3>1. \A g \in H2 : g.score \in Nat
      BY <2>4
    <3>2. LowestScore(H2) \in Nat /\ \A g \in H2 : LowestScore(H2) <= g.score
      BY <1>2, <2>4
    <3>3. CASE Cardinality(H2) = k
      <4>1. th2 = LowestScore(H2)
        BY <3>3
      <4> QED BY <3>2, <3>3, <4>1
    <3>4. CASE Cardinality(H2) # k
      <4>1. th2 = 0
        BY <2>3, <3>4
      <4> QED BY <3>1, <4>1
    <3> QED BY <3>3, <3>4
  <2>6. \A g \in H2 : g.score = Whole(W, g.doc) /\ Clear(W, P, c, g.doc)
    BY <1>0, <1>1, <2>1
  <2>7. Cardinality(H2) <= k
    BY <1>0, <1>3, <2>2
  <2>8. HeapFine(W, P, k, c, H2, th2)
    <3>1. Cardinality(H2) = k => \E g \in H2 : g.score <= th2
      <4> SUFFICES ASSUME Cardinality(H2) = k PROVE \E g \in H2 : g.score <= th2
        OBVIOUS
      <4>1. th2 = LowestScore(H2)
        OBVIOUS
      <4>2. PICK g \in H2 : g.score = LowestScore(H2)
        BY <1>2, <2>4
      <4> QED BY <2>5, <4>1, <4>2
    <3> QED BY <2>2, <2>4, <2>5, <2>6, <2>7, <3>1 DEF HeapFine
  <2>9. th <= th2
    BY <2>3, <2>5
  <2> QED BY <2>1, <2>3, <2>4, <2>5, <2>8, <2>9
<1>4. CASE ~(Cardinality(H) < k) /\ h.score > th
  <2>0. Cardinality(H) = k /\ H # {}
    <3>1. Cardinality(H) = k
      BY <1>0, <1>4
    <3> QED BY <3>1, FS_EmptySet
  <2>1. PICK w \in H : w.score = LowestScore(H) /\ H2 = (H \ {w}) \cup {h}
    BY <1>4
  <2>2. IsFiniteSet(H2) /\ Cardinality(H2) = k
    <3>1. IsFiniteSet(H \ {w}) /\ Cardinality(H \ {w}) = Cardinality(H) - 1
      BY <1>0, FS_RemoveElement
    <3>2. h \notin H \ {w}
      OBVIOUS
    <3>3. IsFiniteSet(H2) /\ Cardinality(H2) = Cardinality(H \ {w}) + 1
      BY <2>1, <3>1, <3>2, FS_AddElement
    <3> QED BY <2>0, <3>1, <3>3
  <2>3. H2 \in SUBSET [doc : WandDocs, score : Nat] /\ H2 # {} /\ h \in H2
    BY <1>0, <1>1, <2>1
  <2>4. /\ th2 = LowestScore(H2) /\ th2 \in Nat /\ \A g \in H2 : th2 <= g.score
        /\ \E g \in H2 : g.score = th2
    BY <1>2, <2>2, <2>3
  <2>5. \A g \in H : w.score <= g.score /\ g.score \in Nat
    BY <1>0, <1>2, <2>0, <2>1
  <2>6. w.score <= th
    <3>1. PICK g \in H : g.score <= th
      BY <1>0, <2>0
    <3>2. w.score <= g.score /\ g.score \in Nat /\ w.score \in Nat
      BY <2>5
    <3> QED BY <3>1, <3>2
  <2>7. th <= th2
    <3>1. PICK g \in H2 : g.score = th2
      BY <2>4
    <3>2. g = h \/ g \in H
      BY <2>1
    <3>3. th <= g.score
      BY <1>0, <1>1, <1>4, <3>2
    <3> QED BY <3>1, <3>3
  <2>8. w.score <= th2
    BY <2>4, <2>5, <2>6, <2>7
  <2>9. \A g \in H2 : g.score = Whole(W, g.doc) /\ Clear(W, P, c, g.doc)
    BY <1>0, <1>1, <2>1
  <2>10. HeapFine(W, P, k, c, H2, th2)
    <3>1. Cardinality(H2) <= k
      BY <2>2
    <3>2. \E g \in H2 : g.score <= th2
      BY <2>4
    <3> QED BY <2>2, <2>3, <2>4, <2>9, <3>1, <3>2 DEF HeapFine
  <2>11. Whole(W, w.doc) <= th2
    BY <1>0, <2>1, <2>8
  <2> QED BY <2>0, <2>1, <2>2, <2>3, <2>4, <2>7, <2>10, <2>11
<1>5. CASE ~(Cardinality(H) < k) /\ ~(h.score > th)
  <2>0. Cardinality(H) = k /\ H # {} /\ H2 = H
    <3>1. Cardinality(H) = k
      BY <1>0, <1>5
    <3>2. H2 = H
      BY <1>5
    <3> QED BY <3>1, <3>2, FS_EmptySet
  <2>1. th2 = LowestScore(H)
    BY <2>0
  <2>2. PICK g \in H : g.score = th2
    BY <1>0, <1>2, <2>0, <2>1
  <2>3. th2 \in Nat /\ \A v \in H : th2 <= v.score
    BY <1>0, <1>2, <2>0, <2>1
  <2>4. th <= th2
    BY <1>0, <2>2
  <2>5. HeapFine(W, P, k, c, H2, th2)
    <3>1. g.score <= th2
      BY <2>2, <2>3
    <3> QED BY <1>0, <2>0, <2>2, <2>3, <3>1 DEF HeapFine
  <2>6. Whole(W, d) <= th2
    BY <1>1, <1>5, <2>3, <2>4
  <2> QED BY <2>0, <2>3, <2>4, <2>5, <2>6
<1> QED BY <1>3, <1>4, <1>5

\* A pivot is a document, and the first cursors are not past it.
LEMMA PivotIs ==
    ASSUME WandInv, PivotDocs # {}
    PROVE  /\ Min(PivotDocs) \in PivotDocs /\ Min(PivotDocs) \in WandDocs
           /\ Min(PivotDocs) \in Nat /\ Min(PivotDocs) < Exhausted
           /\ \A x \in PivotDocs : Min(PivotDocs) <= x
           /\ \E u \in WandTerms : PDoc(postings[u], cursor[u]) = Min(PivotDocs)
           /\ FrontDoc \in Nat
           /\ \A t \in WandTerms : PDoc(postings[t], cursor[t]) >= FrontDoc
<1>0. CursorsOk(contrib, postings, cursor)
  BY DEF WandInv, Sound
<1>1. \A x \in PivotDocs : /\ x \in WandDocs
                           /\ \E u \in WandTerms : x = PDoc(postings[u], cursor[u]) /\ x # Exhausted
  BY <1>0, PivotsAre
<1>2. PivotDocs \in SUBSET Nat
  BY <1>1, ExhaustedIs
<1>3. Min(PivotDocs) \in PivotDocs /\ \A x \in PivotDocs : Min(PivotDocs) <= x
  BY <1>2, LeastIs
<1>4. Min(PivotDocs) \in WandDocs /\ Min(PivotDocs) \in Nat /\ Min(PivotDocs) < Exhausted
  BY <1>1, <1>3, ExhaustedIs
<1>5. PICK u \in WandTerms : Min(PivotDocs) = PDoc(postings[u], cursor[u]) /\ Min(PivotDocs) # Exhausted
  BY <1>1, <1>3
<1> DEFINE V == {Doc(t) : t \in LiveTerms}
<1>6. \A t \in LiveTerms : t \in WandTerms /\ Doc(t) = PDoc(postings[t], cursor[t]) /\ Doc(t) \in Nat
                      /\ Doc(t) <= Exhausted
  BY <1>0, Words, PlaceIs
<1>7. u \in LiveTerms
  BY <1>0, <1>5, Words
<1>8. V \in SUBSET Nat /\ V # {}
  BY <1>6, <1>7
<1>9. FrontDoc = Min(V)
  BY DEF FrontDoc
<1>10. Min(V) \in V /\ \A y \in V : Min(V) <= y
  <2> HIDE DEF V
  <2> QED BY <1>8, LeastIs
<1>11. FrontDoc \in Nat /\ FrontDoc <= Exhausted
  <2>1. PICK t \in LiveTerms : FrontDoc = Doc(t)
    BY <1>9, <1>10
  <2> QED BY <1>6, <2>1
<1>12. ASSUME NEW t \in WandTerms PROVE PDoc(postings[t], cursor[t]) >= FrontDoc
  <2>1. CASE t \in LiveTerms
    <3>1. Doc(t) \in V /\ Doc(t) = PDoc(postings[t], cursor[t]) /\ Doc(t) \in Nat
      BY <1>6, <2>1
    <3> HIDE DEF V
    <3> QED BY <1>9, <1>10, <1>11, <3>1
  <2>2. CASE t \notin LiveTerms
    <3>1. PDoc(postings[t], cursor[t]) = Exhausted
      BY <1>0, <2>2, Words
    <3> QED BY <1>11, <3>1, ExhaustedIs
  <2> QED BY <2>1, <2>2
<1> QED BY <1>3, <1>4, <1>5, <1>11, <1>12

\* One aligned cursor passes the pivot, whose blocks cannot beat the threshold.
LEMMA PruneSound ==
    ASSUME WandInv, WandPrune
    PROVE  WandInv'
<1> DEFINE F == FrontDoc
           T == F + 1
<1>0. /\ CursorsOk(contrib, postings, cursor) /\ want \in Nat /\ theta \in Nat
      /\ HeapFine(contrib, postings, want, cursor, heap, theta)
      /\ wandPc = "search" /\ want > 0 /\ PivotDocs # {} /\ F = Min(PivotDocs)
  BY DEF WandInv, Sound, WandPrune, Searching
<1>1. /\ F \in WandDocs /\ F \in Nat /\ F < Exhausted
      /\ \A t \in WandTerms : PDoc(postings[t], cursor[t]) >= F
  BY <1>0, PivotIs
<1>2. Aligned = {t \in LiveTerms : Doc(t) = F}
  BY <1>0 DEF Aligned
<1>3. BSum(postings, cursor, F) <= theta
  <2>1. SumOver(Aligned, BlockMax) <= theta
    BY DEF WandPrune, Prunable
  <2>2. SumOver({t \in LiveTerms : Doc(t) = F}, BlockMax) = BSum(postings, cursor, F)
    <3> HIDE DEF F
    <3> QED BY <1>0, <1>1, SumsInWords
  <2> QED BY <1>2, <2>1, <2>2
<1>4. PICK t \in Aligned : cursor' = [cursor EXCEPT ![t] = SkipTo(t, cursor[t], T)]
  BY DEF WandPrune
<1>5. t \in WandTerms
  <2>1. t \in LiveTerms
    BY <1>2
  <2> QED BY <1>0, <2>1, Words
<1> DEFINE c2 == cursor'
<1>6. c2 = [u \in WandTerms |-> IF u = t THEN SkipTo(t, cursor[t], T) ELSE cursor[u]]
  BY <1>0, <1>4 DEF CursorsOk
<1>7. Hop(contrib, postings, cursor, c2, T)
  <2>1. T \in Nat /\ T <= Exhausted
    BY <1>1, ExhaustedIs
  <2>2. DOMAIN c2 = WandTerms /\ c2 = [u \in WandTerms |-> c2[u]]
    BY <1>6
  <2>3. ASSUME NEW u \in WandTerms
        PROVE  \/ c2[u] = cursor[u] /\ PDoc(postings[u], cursor[u]) + 1 >= T
               \/ c2[u] = SkipTo(u, cursor[u], T)
    <3>1. CASE u = t
      BY <1>6, <3>1
    <3>2. CASE u # t
      <4>1. c2[u] = cursor[u]
        BY <1>6, <3>2
      <4>2. PDoc(postings[u], cursor[u]) \in Nat /\ PDoc(postings[u], cursor[u]) >= F
        BY <1>0, <1>1, PlaceIs
      <4> HIDE DEF F, c2
      <4>3. PDoc(postings[u], cursor[u]) + 1 >= T
        BY <1>1, <4>2
      <4> QED BY <4>1, <4>3
    <3> QED BY <3>1, <3>2
  <2> HIDE DEF c2, T
  <2> QED BY <1>0, <2>1, <2>2, <2>3, SkipsHop
<1>8. T \in Nat
  BY <1>1
<1> HIDE DEF c2, T, F
<1>9. HeapFine(contrib, postings, want, c2, heap, theta)
  BY <1>0, <1>7, HopHeap
<1>10. ASSUME NEW d \in WandDocs PROVE Fine(contrib, postings, want, c2, heap, theta, d)
  <2>1. Fine(contrib, postings, want, cursor, heap, theta, d)
    BY DEF WandInv, Sound
  <2>2. ASSUME Behind(contrib, postings, c2, d), ~Behind(contrib, postings, cursor, d)
        PROVE  Whole(contrib, d) <= theta /\ BSum(postings, c2, d) <= theta
    <3>1. d < T /\ \A u \in WandTerms : contrib[u][d] > 0 => PDoc(postings[u], cursor[u]) <= d
      BY <1>0, <1>7, <1>8, <2>2, HopBehind
    <3>2. PICK u \in WandTerms : contrib[u][d] > 0
      BY <2>2 DEF Behind
    <3>3. d = F
      <4>1. PDoc(postings[u], cursor[u]) <= d /\ PDoc(postings[u], cursor[u]) >= F
            /\ PDoc(postings[u], cursor[u]) \in Nat /\ d \in Nat
        BY <1>0, <1>1, <3>1, <3>2, PlaceIs, ExhaustedIs
      <4>2. d < F + 1
        BY <3>1 DEF T
      <4> QED BY <1>1, <4>1, <4>2
    <3>4. \A v \in WandTerms : PDoc(postings[v], cursor[v]) \in Nat
      BY <1>0, PlaceIs
    <3>5. \A v \in WandTerms : contrib[v][d] > 0 => PDoc(postings[v], cursor[v]) = d
      BY <1>1, <3>1, <3>3, <3>4
    <3>6. /\ Whole(contrib, d) \in Nat /\ BSum(postings, cursor, d) \in Nat
          /\ Whole(contrib, d) <= BSum(postings, cursor, d)
      BY <1>0, <3>5, BlocksBound
    <3>7. BSum(postings, c2, d) \in Nat /\ BSum(postings, c2, d) <= BSum(postings, cursor, d)
      BY <1>0, <1>1, <1>7, <3>3, HopSum
    <3>8. BSum(postings, cursor, d) <= theta
      BY <1>3, <3>3
    <3> QED BY <1>0, <3>6, <3>7, <3>8
  <2> QED BY <1>0, <1>7, <1>8, <2>1, <2>2, HopFine
<1>11. CursorsOk(contrib, postings, c2)
  BY <1>7 DEF Hop
<1>12. Sound(contrib, postings, want, c2, heap, theta, wandPc)
  BY <1>0, <1>9, <1>10, <1>11 DEF Sound
<1>13. /\ contrib' = contrib /\ postings' = postings /\ want' = want /\ cursor' = c2
       /\ heap' = heap /\ theta' = theta /\ wandPc' = wandPc
  BY DEF WandPrune, c2
<1>14. WandInv' = Sound(contrib', postings', want', cursor', heap', theta', wandPc')
  BY DEF WandInv
<1> QED BY <1>12, <1>13, <1>14

\* The loop ends when no document is a pivot.
LEMMA StopSound ==
    ASSUME WandInv, WandStop
    PROVE  WandInv'
<1>0. CursorsOk(contrib, postings, cursor) /\ theta \in Nat /\ PivotDocs = {}
  BY DEF WandInv, Sound, WandStop
<1>1. NoPivot(postings, cursor, theta)
  <2>1. \A u \in WandTerms : PDoc(postings[u], cursor[u]) <= Exhausted
    BY <1>0, PlaceIs
  <2>2. Exhausted \in Nat /\ \A x \in PivotDocs : Exhausted < x
    BY <1>0, ExhaustedIs
  <2>3. \A u \in WandTerms :
              PDoc(postings[u], cursor[u]) # Exhausted /\ PDoc(postings[u], cursor[u]) <= Exhausted
                => TSum(postings, cursor, PDoc(postings[u], cursor[u])) <= theta
    BY <1>0, <2>2, NoneAhead
  <2> QED BY <2>1, <2>3 DEF NoPivot
<1>2. Sound(contrib, postings, want, cursor, heap, theta, "done")
  BY <1>1 DEF WandInv, Sound
<1>3. /\ contrib' = contrib /\ postings' = postings /\ want' = want /\ cursor' = cursor
      /\ heap' = heap /\ theta' = theta /\ wandPc' = "done"
  BY DEF WandStop
<1>4. WandInv' = Sound(contrib', postings', want', cursor', heap', theta', wandPc')
  BY DEF WandInv
<1> QED BY <1>2, <1>3, <1>4

\* The pivot is scored from all its terms, and all of them pass it.
LEMMA ScoreSound ==
    ASSUME WandInv, WandScore
    PROVE  WandInv'
<1> DEFINE F == FrontDoc
           T == F + 1
           h == [doc |-> F, score |-> Whole(contrib, F)]
<1>0. /\ CursorsOk(contrib, postings, cursor) /\ want \in Nat /\ theta \in Nat
      /\ HeapFine(contrib, postings, want, cursor, heap, theta)
      /\ wandPc = "search" /\ want > 0 /\ PivotDocs # {} /\ F = Min(PivotDocs)
  BY DEF WandInv, Sound, WandScore, Searching
<1>1. /\ F \in WandDocs /\ F \in Nat /\ F < Exhausted
      /\ \A t \in WandTerms : PDoc(postings[t], cursor[t]) >= F
      /\ \E t \in WandTerms : PDoc(postings[t], cursor[t]) = F
  BY <1>0, PivotIs
<1>2. Aligned = {t \in LiveTerms : Doc(t) = F} /\ Aligned = At(postings, cursor, F)
  <2>1. Aligned = {t \in LiveTerms : Doc(t) = F}
    BY <1>0 DEF Aligned
  <2>2. {t \in LiveTerms : Doc(t) = F} = At(postings, cursor, F)
    <3> HIDE DEF F
    <3> QED BY <1>0, <1>1, Words
  <2> QED BY <2>1, <2>2
<1>3. ~(BSum(postings, cursor, F) <= theta)
  <2>1. ~(SumOver(Aligned, BlockMax) <= theta)
    BY DEF WandScore, Prunable
  <2>2. SumOver({t \in LiveTerms : Doc(t) = F}, BlockMax) = BSum(postings, cursor, F)
    <3> HIDE DEF F
    <3> QED BY <1>0, <1>1, SumsInWords
  <2> QED BY <1>2, <2>1, <2>2
<1> DEFINE c2 == cursor'
<1>4. c2 = [t \in WandTerms |-> IF t \in Aligned THEN SkipTo(t, cursor[t], T) ELSE cursor[t]]
  BY DEF WandScore
<1>5. /\ heap' \in Admitted([doc |-> F, score |-> Part(contrib, Aligned, F)])
      /\ theta' = Threshold(heap')
  BY DEF WandScore, Part, SumOver
<1>6. \A t \in WandTerms : PDoc(postings[t], cursor[t]) \in Nat
  BY <1>0, PlaceIs
<1>7. T \in Nat /\ T <= Exhausted /\ T > F
  BY <1>1, ExhaustedIs
<1> HIDE DEF F, T
<1>8. Hop(contrib, postings, cursor, c2, T)
  <2>1. DOMAIN c2 = WandTerms /\ c2 = [u \in WandTerms |-> c2[u]]
    BY <1>4
  <2>2. ASSUME NEW u \in WandTerms
        PROVE  \/ c2[u] = cursor[u] /\ PDoc(postings[u], cursor[u]) + 1 >= T
               \/ c2[u] = SkipTo(u, cursor[u], T)
    <3>1. CASE u \in Aligned
      BY <1>4, <3>1
    <3>2. CASE u \notin Aligned
      <4>1. c2[u] = cursor[u]
        BY <1>4, <3>2
      <4>2. PDoc(postings[u], cursor[u]) + 1 >= T
        BY <1>1, <1>6 DEF T
      <4> QED BY <4>1, <4>2
    <3> QED BY <3>1, <3>2
  <2> HIDE DEF c2
  <2> QED BY <1>0, <1>7, <2>1, <2>2, SkipsHop
\* Nothing has passed the front yet, so all its terms are aligned.
<1>9. ~Behind(contrib, postings, cursor, F)
  <2> SUFFICES ASSUME Behind(contrib, postings, cursor, F) PROVE FALSE
    OBVIOUS
  <2>1. Fine(contrib, postings, want, cursor, heap, theta, F)
    BY <1>1 DEF WandInv, Sound
  <2>2. PICK g \in heap : g.doc = F
    BY <1>3, <2>1 DEF Fine
  <2>3. Clear(contrib, postings, cursor, F)
    BY <1>0, <2>2 DEF HeapFine
  <2>4. PICK t \in WandTerms : PDoc(postings[t], cursor[t]) = F
    BY <1>1
  <2>5. contrib[t][F] > 0
    <3>1. PDoc(postings[t], cursor[t]) # Exhausted
      BY <1>1, <2>4, ExhaustedIs
    <3> QED BY <1>0, <2>4, <3>1, PlaceIs
  <2>6. F > F
    BY <2>3, <2>4, <2>5 DEF Clear
  <2> QED BY <1>1, <2>6
<1>10. \A t \in WandTerms : contrib[t][F] > 0 => PDoc(postings[t], cursor[t]) = F
  BY <1>1, <1>6, <1>9 DEF Behind
<1>11. Part(contrib, Aligned, F) = Whole(contrib, F)
  <2>1. Part(contrib, At(postings, cursor, F), F) = Whole(contrib, F)
    BY <1>0, <1>1, <1>10, BlocksBound
  <2> QED BY <1>2, <2>1
<1>12. Clear(contrib, postings, c2, F)
  <2> SUFFICES ASSUME NEW t \in WandTerms, contrib[t][F] > 0 PROVE PDoc(postings[t], c2[t]) > F
    BY DEF Clear
  <2>1. t \in Aligned
    BY <1>2, <1>10 DEF At
  <2>2. c2[t] = SkipTo(t, cursor[t], T)
    BY <1>4, <2>1
  <2>3. PostingOk(postings[t], contrib[t]) /\ cursor[t] \in 1 .. Spent(t) /\ Spent(t) = Len(postings[t].docs) + 1
    BY <1>0 DEF CursorsOk, Spent
  <2>4. c2[t] \in 1 .. Spent(t) /\ PDoc(postings[t], c2[t]) >= T
    BY <1>7, <2>2, <2>3, SkipHops
  <2>5. PDoc(postings[t], c2[t]) \in Nat
    BY <2>3, <2>4, DocIs
  <2> QED BY <1>1, <1>7, <2>4, <2>5
<1> HIDE DEF c2
<1>13. HeapFine(contrib, postings, want, c2, heap, theta)
  BY <1>0, <1>8, HopHeap
<1>14. CursorsOk(contrib, postings, c2)
  BY <1>8 DEF Hop
<1>15. h \notin heap
  <2> SUFFICES ASSUME h \in heap PROVE FALSE
    OBVIOUS
  <2>1. Clear(contrib, postings, cursor, F)
    <3>1. h.doc = F
      OBVIOUS
    <3> QED BY <1>0, <3>1 DEF HeapFine
  <2>2. PICK t \in WandTerms : PDoc(postings[t], cursor[t]) = F
    BY <1>1
  <2>3. contrib[t][F] > 0
    <3>1. PDoc(postings[t], cursor[t]) # Exhausted
      BY <1>1, <2>2, ExhaustedIs
    <3> QED BY <1>0, <2>2, <3>1, PlaceIs
  <2>4. F > F
    BY <2>1, <2>2, <2>3 DEF Clear
  <2> QED BY <1>1, <2>4
<1> DEFINE H2 == heap'
           th2 == theta'
<1>16. /\ H2 \in IF Cardinality(heap) < want THEN {heap \cup {h}}
                 ELSE IF h.score > theta
                 THEN {(heap \ {w}) \cup {h} : w \in {v \in heap : v.score = LowestScore(heap)}}
                 ELSE {heap}
       /\ th2 = IF Cardinality(H2) = want THEN LowestScore(H2) ELSE theta
  <2>1. H2 \in Admitted(h)
    BY <1>5, <1>11
  <2> HIDE DEF h
  <2> QED BY <1>5, <2>1 DEF Admitted, Threshold
<1>17. want \in Nat \ {0}
  BY <1>0
<1>18. h.doc = F /\ h = [doc |-> F, score |-> Whole(contrib, F)]
  OBVIOUS
<1> HIDE DEF H2, th2, h
<1>19. /\ th2 \in Nat /\ theta <= th2
       /\ HeapFine(contrib, postings, want, c2, H2, th2)
       /\ h \in H2 \/ (Cardinality(H2) = want /\ Whole(contrib, F) <= th2)
       /\ \A g \in heap : g \in H2 \/ (Cardinality(H2) = want /\ Whole(contrib, g.doc) <= th2)
       /\ Cardinality(heap) = want => Cardinality(H2) = want
  BY <1>0, <1>1, <1>12, <1>13, <1>14, <1>15, <1>16, <1>17, <1>18, HeapAdmits
<1>20. ASSUME NEW d \in WandDocs PROVE Fine(contrib, postings, want, c2, H2, th2, d)
  <2> SUFFICES ASSUME Behind(contrib, postings, c2, d)
               PROVE  /\ \A t \in WandTerms : PDoc(postings[t], c2[t]) >= d
                      /\ \/ \E g \in H2 : g.doc = d
                         \/ /\ Cardinality(H2) = want /\ Whole(contrib, d) <= th2
                            /\ BSum(postings, c2, d) <= th2
    BY DEF Fine
  <2>1. CASE Behind(contrib, postings, cursor, d)
    <3>0. Fine(contrib, postings, want, cursor, heap, theta, d)
      BY DEF WandInv, Sound
    <3>1. \A t \in WandTerms : PDoc(postings[t], cursor[t]) >= d
      BY <2>1, <3>0 DEF Fine
    <3>2. \A t \in WandTerms : PDoc(postings[t], c2[t]) >= d
      <4> TAKE t \in WandTerms
      <4>1. PDoc(postings[t], c2[t]) \in Nat /\ d \in Nat /\ PDoc(postings[t], cursor[t]) \in Nat
        BY <1>6, <1>14, PlaceIs, ExhaustedIs
      <4>2. PDoc(postings[t], c2[t]) >= PDoc(postings[t], cursor[t])
        BY <1>8 DEF Hop
      <4> QED BY <3>1, <4>1, <4>2
    <3>3. ASSUME NEW g \in heap, g.doc = d
          PROVE  \/ \E e \in H2 : e.doc = d
                 \/ /\ Cardinality(H2) = want /\ Whole(contrib, d) <= th2
                    /\ BSum(postings, c2, d) <= th2
      <4>1. CASE g \in H2
        BY <3>3, <4>1
      <4>2. CASE g \notin H2
        <5>1. Cardinality(H2) = want /\ Whole(contrib, d) <= th2
          BY <1>19, <3>3, <4>2
        <5>2. Clear(contrib, postings, c2, d)
          BY <1>13, <3>3 DEF HeapFine
        <5>3. BSum(postings, c2, d) = 0
          BY <1>14, <5>2, ClearSum
        <5>4. BSum(postings, c2, d) <= th2
          BY <1>19, <5>3
        <5> QED BY <5>1, <5>4
      <4> QED BY <4>1, <4>2
    <3>4. ASSUME Cardinality(heap) = want, Whole(contrib, d) <= theta,
                 BSum(postings, cursor, d) <= theta
          PROVE  /\ Cardinality(H2) = want /\ Whole(contrib, d) <= th2
                 /\ BSum(postings, c2, d) <= th2
      <4>1. /\ BSum(postings, c2, d) \in Nat /\ BSum(postings, cursor, d) \in Nat
            /\ BSum(postings, c2, d) <= BSum(postings, cursor, d)
        BY <1>0, <1>8, <3>1, HopSum
      <4>2. Whole(contrib, d) \in Nat
        BY <1>0, WholeIs
      <4> QED BY <1>0, <1>19, <3>4, <4>1, <4>2
    <3> QED BY <2>1, <3>0, <3>2, <3>3, <3>4 DEF Fine
  <2>2. CASE ~Behind(contrib, postings, cursor, d)
    <3>1. /\ d < T
          /\ \A t \in WandTerms : PDoc(postings[t], c2[t]) >= d
          /\ \A t \in WandTerms : contrib[t][d] > 0 => PDoc(postings[t], cursor[t]) <= d
      BY <1>0, <1>7, <1>8, <2>2, HopBehind
    <3>2. PICK u \in WandTerms : contrib[u][d] > 0
      BY DEF Behind
    <3>3. d = F
      <4>1. PDoc(postings[u], cursor[u]) <= d /\ PDoc(postings[u], cursor[u]) >= F
            /\ PDoc(postings[u], cursor[u]) \in Nat /\ d \in Nat
        BY <1>1, <1>6, <3>1, <3>2, ExhaustedIs
      <4>2. d < F + 1
        BY <3>1 DEF T
      <4> QED BY <1>1, <4>1, <4>2
    <3>4. BSum(postings, c2, d) = 0
      BY <1>12, <1>14, <3>3, ClearSum
    <3>5. BSum(postings, c2, d) <= th2
      BY <1>19, <3>4
    <3> QED BY <1>18, <1>19, <3>1, <3>3, <3>5
  <2> QED BY <2>1, <2>2
<1>21. Sound(contrib, postings, want, c2, H2, th2, wandPc)
  BY <1>0, <1>14, <1>19, <1>20 DEF Sound
<1>22. /\ contrib' = contrib /\ postings' = postings /\ want' = want /\ cursor' = c2
       /\ heap' = H2 /\ theta' = th2 /\ wandPc' = wandPc
  BY DEF WandScore, c2, H2, th2
<1>23. WandInv' = Sound(contrib', postings', want', cursor', heap', theta', wandPc')
  BY DEF WandInv
<1> QED BY <1>21, <1>22, <1>23

\* The cursors before the pivot move up to it; what they pass is before every pivot.
LEMMA AlignSound ==
    ASSUME WandInv, WandAlign
    PROVE  WandInv'
<1> DEFINE T == Min(PivotDocs)
           c2 == cursor'
<1>0. /\ CursorsOk(contrib, postings, cursor) /\ want \in Nat /\ theta \in Nat
      /\ HeapFine(contrib, postings, want, cursor, heap, theta)
      /\ wandPc = "search" /\ want > 0 /\ PivotDocs # {}
  BY DEF WandInv, Sound, WandAlign, Searching
<1>1. /\ T \in WandDocs /\ T \in Nat /\ T < Exhausted /\ \A x \in PivotDocs : T <= x
      /\ PivotDocs \subseteq Nat
  <2>1. T \in WandDocs /\ T \in Nat /\ T < Exhausted /\ \A x \in PivotDocs : T <= x
    BY <1>0, PivotIs
  <2>2. \A x \in PivotDocs : x \in WandDocs
    BY <1>0, PivotsAre
  <2> QED BY <2>1, <2>2, ExhaustedIs
<1>2. c2 = [t \in WandTerms |-> IF t \in LiveTerms /\ Doc(t) < T THEN SkipTo(t, cursor[t], T) ELSE cursor[t]]
  BY DEF WandAlign
<1> HIDE DEF T
<1>3. \A t \in WandTerms : PDoc(postings[t], cursor[t]) \in Nat
  BY <1>0, PlaceIs
<1>4. ASSUME NEW t \in WandTerms
      PROVE  IF PDoc(postings[t], cursor[t]) < T
             THEN c2[t] = SkipTo(t, cursor[t], T) ELSE c2[t] = cursor[t]
  <2>1. Doc(t) = PDoc(postings[t], cursor[t])
    BY <1>0, Words
  <2>2. PDoc(postings[t], cursor[t]) < T => t \in LiveTerms
    <3>1. PDoc(postings[t], cursor[t]) < T => PDoc(postings[t], cursor[t]) # Exhausted
      BY <1>1, <1>3, ExhaustedIs
    <3> QED BY <1>0, <3>1, Words
  <2> HIDE DEF c2
  <2> QED BY <1>2, <2>1, <2>2
<1>5. DOMAIN c2 = WandTerms /\ c2 = [u \in WandTerms |-> c2[u]]
  BY <1>2
<1> HIDE DEF c2
<1>6. Hop(contrib, postings, cursor, c2, T)
  <2>1. ASSUME NEW t \in WandTerms
        PROVE  \/ c2[t] = cursor[t] /\ PDoc(postings[t], cursor[t]) + 1 >= T
               \/ c2[t] = SkipTo(t, cursor[t], T)
    BY <1>1, <1>3, <1>4
  <2>2. T <= Exhausted
    BY <1>1, ExhaustedIs
  <2> QED BY <1>0, <1>1, <1>5, <2>1, <2>2, SkipsHop
<1>7. CursorsOk(contrib, postings, c2)
  BY <1>6 DEF Hop
<1>8. HeapFine(contrib, postings, want, c2, heap, theta)
  BY <1>0, <1>6, HopHeap
<1>9. ASSUME NEW d \in WandDocs PROVE Fine(contrib, postings, want, c2, heap, theta, d)
  <2>1. Fine(contrib, postings, want, cursor, heap, theta, d)
    BY DEF WandInv, Sound
  <2>2. ASSUME Behind(contrib, postings, c2, d), ~Behind(contrib, postings, cursor, d)
        PROVE  Whole(contrib, d) <= theta /\ BSum(postings, c2, d) <= theta
    <3>0. d \in Nat /\ d < Exhausted
      BY ExhaustedIs
    <3>1. d < T /\ \A u \in WandTerms : contrib[u][d] > 0 => PDoc(postings[u], cursor[u]) <= d
      BY <1>0, <1>1, <1>6, <2>2, HopBehind
    <3>2. \A x \in PivotDocs : d < x
      <4> SUFFICES ASSUME NEW x \in PivotDocs PROVE d < x
        OBVIOUS
      <4>1. x \in Nat /\ T <= x /\ T \in Nat
        BY <1>1
      <4>2. d < T
        BY <3>1
      <4> QED BY <3>0, <4>1, <4>2
    <3>3. \A u \in WandTerms : PDoc(postings[u], cursor[u]) <= d =>
             TSum(postings, cursor, PDoc(postings[u], cursor[u])) <= theta
      <4>1. \A u \in WandTerms : PDoc(postings[u], cursor[u]) <= d
               => PDoc(postings[u], cursor[u]) # Exhausted
        BY <1>3, <3>0, ExhaustedIs
      <4>2. \A u \in WandTerms :
              PDoc(postings[u], cursor[u]) # Exhausted /\ PDoc(postings[u], cursor[u]) <= d
                => TSum(postings, cursor, PDoc(postings[u], cursor[u])) <= theta
        BY <1>0, <3>0, <3>2, NoneAhead
      <4> QED BY <4>1, <4>2
    <3>4. Whole(contrib, d) <= theta
      BY <1>0, <3>1, <3>3, NoPivotBound
    <3>5. Clear(contrib, postings, c2, d)
      <4> SUFFICES ASSUME NEW t \in WandTerms, contrib[t][d] > 0 PROVE PDoc(postings[t], c2[t]) > d
        BY DEF Clear
      <4>1. c2[t] = SkipTo(t, cursor[t], T)
        BY <1>1, <1>3, <1>4, <3>0, <3>1
      <4>2. PostingOk(postings[t], contrib[t]) /\ cursor[t] \in 1 .. Spent(t)
        BY <1>0 DEF CursorsOk, Spent
      <4>3. PDoc(postings[t], c2[t]) >= T
        <5>1. T <= Exhausted
          BY <1>1, ExhaustedIs
        <5> QED BY <1>1, <4>1, <4>2, <5>1, SkipHops
      <4>4. PDoc(postings[t], c2[t]) \in Nat
        BY <1>7, PlaceIs
      <4> QED BY <1>1, <3>0, <3>1, <4>3, <4>4
    <3>6. BSum(postings, c2, d) = 0
      BY <1>7, <3>5, ClearSum
    <3>7. BSum(postings, c2, d) <= theta
      BY <1>0, <3>6
    <3> QED BY <3>4, <3>7
  <2> QED BY <1>0, <1>1, <1>6, <2>1, <2>2, HopFine
<1>10. Sound(contrib, postings, want, c2, heap, theta, wandPc)
  BY <1>0, <1>7, <1>8, <1>9 DEF Sound
<1>11. /\ contrib' = contrib /\ postings' = postings /\ want' = want /\ cursor' = c2
       /\ heap' = heap /\ theta' = theta /\ wandPc' = wandPc
  BY DEF WandAlign, c2
<1>12. WandInv' = Sound(contrib', postings', want', cursor', heap', theta', wandPc')
  BY DEF WandInv
<1> QED BY <1>10, <1>11, <1>12

\* At the start nothing has been passed.
LEMMA StartSound ==
    ASSUME NEW inputs \in SUBSET [contrib : [WandTerms -> [WandDocs -> Nat]], want : Nat],
           WandInit(inputs)
    PROVE  WandInv
<1>0. /\ contrib \in [WandTerms -> [WandDocs -> Nat]] /\ want \in Nat
      /\ postings = [t \in WandTerms |-> Finalized(contrib[t])]
      /\ cursor = [t \in WandTerms |-> 1]
      /\ heap = {} /\ theta = 0
      /\ wandPc = IF want = 0 THEN "done" ELSE "search"
  <2>1. PICK in \in inputs : contrib = in.contrib /\ want = in.want
    BY DEF WandInit
  <2> QED BY <2>1 DEF WandInit
<1>1. ASSUME NEW t \in WandTerms
      PROVE  /\ PostingOk(postings[t], contrib[t])
             /\ Len(postings[t].docs) \in Nat
             /\ cursor[t] = 1 /\ cursor[t] \in 1 .. Len(postings[t].docs) + 1
  <2>1. contrib[t] \in [WandDocs -> Nat] /\ postings[t] = Finalized(contrib[t]) /\ cursor[t] = 1
    BY <1>0
  <2>2. ListOk(Finalized(contrib[t]), contrib[t]) /\ BlocksOk(Finalized(contrib[t]), contrib[t])
    BY <2>1, FinalizedList, FinalizedBlocks
  <2>3. PostingOk(postings[t], contrib[t])
    BY <2>1, <2>2 DEF PostingOk
  <2>4. Len(postings[t].docs) \in Nat
    BY <2>3 DEF PostingOk, ListOk
  <2> QED BY <2>1, <2>3, <2>4
<1>2. CursorsOk(contrib, postings, cursor)
  BY <1>0, <1>1 DEF CursorsOk
<1>3. HeapFine(contrib, postings, want, cursor, heap, theta)
  <2>1. IsFiniteSet(heap) /\ Cardinality(heap) = 0
    BY <1>0, FS_EmptySet
  <2> QED BY <1>0, <2>1 DEF HeapFine
<1>4. ASSUME NEW d \in WandDocs PROVE ~Behind(contrib, postings, cursor, d)
  <2> SUFFICES ASSUME NEW t \in WandTerms, contrib[t][d] > 0, PDoc(postings[t], cursor[t]) > d
               PROVE  FALSE
    BY DEF Behind
  <2>1. PICK j \in 1 .. Len(postings[t].docs) : postings[t].docs[j] = d
    BY <1>1 DEF PostingOk, ListOk
  <2>2. /\ PDoc(postings[t], j) = d /\ j \in 1 .. Len(postings[t].docs) + 1
        /\ 1 \in 1 .. Len(postings[t].docs) + 1
    BY <1>1, <2>1 DEF PDoc
  <2>3. j = 1 \/ PDoc(postings[t], 1) < PDoc(postings[t], j)
    <3>1. j = 1 \/ 1 < j
      BY <2>1
    <3> QED BY <1>1, <2>2, <3>1, DocMonotone
  <2>4. PDoc(postings[t], 1) \in Nat /\ d \in Nat /\ cursor[t] = 1
    BY <1>1, <1>2, PlaceIs, ExhaustedIs
  <2> QED BY <2>2, <2>3, <2>4
<1>5. \A d \in WandDocs : Fine(contrib, postings, want, cursor, heap, theta, d)
  BY <1>4 DEF Fine
<1>6. /\ wandPc \in {"search", "done"}
      /\ wandPc = "search" => want > 0
      /\ wandPc = "done" => want = 0
  BY <1>0
<1>7. theta \in Nat
  BY <1>0
<1> QED BY <1>0, <1>2, <1>3, <1>5, <1>6, <1>7 DEF WandInv, Sound

\* Every step keeps the invariant.
LEMMA StepSound ==
    ASSUME WandInv, [WandNext]_wandVars
    PROVE  WandInv'
<1>1. CASE WandStop
  BY <1>1, StopSound
<1>2. CASE WandPrune
  BY <1>2, PruneSound
<1>3. CASE WandScore
  BY <1>3, ScoreSound
<1>4. CASE WandAlign
  BY <1>4, AlignSound
<1>5. CASE UNCHANGED wandVars
  <2>1. /\ contrib' = contrib /\ postings' = postings /\ want' = want /\ cursor' = cursor
        /\ heap' = heap /\ theta' = theta /\ wandPc' = wandPc
    BY <1>5 DEF wandVars
  <2>2. WandInv' = Sound(contrib', postings', want', cursor', heap', theta', wandPc')
    BY DEF WandInv
  <2> QED BY <2>1, <2>2 DEF WandInv
<1> QED BY <1>1, <1>2, <1>3, <1>4, <1>5 DEF WandNext

\* What search_wand() skips is never an answer, for every posting list, block size and k:
\* every result has the score of the exhaustive path, and a document that was passed over
\* is no better than any of the k results held instead.
THEOREM SkipsLoseNothing ==
    ASSUME NEW inputs \in SUBSET [contrib : [WandTerms -> [WandDocs -> Nat]], want : Nat]
    PROVE  WandInit(inputs) /\ [][WandNext]_wandVars => []NothingLost
<1>1. WandInit(inputs) => WandInv
  BY StartSound
<1>2. WandInv /\ [WandNext]_wandVars => WandInv'
  BY StepSound
<1>3. WandInv => NothingLost
  BY NothingIsLost
<1> QED BY <1>1, <1>2, <1>3, PTL

-----------------------------------------------------------------------------
(* The document graph.                                                     *)

\* What n hops from the documents S reach; Connected and Mass are of this form.
Hops(f, g, S, n) == f = [i \in 0 .. n |-> IF i = 0 THEN S ELSE Spread1(g, f[i - 1])]
Reached(g, S, n) ==
    LET reach[i \in 0 .. n] == IF i = 0 THEN S ELSE Spread1(g, reach[i - 1])
    IN reach[n]

\* No edge leads out of T.
Closed(g, T) == \A d \in T : Adjacent(g, d) \subseteq T

LEMMA HopsExist ==
    ASSUME NEW g, NEW S, NEW n \in Nat
    PROVE  \E f : Hops(f, g, S, n)
<1> DEFINE N == {m \in Nat : \E f : Hops(f, g, S, m)}
<1>1. 0 \in N
  <2> DEFINE f == [i \in 0 .. 0 |-> S]
  <2>1. f = [i \in 0 .. 0 |-> IF i = 0 THEN S ELSE Spread1(g, f[i - 1])]
    OBVIOUS
  <2> HIDE DEF f
  <2>2. Hops(f, g, S, 0)
    BY <2>1 DEF Hops
  <2> QED BY <2>2
<1>2. ASSUME NEW m \in Nat, m \in N PROVE m + 1 \in N
  <2>1. PICK f : Hops(f, g, S, m)
    BY <1>2
  <2>2. \A i \in 0 .. m : f[i] = IF i = 0 THEN S ELSE Spread1(g, f[i - 1])
    BY <2>1 DEF Hops
  <2> DEFINE h == [i \in 0 .. (m + 1) |-> IF i = m + 1 THEN Spread1(g, f[m]) ELSE f[i]]
  <2>3. ASSUME NEW i \in 0 .. (m + 1)
        PROVE  h[i] = IF i = 0 THEN S ELSE Spread1(g, h[i - 1])
    <3>1. CASE i = m + 1
      <4>1. i # 0 /\ i - 1 = m /\ m \in 0 .. (m + 1) /\ m # m + 1
        BY <3>1
      <4>2. h[i] = Spread1(g, f[m]) /\ h[m] = f[m]
        BY <3>1, <4>1
      <4> HIDE DEF h
      <4> QED BY <4>1, <4>2
    <3>2. CASE i = 0
      <4>1. i # m + 1 /\ i \in 0 .. m
        BY <3>2
      <4>2. h[i] = f[i]
        BY <4>1
      <4> HIDE DEF h
      <4> QED BY <2>2, <3>2, <4>1, <4>2
    <3>3. CASE i # 0 /\ i # m + 1
      <4>1. i \in 0 .. m /\ i - 1 \in 0 .. (m + 1) /\ i - 1 # m + 1
        BY <3>3
      <4>2. h[i] = f[i] /\ h[i - 1] = f[i - 1]
        BY <3>3, <4>1
      <4> HIDE DEF h
      <4> QED BY <2>2, <3>3, <4>1, <4>2
    <3> QED BY <3>1, <3>2, <3>3
  <2>4. h = [i \in 0 .. (m + 1) |-> h[i]]
    OBVIOUS
  <2> HIDE DEF h
  <2>5. Hops(h, g, S, m + 1)
    BY <2>3, <2>4 DEF Hops
  <2> QED BY <2>5
<1>3. Nat \subseteq N
  <2> HIDE DEF N
  <2> QED BY <1>1, <1>2, Induction
<1> QED BY <1>3

LEMMA ReachedIs ==
    ASSUME NEW g, NEW S, NEW n \in Nat
    PROVE  \E f : /\ Reached(g, S, n) = f[n]
                  /\ f[0] = S
                  /\ \A i \in 0 .. n : i # n => f[i + 1] = Spread1(g, f[i])
<1> DEFINE f == CHOOSE h : Hops(h, g, S, n)
<1>1. Hops(f, g, S, n)
  BY HopsExist
<1>2. Reached(g, S, n) = f[n]
  BY DEF Reached, Hops
<1> HIDE DEF f
<1>3. \A i \in 0 .. n : f[i] = IF i = 0 THEN S ELSE Spread1(g, f[i - 1])
  BY <1>1 DEF Hops
<1>4. f[0] = S
  <2>1. 0 \in 0 .. n
    OBVIOUS
  <2> QED BY <1>3, <2>1
<1>5. ASSUME NEW i \in 0 .. n, i # n PROVE f[i + 1] = Spread1(g, f[i])
  <2>1. i + 1 \in 0 .. n /\ i + 1 # 0 /\ (i + 1) - 1 = i
    BY <1>5
  <2> QED BY <1>3, <2>1
<1> QED BY <1>2, <1>4, <1>5

\* What is reached stays in every set that no edge leads out of.
LEMMA ReachedStays ==
    ASSUME NEW g, NEW T, Closed(g, T), NEW S \in SUBSET T, NEW n \in Nat
    PROVE  Reached(g, S, n) \subseteq T
<1>1. PICK f : /\ Reached(g, S, n) = f[n]
               /\ f[0] = S
               /\ \A i \in 0 .. n : i # n => f[i + 1] = Spread1(g, f[i])
  BY ReachedIs
<1> DEFINE N == {i \in Nat : i \in 0 .. n => f[i] \subseteq T}
<1>2. 0 \in N
  BY <1>1
<1>3. ASSUME NEW i \in Nat, i \in N PROVE i + 1 \in N
  <2> SUFFICES ASSUME i + 1 \in 0 .. n PROVE f[i + 1] \subseteq T
    OBVIOUS
  <2>1. i \in 0 .. n /\ i # n
    OBVIOUS
  <2>2. f[i] \subseteq T /\ f[i + 1] = Spread1(g, f[i])
    BY <1>1, <1>3, <2>1
  <2> QED BY <2>2 DEF Spread1, Closed
<1>4. Nat \subseteq N
  <2> HIDE DEF N
  <2> QED BY <1>2, <1>3, Induction
<1>5. n \in 0 .. n
  OBVIOUS
<1> QED BY <1>1, <1>4, <1>5

LEMMA ConnectedIsReached ==
    ASSUME NEW g, NEW d
    PROVE  Connected(g, d) = Reached(g, {d}, g.count)
BY DEF Connected, Reached

LEMMA MassIsReached ==
    ASSUME NEW g, NEW S
    PROVE  Mass(g, S) = Reached(g, S, PprIters)
BY DEF Mass, Reached

\* As many hops as there are documents reach all that any number of hops does:
\* each adds a document until none is left to add.
LEMMA ConnectedIs ==
    ASSUME NEW g, g.count \in Nat, NEW d \in 1 .. g.count
    PROVE  /\ d \in Connected(g, d) /\ Connected(g, d) \subseteq 1 .. g.count
           /\ Closed(g, Connected(g, d))
<1> DEFINE n == g.count
           D == 1 .. g.count
<1>1. PICK f : /\ Reached(g, {d}, n) = f[n]
               /\ f[0] = {d}
               /\ \A i \in 0 .. n : i # n => f[i + 1] = Spread1(g, f[i])
  BY ReachedIs
<1>2. \A e : Adjacent(g, e) \subseteq D
  BY DEF Adjacent
<1>3. IsFiniteSet(D) /\ Cardinality(D) = n
  <2>1. 1 \in Int /\ n \in Int
    OBVIOUS
  <2>2. IsFiniteSet(D) /\ Cardinality(D) = IF 1 > n THEN 0 ELSE n - 1 + 1
    BY <2>1, FS_Interval
  <2> HIDE DEF D
  <2> QED BY <2>2
<1> HIDE DEF D
<1> DEFINE N == {i \in Nat : i \in 0 .. n =>
                    /\ d \in f[i] /\ f[i] \subseteq D
                    /\ Closed(g, f[i]) \/ Cardinality(f[i]) >= i + 1}
<1>4. 0 \in N
  <2>1. f[0] = {d} /\ d \in D
    BY <1>1 DEF D
  <2>2. Cardinality({d}) = 1
    BY FS_Singleton
  <2>3. Cardinality(f[0]) >= 0 + 1
    BY <2>1, <2>2
  <2> QED BY <2>1, <2>3
<1>5. ASSUME NEW i \in Nat, i \in N PROVE i + 1 \in N
  <2> SUFFICES ASSUME i + 1 \in 0 .. n
               PROVE  /\ d \in f[i + 1] /\ f[i + 1] \subseteq D
                      /\ Closed(g, f[i + 1]) \/ Cardinality(f[i + 1]) >= (i + 1) + 1
    OBVIOUS
  <2>1. i \in 0 .. n /\ i # n
    OBVIOUS
  <2> DEFINE a == f[i]
             b == f[i + 1]
  <2>2. /\ b = Spread1(g, a)
        /\ d \in a /\ a \subseteq D
        /\ Closed(g, a) \/ Cardinality(a) >= i + 1
    BY <1>1, <1>5, <2>1
  <2> HIDE DEF a, b
  <2>3. d \in b /\ b \subseteq D /\ a \subseteq b
    BY <1>2, <2>2 DEF Spread1
  <2>4. CASE Closed(g, a)
    <3>1. b = a
      BY <2>2, <2>4 DEF Spread1, Closed
    <3> QED BY <2>3, <2>4, <3>1 DEF b
  <2>5. CASE Cardinality(a) >= i + 1 /\ ~Closed(g, a)
    <3>1. a # b
      BY <2>2, <2>5 DEF Spread1, Closed
    <3>2. IsFiniteSet(a) /\ IsFiniteSet(b)
      BY <1>3, <2>2, <2>3, FS_Subset
    <3>3. Cardinality(a) <= Cardinality(b) /\ Cardinality(a) # Cardinality(b)
      <4>1. a \in SUBSET b
        BY <2>3
      <4> QED BY <3>1, <3>2, <4>1, FS_Subset
    <3>4. Cardinality(a) \in Nat /\ Cardinality(b) \in Nat
      BY <3>2, FS_CardinalityType
    <3>5. Cardinality(b) >= (i + 1) + 1
      BY <2>5, <3>3, <3>4
    <3> QED BY <2>3, <3>5 DEF b
  <2> QED BY <2>2, <2>4, <2>5
<1>6. Nat \subseteq N
  <2> HIDE DEF N
  <2> QED BY <1>4, <1>5, Induction
<1>7. n \in 0 .. n
  OBVIOUS
<1>8. /\ d \in f[n] /\ f[n] \subseteq D
      /\ Closed(g, f[n]) \/ Cardinality(f[n]) >= n + 1
  BY <1>6, <1>7
<1> HIDE DEF N
<1>9. Cardinality(f[n]) <= n /\ Cardinality(f[n]) \in Nat
  <2>1. f[n] \in SUBSET D
    BY <1>8
  <2> QED BY <1>3, <2>1, FS_Subset, FS_CardinalityType
<1>10. ~(Cardinality(f[n]) >= n + 1)
  BY <1>9
<1>11. Connected(g, d) = f[n]
  BY <1>1, ConnectedIsReached
<1> QED BY <1>8, <1>10, <1>11 DEF D

LEMMA ConnectedGrows ==
    ASSUME NEW g, g.count \in Nat, NEW d \in 1 .. g.count, NEW e \in Connected(g, d)
    PROVE  Connected(g, e) \subseteq Connected(g, d)
<1>1. Closed(g, Connected(g, d)) /\ {e} \in SUBSET Connected(g, d)
  BY ConnectedIs
<1>2. Reached(g, {e}, g.count) \subseteq Connected(g, d)
  BY <1>1, ReachedStays
<1> QED BY <1>2, ConnectedIsReached

LEMMA MassStays ==
    ASSUME NEW g, g.count \in Nat, NEW S \in SUBSET (1 .. g.count)
    PROVE  Mass(g, S) \subseteq UNION {Connected(g, d) : d \in S}
<1> DEFINE T == UNION {Connected(g, d) : d \in S}
<1>1. \A d \in S : d \in Connected(g, d) /\ Closed(g, Connected(g, d))
  BY ConnectedIs
<1>2. S \in SUBSET T
  BY <1>1
<1>3. Closed(g, T)
  BY <1>1 DEF Closed
<1> HIDE DEF T
<1>4. PprIters \in Nat
  BY DocGraphAssumption
<1>5. Reached(g, S, PprIters) \subseteq T
  BY <1>2, <1>3, <1>4, ReachedStays
<1> QED BY <1>5, MassIsReached DEF T

\* What is connected depends on the edges only.
LEMMA ConnectedSame ==
    ASSUME NEW g, g.count \in Nat, NEW h, h.count = g.count, h.weight = g.weight,
           NEW d \in 1 .. g.count
    PROVE  Connected(h, d) = Connected(g, d)
<1>1. \A e : Adjacent(h, e) = Adjacent(g, e)
  BY DEF Adjacent
<1>2. /\ Closed(g, Connected(g, d)) /\ {d} \in SUBSET Connected(g, d)
      /\ Closed(h, Connected(h, d)) /\ {d} \in SUBSET Connected(h, d)
  BY ConnectedIs
<1>3. Closed(h, Connected(g, d)) /\ Closed(g, Connected(h, d))
  BY <1>1, <1>2 DEF Closed
<1>4. Reached(h, {d}, h.count) \subseteq Connected(g, d)
  BY <1>2, <1>3, ReachedStays
<1>5. Reached(g, {d}, g.count) \subseteq Connected(h, d)
  BY <1>2, <1>3, ReachedStays
<1> QED BY <1>4, <1>5, ConnectedIsReached

\* The vote of a document's neighbours, from the count, the weights and the labels.
Neighbours(c, w, d) == {e \in 1 .. c : w[d][e] > 0}
Votes(c, w, lab, d, l) == SumOf([e \in {e \in Neighbours(c, w, d) : lab[e] = l} |-> w[d][e]])
VoteOf(c, w, lab, d) ==
    LET labels == {lab[e] : e \in Neighbours(c, w, d)}
    IN IF labels = {} THEN lab[d]
       ELSE CHOOSE l \in labels : \A m \in labels \ {l} :
               \/ Votes(c, w, lab, d, l) > Votes(c, w, lab, d, m)
               \/ Votes(c, w, lab, d, l) = Votes(c, w, lab, d, m) /\ l < m

LEMMA VotedIsVote ==
    ASSUME NEW g, NEW d
    PROVE  Voted(g, d) = VoteOf(g.count, g.weight, g.label, d)
BY DEF Voted, VoteOf, Votes, Neighbours, Adjacent, SumOver

\* A graph as a build makes it.
GraphOk(g) ==
    /\ g.count \in Nat
    /\ g.weight \in [1 .. g.count -> [1 .. g.count -> Nat]]
    /\ g.label \in [1 .. g.count -> 1 .. g.count]

\* A document votes for its own label or for that of a neighbour.
LEMMA VotedIs ==
    ASSUME NEW g, GraphOk(g), NEW d \in 1 .. g.count
    PROVE  Voted(g, d) = g.label[d] \/ \E e \in Adjacent(g, d) : Voted(g, d) = g.label[e]
<1> DEFINE c == g.count
           w == g.weight
           lab == g.label
           near == Neighbours(c, w, d)
           labels == {lab[e] : e \in near}
           votes(l) == Votes(c, w, lab, d, l)
           R == {q \in labels \X labels :
                   votes(q[1]) > votes(q[2]) \/ (votes(q[1]) = votes(q[2]) /\ q[1] < q[2])}
<1>1. /\ c \in Nat /\ near \subseteq 1 .. c /\ near = Adjacent(g, d)
      /\ \A e \in 1 .. c : lab[e] \in 1 .. c /\ w[d][e] \in Nat
  BY DEF GraphOk, Neighbours, Adjacent
<1>2. Voted(g, d) = VoteOf(c, w, lab, d)
  BY VotedIsVote
<1>3. IsFiniteSet(1 .. c)
  <2>1. 1 \in Int /\ c \in Int
    BY <1>1
  <2> HIDE DEF c
  <2> QED BY <2>1, FS_Interval
<1> HIDE DEF near
<1>4. labels \in SUBSET (1 .. c) /\ IsFiniteSet(labels)
  <2>1. labels \in SUBSET (1 .. c)
    BY <1>1
  <2> HIDE DEF labels
  <2> QED BY <1>3, <2>1, FS_Subset
<1>5. ASSUME NEW l PROVE votes(l) \in Nat
  <2> DEFINE E == {e \in near : lab[e] = l}
             v == [e \in E |-> w[d][e]]
  <2>1. IsFiniteSet(E) /\ v \in [E -> Nat]
    <3>1. E \in SUBSET (1 .. c) /\ \A e \in E : w[d][e] \in Nat
      BY <1>1
    <3> HIDE DEF E
    <3>2. IsFiniteSet(E)
      BY <1>3, <3>1, FS_Subset
    <3> QED BY <3>1, <3>2
  <2>2. votes(l) = SumOf(v)
    BY DEF Votes, near
  <2> HIDE DEF v, E
  <2>3. \E s : Adds(s, E, v)
    BY <2>1, SumIs
  <2>4. SumOf(v) \in Nat
    <3>1. E \in SUBSET E
      OBVIOUS
    <3> QED BY <2>3, <3>1 DEF Adds
  <2> QED BY <2>2, <2>4
<1> HIDE DEF labels, votes
<1>6. \A l, m \in labels :
         <<l, m>> \in R <=> votes(l) > votes(m) \/ (votes(l) = votes(m) /\ l < m)
  OBVIOUS
<1> HIDE DEF R
<1>7. \A l \in labels : l \in Int /\ votes(l) \in Int
  BY <1>4, <1>5
<1>8. Orders(R, labels)
  <2>1. \A l \in labels : <<l, l>> \notin R
    BY <1>6, <1>7
  <2>2. \A l, m \in labels : l # m => <<l, m>> \in R \/ <<m, l>> \in R
    BY <1>6, <1>7
  <2>3. \A l, m, o \in labels : <<l, m>> \in R /\ <<m, o>> \in R => <<l, o>> \in R
    BY <1>6, <1>7
  <2> QED BY <2>1, <2>2, <2>3 DEF Orders
<1>9. CASE labels = {}
  BY <1>2, <1>9 DEF VoteOf, labels, near
<1>10. CASE labels # {}
  <2>1. Cardinality(labels) \in Nat /\ Cardinality(labels) # 0
    BY <1>4, <1>10, FS_CardinalityType, FS_EmptySet
  <2>2. 0 \in 0 .. (Cardinality(labels) - 1)
    BY <2>1
  <2>3. \E l \in labels : Cardinality(Before(R, labels, l)) = 0
    <3>1. IsFiniteSet(labels) /\ Orders(R, labels)
      BY <1>4, <1>8
    <3>2. \A n \in 0 .. (Cardinality(labels) - 1) :
             \E l \in labels : Cardinality(Before(R, labels, l)) = n
      BY <3>1, Places
    <3> QED BY <2>2, <3>2
  <2>4. PICK l \in labels : Cardinality(Before(R, labels, l)) = 0
    BY <2>3
  <2>5. Before(R, labels, l) = {}
    <3>1. Before(R, labels, l) \in SUBSET labels
      BY DEF Before
    <3>2. IsFiniteSet(Before(R, labels, l))
      BY <1>4, <3>1, FS_Subset
    <3> QED BY <2>4, <3>2, FS_EmptySet
  <2>6. \A m \in labels \ {l} : <<l, m>> \in R
    BY <1>8, <2>5 DEF Orders, Before
  <2>7. \A m \in labels \ {l} : votes(l) > votes(m) \/ (votes(l) = votes(m) /\ l < m)
    BY <1>6, <2>6
  <2> DEFINE Wins(x) == \A m \in labels \ {x} :
                           votes(x) > votes(m) \/ (votes(x) = votes(m) /\ x < m)
  <2>8. VoteOf(c, w, lab, d) = CHOOSE x \in labels : Wins(x)
    BY <1>10 DEF VoteOf, labels, near, votes
  <2>9. \E x \in labels : Wins(x)
    BY <2>7
  <2> HIDE DEF Wins
  <2>10. Voted(g, d) \in labels
    BY <1>2, <2>8, <2>9
  <2> QED BY <1>1, <2>10 DEF labels
<1> QED BY <1>9, <1>10

-----------------------------------------------------------------------------
(* The graph's invariant.                                                  *)

\* What a build needs of the texts: the similarities are numbers.
TextsAre(t) == \A d, e \in 1 .. MaxDocs : d # e => t.sim[{d, e}] \in Nat

\* Labels never leave the community of what edges connect.
GraphFits(g) == GraphOk(g) /\ \A d \in 1 .. g.count : g.label[d] \in Connected(g, d)

\* The first n documents have the labels their neighbours vote for.
SettledTo(g, n) == \A d \in 1 .. g.count : d <= n => Voted(g, d) = g.label[d]

BuiltIs == built = [count |-> built.count, weight |-> built.weight,
                    label |-> built.label, lead |-> built.lead]
\* The cached graph is the last one built.
CachedIs(g, b) == g.count = b.count /\ g.weight = b.weight /\ g.label = b.label

GraphInv ==
    /\ TextsAre(texts) /\ docCount \in 1 .. MaxDocs
    /\ BuiltIs /\ GraphFits(built)
    /\ gPc = "propagate" =>
          /\ built.count = docCount /\ lpRound \in Nat /\ lpAt \in Nat
          /\ ~lpChanged => SettledTo(built, lpAt - 1)
    /\ gPc # "propagate" =>
          /\ CachedIs(graph, built) /\ lpRound \in Nat
          /\ graphDocs = -1 \/ graphDocs = graph.count
          /\ graph.count > 0 /\ lpRound <= LpRounds => SettledTo(built, built.count)
    /\ gPc = "ready" => graph.count = docCount
    /\ gPc \in {"propagate", "ready"} => seeds = {}
    /\ seeds # {} => found \subseteq UNION {Connected(graph, d) : d \in seeds}

LEMMA SettledSame ==
    ASSUME NEW g, NEW h, CachedIs(g, h), NEW n, SettledTo(h, n)
    PROVE  SettledTo(g, n)
<1>1. \A d : Voted(g, d) = Voted(h, d)
  BY VotedIsVote DEF CachedIs
<1> QED BY <1>1 DEF SettledTo, CachedIs

\* What the invariant says of the graph that is handed out.
LEMMA InvariantSound ==
    ASSUME GraphInv
    PROVE  GraphSound
<1>1. \A d \in 1 .. built.count : built.label[d] \in Connected(built, d)
  BY DEF GraphInv, GraphFits
<1>2. ASSUME gPc = "ready", graph.count > 0, lpRound <= LpRounds
      PROVE  \A d \in 1 .. graph.count : Voted(graph, d) = graph.label[d]
  <2>1. CachedIs(graph, built) /\ SettledTo(built, built.count) /\ graph.count = built.count
    BY <1>2 DEF GraphInv, CachedIs
  <2>2. SettledTo(graph, built.count)
    BY <2>1, SettledSame
  <2>3. built.count \in Nat
    BY DEF GraphInv, GraphFits, GraphOk
  <2> QED BY <2>1, <2>2, <2>3 DEF SettledTo
<1>3. CommunitiesSettled
  BY <1>1, <1>2 DEF CommunitiesSettled
<1>4. GraphCoversAdded
  BY DEF GraphInv, GraphCoversAdded
<1> QED BY <1>3, <1>4 DEF GraphSound

LEMMA GraphInitially ==
    ASSUME NEW inputs, \A t \in inputs : TextsAre(t)
    PROVE  GraphInit(inputs) => GraphInv
<1> SUFFICES ASSUME GraphInit(inputs) PROVE GraphInv
  OBVIOUS
<1>1. TextsAre(texts) /\ docCount \in 1 .. MaxDocs
  BY DocGraphAssumption DEF GraphInit
<1>2. built = NoGraph /\ graph = NoGraph /\ NoGraph.count = 0
  BY DEF GraphInit, NoGraph
<1>3. GraphFits(NoGraph)
  <2>1. 1 .. NoGraph.count = {}
    BY <1>2
  <2>2. << >> \in [{} -> [{} -> Nat]] /\ << >> \in [{} -> {}]
    OBVIOUS
  <2>3. NoGraph.weight = << >> /\ NoGraph.label = << >>
    BY DEF NoGraph
  <2>4. GraphOk(NoGraph)
    BY <1>2, <2>1, <2>2, <2>3 DEF GraphOk
  <2> QED BY <2>1, <2>4 DEF GraphFits
<1>4. BuiltIs /\ CachedIs(graph, built)
  BY <1>2 DEF BuiltIs, CachedIs, NoGraph
<1> QED BY <1>1, <1>2, <1>3, <1>4 DEF GraphInv, GraphInit

\* A build starts from numbers.
LEMMA WeightsAre ==
    ASSUME TextsAre(texts), docCount \in 1 .. MaxDocs,
           NEW near, NEW d \in Docs, NEW e \in Docs
    PROVE  EdgeWeight(near, d, e) \in Nat
<1>1. CASE d = e
  BY <1>1 DEF EdgeWeight
<1>2. CASE d # e
  <2> DEFINE link(x, y) == IF y \in texts.links[x] THEN LinkWeight ELSE 0
             like(x, y) == IF y \in near[x] THEN texts.sim[{x, y}] ELSE 0
  <2>1. d \in 1 .. MaxDocs /\ e \in 1 .. MaxDocs
    BY DocGraphAssumption DEF Docs
  <2>2. texts.sim[{d, e}] \in Nat /\ texts.sim[{e, d}] \in Nat
    BY <1>2, <2>1 DEF TextsAre
  <2>3. LinkWeight \in Nat
    BY DocGraphAssumption
  <2>4. link(d, e) \in Nat /\ link(e, d) \in Nat /\ like(d, e) \in Nat /\ like(e, d) \in Nat
    BY <2>2, <2>3
  <2>5. EdgeWeight(near, d, e) = (link(d, e) + like(d, e)) + (link(e, d) + like(e, d))
    BY <1>2 DEF EdgeWeight
  <2> HIDE DEF link, like
  <2> QED BY <2>4, <2>5
<1> QED BY <1>1, <1>2

LEMMA StartStep ==
    ASSUME GraphInv, StartBuild, seeds' = {}, UNCHANGED <<texts, docCount>>
    PROVE  GraphInv'
<1>1. PICK low \in BOOLEAN :
         built' = [NoGraph EXCEPT
                !.count = docCount,
                !.weight = [d \in Docs |-> [e \in Docs |->
                              EdgeWeight([x \in Docs |-> NearestDocs(x, low)], d, e)]],
                !.label = [d \in Docs |-> d]]
  BY DEF StartBuild
<1> DEFINE near == [x \in Docs |-> NearestDocs(x, low)]
           w == [d \in Docs |-> [e \in Docs |-> EdgeWeight(near, d, e)]]
           lab == [d \in Docs |-> d]
<1>2. built' = [count |-> docCount, weight |-> w, label |-> lab, lead |-> {}]
  <2> HIDE DEF near
  <2> QED BY <1>1 DEF NoGraph, near
<1>3. TextsAre(texts) /\ docCount \in 1 .. MaxDocs /\ docCount \in Nat /\ Docs = 1 .. docCount
  BY DEF GraphInv, Docs
<1>4. w \in [Docs -> [Docs -> Nat]]
  <2> HIDE DEF near
  <2>1. \A d, e \in Docs : EdgeWeight(near, d, e) \in Nat
    BY <1>3, WeightsAre
  <2> QED BY <2>1
<1>5. lab \in [Docs -> Docs] /\ \A d \in Docs : lab[d] = d
  OBVIOUS
<1> HIDE DEF w, lab
<1>6. /\ built'.count = docCount /\ built'.weight = w /\ built'.label = lab
      /\ BuiltIs'
  BY <1>2 DEF BuiltIs
<1>7. GraphOk(built')
  BY <1>3, <1>4, <1>5, <1>6 DEF GraphOk
<1>8. GraphFits(built')
  <2>1. ASSUME NEW d \in 1 .. built'.count PROVE built'.label[d] \in Connected(built', d)
    <3>1. built'.label[d] = d /\ built'.count \in Nat
      BY <1>3, <1>5, <1>6
    <3>2. d \in Connected(built', d)
      BY <3>1, ConnectedIs
    <3> QED BY <3>1, <3>2
  <2> QED BY <1>7, <2>1 DEF GraphFits
<1>9. gPc' = "propagate" /\ lpRound' = 1 /\ lpAt' = 1
  BY DEF StartBuild
<1>10. SettledTo(built', lpAt' - 1)
  <2>1. lpAt' - 1 = 0
    BY <1>9
  <2>2. \A d \in 1 .. built'.count : ~(d <= 0)
    BY <1>3, <1>6
  <2> QED BY <2>1, <2>2 DEF SettledTo
<1>11. (gPc \in {"propagate", "ready"} => seeds = {})'
  BY <1>9
<1>12. /\ TextsAre(texts)' /\ (docCount \in 1 .. MaxDocs)'
       /\ lpRound' \in Nat /\ lpAt' \in Nat
  BY <1>3, <1>9
<1>13. built'.count = docCount'
  BY <1>6
<1> QED BY <1>6, <1>8, <1>9, <1>10, <1>12, <1>13 DEF GraphInv

\* What the calls outside a build keep.
CachedKept ==
    UNCHANGED <<texts, graph, graphDocs, built, lpRound, lpAt, lpChanged>>

LEMMA KeptStep ==
    ASSUME GraphInv, gPc # "propagate", gPc' # "propagate", CachedKept,
           docCount' \in 1 .. MaxDocs,
           gPc' = "ready" => graph.count = docCount' /\ seeds' = {},
           seeds' # {} => found' \subseteq UNION {Connected(graph, d) : d \in seeds'}
    PROVE  GraphInv'
<1>1. /\ TextsAre(texts)' /\ BuiltIs' /\ GraphFits(built)' /\ CachedIs(graph, built)'
      /\ (lpRound \in Nat)' /\ (graphDocs = -1 \/ graphDocs = graph.count)'
      /\ (graph.count > 0 /\ lpRound <= LpRounds => SettledTo(built, built.count))'
  BY DEF GraphInv, CachedKept, BuiltIs
<1>2. /\ (gPc = "ready" => graph.count = docCount)'
      /\ (gPc \in {"propagate", "ready"} => seeds = {})'
      /\ (seeds # {} => found \subseteq UNION {Connected(graph, d) : d \in seeds})'
  BY DEF CachedKept
<1> QED BY <1>1, <1>2 DEF GraphInv

LEMMA LabelKeeps ==
    ASSUME GraphInv, LabelStep
    PROVE  GraphInv'
<1> DEFINE new == Voted(built, lpAt)
<1>1. /\ gPc = "propagate" /\ gPc' = "propagate" /\ lpAt <= built.count
      /\ lpAt' = lpAt + 1 /\ lpRound' = lpRound
      /\ UNCHANGED <<texts, docCount, seeds, found>>
      /\ built' = [built EXCEPT !.label[lpAt] = new]
      /\ lpChanged' = (lpChanged \/ new # built.label[lpAt])
  BY DEF LabelStep, InRound
<1>2. /\ BuiltIs /\ GraphFits(built) /\ built.count = docCount
      /\ lpRound \in Nat /\ lpAt \in Nat
      /\ ~lpChanged => SettledTo(built, lpAt - 1)
      /\ TextsAre(texts) /\ docCount \in 1 .. MaxDocs /\ seeds = {}
  BY <1>1 DEF GraphInv
<1> HIDE DEF new
<1>3. built' = [count |-> built.count, weight |-> built.weight,
                label |-> [built.label EXCEPT ![lpAt] = new], lead |-> built.lead]
  BY <1>1, <1>2 DEF BuiltIs
<1>4. /\ built'.count = built.count /\ built'.weight = built.weight
      /\ built'.label = [built.label EXCEPT ![lpAt] = new] /\ BuiltIs'
  BY <1>3 DEF BuiltIs
<1>5. /\ built.count \in Nat
      /\ built.weight \in [1 .. built.count -> [1 .. built.count -> Nat]]
      /\ built.label \in [1 .. built.count -> 1 .. built.count]
      /\ \A d \in 1 .. built.count : built.label[d] \in Connected(built, d)
  BY <1>2 DEF GraphFits, GraphOk
<1>6. lpAt = 0 \/ lpAt \in 1 .. built.count
  BY <1>1, <1>2, <1>5
<1>7. ASSUME lpAt \in 1 .. built.count
      PROVE  new \in Connected(built, lpAt) /\ new \in 1 .. built.count
  <2>1. Connected(built, lpAt) \subseteq 1 .. built.count /\ lpAt \in Connected(built, lpAt)
        /\ Closed(built, Connected(built, lpAt))
    BY <1>5, <1>7, ConnectedIs
  <2>2. new = built.label[lpAt] \/ \E e \in Adjacent(built, lpAt) : new = built.label[e]
    BY <1>2, <1>7, VotedIs DEF new, GraphFits
  <2>3. CASE new = built.label[lpAt]
    BY <1>5, <1>7, <2>1, <2>3
  <2>4. CASE \E e \in Adjacent(built, lpAt) : new = built.label[e]
    <3>1. PICK e \in Adjacent(built, lpAt) : new = built.label[e]
      BY <2>4
    <3>2. e \in Connected(built, lpAt) /\ e \in 1 .. built.count
      BY <2>1, <3>1 DEF Closed, Adjacent
    <3>3. Connected(built, e) \subseteq Connected(built, lpAt)
      BY <1>5, <1>7, <3>2, ConnectedGrows
    <3>4. new \in Connected(built, e)
      BY <1>5, <3>1, <3>2
    <3> QED BY <2>1, <3>3, <3>4
  <2> QED BY <2>2, <2>3, <2>4
<1>8. \A d \in 1 .. built.count :
         built'.label[d] \in Connected(built, d) /\ built'.label[d] \in 1 .. built.count
  BY <1>4, <1>5, <1>7
<1>9. GraphOk(built')
  <2>1. built'.label \in [1 .. built.count -> 1 .. built.count]
    BY <1>4, <1>5, <1>8
  <2> QED BY <1>4, <1>5, <2>1 DEF GraphOk
<1>10. GraphFits(built')
  <2>1. \A d \in 1 .. built.count : Connected(built', d) = Connected(built, d)
    BY <1>4, <1>5, ConnectedSame
  <2> QED BY <1>4, <1>8, <1>9, <2>1 DEF GraphFits
<1>11. ASSUME ~lpChanged' PROVE SettledTo(built', lpAt' - 1)
  <2>1. ~lpChanged /\ new = built.label[lpAt]
    BY <1>1, <1>11
  <2>2. built'.label = built.label
    BY <1>4, <1>5, <2>1
  <2>3. \A d \in 1 .. built.count : d <= lpAt - 1 => Voted(built, d) = built.label[d]
    BY <1>2, <2>1 DEF SettledTo
  <2>4. Voted(built, lpAt) = built.label[lpAt]
    BY <2>1 DEF new
  <2>5. \A d \in 1 .. built.count : d <= lpAt' - 1 => d <= lpAt - 1 \/ d = lpAt
    BY <1>1, <1>2, <1>5
  <2>6. SettledTo(built, lpAt' - 1)
    BY <2>3, <2>4, <2>5 DEF SettledTo
  <2>7. CachedIs(built', built)
    BY <1>4, <2>2 DEF CachedIs
  <2> QED BY <2>6, <2>7, SettledSame
<1>12. (lpAt \in Nat)' /\ (lpRound \in Nat)'
  BY <1>1, <1>2
<1>13. /\ TextsAre(texts)' /\ (docCount \in 1 .. MaxDocs)' /\ seeds' = {}
       /\ built'.count = docCount'
  BY <1>1, <1>2, <1>4
<1> QED BY <1>1, <1>4, <1>10, <1>11, <1>12, <1>13 DEF GraphInv

LEMMA RoundKeeps ==
    ASSUME GraphInv, NextRound
    PROVE  GraphInv'
<1>1. /\ gPc = "propagate" /\ gPc' = "propagate"
      /\ lpRound' = lpRound + 1 /\ lpAt' = 1
      /\ UNCHANGED <<texts, docCount, seeds, found, built>>
  BY DEF NextRound
<1>2. /\ BuiltIs /\ GraphFits(built) /\ built.count = docCount /\ lpRound \in Nat
      /\ TextsAre(texts) /\ docCount \in 1 .. MaxDocs /\ seeds = {}
  BY <1>1 DEF GraphInv
<1>3. SettledTo(built', lpAt' - 1)
  <2>1. lpAt' - 1 = 0
    BY <1>1
  <2>2. \A d \in 1 .. built.count : ~(d <= 0)
    BY <1>2 DEF GraphFits, GraphOk
  <2> QED BY <1>1, <2>1, <2>2 DEF SettledTo
<1>4. (lpAt \in Nat)' /\ (lpRound \in Nat)'
  BY <1>1, <1>2
<1>5. BuiltIs'
  BY <1>1, <1>2 DEF BuiltIs
<1> QED BY <1>1, <1>2, <1>3, <1>4, <1>5 DEF GraphInv

LEMMA BuildEnds ==
    ASSUME GraphInv, GraphBuilt
    PROVE  GraphInv'
<1>1. /\ gPc = "propagate" /\ gPc' = "ready"
      /\ lpRound > LpRounds \/ (lpAt > built.count /\ ~lpChanged)
      /\ graphDocs' = docCount
      /\ UNCHANGED <<texts, docCount, seeds, found, built, lpRound, lpAt, lpChanged>>
  BY DEF GraphBuilt, building
<1>2. /\ BuiltIs /\ GraphFits(built) /\ built.count = docCount
      /\ lpRound \in Nat /\ lpAt \in Nat
      /\ ~lpChanged => SettledTo(built, lpAt - 1)
      /\ TextsAre(texts) /\ docCount \in 1 .. MaxDocs /\ seeds = {}
  BY <1>1 DEF GraphInv
<1>3. CachedIs(graph', built)
  <2>1. PICK lead : graph' = [built EXCEPT !.lead = lead]
    BY DEF GraphBuilt
  <2>2. graph' = [count |-> built.count, weight |-> built.weight,
                  label |-> built.label, lead |-> lead]
    BY <1>2, <2>1 DEF BuiltIs
  <2> QED BY <2>2 DEF CachedIs
<1>4. ASSUME lpRound <= LpRounds PROVE SettledTo(built, built.count)
  <2>1. LpRounds \in Nat
    BY DocGraphAssumption
  <2>2. lpAt > built.count /\ ~lpChanged
    BY <1>1, <1>2, <1>4, <2>1
  <2>3. built.count \in Nat
    BY <1>2 DEF GraphFits, GraphOk
  <2>4. \A d \in 1 .. built.count : d <= lpAt - 1
    BY <1>2, <2>2, <2>3
  <2> QED BY <1>2, <2>2, <2>4 DEF SettledTo
<1>5. graph'.count = docCount
  BY <1>2, <1>3 DEF CachedIs
<1>6. BuiltIs'
  BY <1>1, <1>2 DEF BuiltIs
<1> QED BY <1>1, <1>2, <1>3, <1>4, <1>5, <1>6 DEF GraphInv

LEMMA GraphStep ==
    ASSUME GraphInv, [GraphNext]_graphVars
    PROVE  GraphInv'
<1>1. /\ docCount \in 1 .. MaxDocs /\ MaxDocs \in Nat
      /\ gPc # "propagate" =>
            /\ graphDocs = -1 \/ graphDocs = graph.count
            /\ gPc = "ready" => graph.count = docCount
  BY DocGraphAssumption DEF GraphInv
<1>2. CASE AddDocument
  <2>1. docCount' \in 1 .. MaxDocs
    BY <1>1, <1>2 DEF AddDocument
  <2>2. gPc # "propagate" /\ gPc' = "idle" /\ CachedKept /\ seeds' = {}
    BY <1>2 DEF AddDocument, CachedKept, building
  <2> QED BY <2>1, <2>2, KeptStep
<1>3. CASE RemoveDocument
  <2>1. gPc # "propagate" /\ gPc' = "idle" /\ CachedKept /\ seeds' = {} /\ docCount' = docCount
    BY <1>3 DEF RemoveDocument, CachedKept, building
  <2> QED BY <1>1, <2>1, KeptStep
<1>4. CASE AskGraph
  <2>1. /\ gPc = "idle" /\ seeds' = {} /\ UNCHANGED <<texts, docCount, gone, graph, graphDocs>>
        /\ (graphDocs = docCount /\ UseCached) \/ StartBuild
    BY <1>4 DEF AskGraph
  <2>2. CASE graphDocs = docCount /\ UseCached
    <3>1. gPc' = "ready" /\ CachedKept
      BY <2>1, <2>2 DEF UseCached, CachedKept, building
    <3>2. graph.count = docCount
      BY <1>1, <2>1, <2>2
    <3> QED BY <1>1, <2>1, <3>1, <3>2, KeptStep
  <2>3. CASE StartBuild
    BY <2>1, <2>3, StartStep
  <2> QED BY <2>1, <2>2, <2>3
<1>5. CASE LabelStep
  BY <1>5, LabelKeeps
<1>6. CASE NextRound
  BY <1>6, RoundKeeps
<1>7. CASE GraphBuilt
  BY <1>7, BuildEnds
<1>8. CASE LocalSearch
  <2>1. /\ gPc = "ready" /\ gPc' = "idle" /\ CachedKept /\ docCount' = docCount
        /\ seeds' \subseteq Docs /\ found' \subseteq Mass(graph, seeds')
    BY <1>8 DEF LocalSearch, CachedKept, building
  <2>2. graph.count \in Nat /\ graph.count = docCount
    BY <1>1, <2>1
  <2>3. Mass(graph, seeds') \subseteq UNION {Connected(graph, d) : d \in seeds'}
    BY <2>1, <2>2, MassStays DEF Docs
  <2> QED BY <1>1, <2>1, <2>3, KeptStep
<1>9. CASE GlobalSearch
  <2>1. /\ gPc = "ready" /\ gPc' = "idle" /\ CachedKept /\ docCount' = docCount /\ seeds' = {}
    BY <1>9 DEF GlobalSearch, CachedKept, building
  <2> QED BY <1>1, <2>1, KeptStep
<1>10. CASE UNCHANGED graphVars
  <2>1. CachedKept /\ UNCHANGED <<docCount, gPc, seeds, found>>
    BY <1>10 DEF graphVars, CachedKept
  <2> QED BY <2>1 DEF GraphInv, CachedKept, BuiltIs
<1> QED BY <1>2, <1>3, <1>4, <1>5, <1>6, <1>7, <1>8, <1>9, <1>10 DEF GraphNext

\* Whatever documents are added and removed, and whatever is asked of the graph
\* at whatever number of documents, labels stay where paths lead, a propagation
\* that stops early has settled, no search runs on a graph that misses a
\* document, and a local search finds only what paths join to its seeds.
THEOREM GraphsAreSound ==
    ASSUME NEW inputs, \A t \in inputs : TextsAre(t)
    PROVE  GraphInit(inputs) /\ [][GraphNext]_graphVars => []GraphSound
<1>1. GraphInit(inputs) => GraphInv
  BY GraphInitially
<1>2. GraphInv /\ [GraphNext]_graphVars => GraphInv'
  BY GraphStep
<1>3. GraphInv => GraphSound
  BY InvariantSound
<1> QED BY <1>1, <1>2, <1>3, PTL

-----------------------------------------------------------------------------
(* The learned-sparse index.                                               *)

Idfs == [t \in Vocab |-> Idf(t)]
Vecs == [d \in DOMAIN spChunks |-> [t \in Heavy(Idfs, spChunks[d]) |-> 120 * Idfs[t]]]

\* A term pulls in terms it occurs with.
Pulls(e) == \A t \in Vocab : \A u \in DOMAIN e[t] : Together(t, u) > 0 /\ e[t][u] \in Nat

\* The parts that a blob keeps are those of the corpus.
Faithful(x) == x.vocab = Vocab /\ x.idf = Idfs /\ x.vecs = Vecs /\ Pulls(x.expand)

SpladeInv ==
    /\ spChunks \in Seq(SUBSET SpTerms) /\ spBuilt.decay \in Nat
    /\ spPc = "start" => spBlob = NoBlob
    /\ spPc # "start" =>
          /\ Faithful(spIndex) /\ spIndex.inverted = Transposed(Vecs, Vocab)
          /\ spCfg = spBuilt \/ spCfg = DefaultCfg
    /\ spBlob # NoBlob /\ spBlob.whole => Faithful(spBlob)
    /\ SparseSurvivesReload

-----------------------------------------------------------------------------
\* The corpus' own numbers.
LEMMA NumbersAre ==
    ASSUME spChunks \in Seq(SUBSET SpTerms)
    PROVE  /\ IsFiniteSet(DOMAIN spChunks) /\ DOMAIN spChunks = 1 .. Len(spChunks)
           /\ Vocab \subseteq SpTerms /\ \A d \in DOMAIN spChunks : spChunks[d] \subseteq Vocab
           /\ \A t : DocFreq(t) \in 0 .. Len(spChunks) /\ Idf(t) \in Nat \ {0}
           /\ \A a, b : /\ Together(a, b) \in Nat /\ Pull(a, b) \in Nat
                        /\ Together(a, b) > 0 => \E d \in DOMAIN spChunks : {a, b} \subseteq spChunks[d]
<1>1. Len(spChunks) \in Nat /\ DOMAIN spChunks = 1 .. Len(spChunks)
      /\ \A d \in DOMAIN spChunks : spChunks[d] \subseteq SpTerms
  OBVIOUS
<1>2. IsFiniteSet(DOMAIN spChunks) /\ Cardinality(DOMAIN spChunks) = Len(spChunks)
  <2> DEFINE n == Len(spChunks)
  <2>1. 1 \in Int /\ n \in Int
    BY <1>1
  <2> HIDE DEF n
  <2>2. IsFiniteSet(1 .. n) /\ Cardinality(1 .. n) = IF 1 > n THEN 0 ELSE n - 1 + 1
    BY <2>1, FS_Interval
  <2>3. n \in Nat
    BY <1>1 DEF n
  <2>4. Cardinality(1 .. n) = n
    BY <2>2, <2>3
  <2> QED BY <1>1, <2>2, <2>4 DEF n
<1>3. ASSUME NEW S \in SUBSET (DOMAIN spChunks)
      PROVE  IsFiniteSet(S) /\ Cardinality(S) \in Nat /\ Cardinality(S) <= Len(spChunks)
  BY <1>2, FS_Subset, FS_CardinalityType
<1>4. ASSUME NEW t PROVE DocFreq(t) \in 0 .. Len(spChunks) /\ Idf(t) \in Nat \ {0}
  <2> DEFINE S == {d \in DOMAIN spChunks : t \in spChunks[d]}
  <2>1. Cardinality(S) \in Nat /\ Cardinality(S) <= Len(spChunks)
    BY <1>3
  <2>2. DocFreq(t) = Cardinality(S)
    BY DEF DocFreq
  <2> HIDE DEF S
  <2>3. DocFreq(t) \in 0 .. Len(spChunks)
    BY <1>1, <2>1, <2>2
  <2>4. Len(spChunks) - DocFreq(t) + 1 \in Nat \ {0}
    BY <1>1, <2>3
  <2> QED BY <2>3, <2>4 DEF Idf
<1>5. ASSUME NEW a, NEW b
      PROVE  /\ Together(a, b) \in Nat /\ Pull(a, b) \in Nat
             /\ Together(a, b) > 0 => \E d \in DOMAIN spChunks : {a, b} \subseteq spChunks[d]
  <2> DEFINE S == {d \in DOMAIN spChunks : {a, b} \subseteq spChunks[d]}
  <2>1. Cardinality(S) \in Nat
    BY <1>3
  <2>2. Together(a, b) = Cardinality(S)
    BY DEF Together
  <2>3. Together(a, b) > 0 => S # {}
    <3>1. S = {} => Cardinality(S) = 0
      <4> HIDE DEF S
      <4> QED BY FS_EmptySet
    <3> HIDE DEF S
    <3> QED BY <2>2, <3>1
  <2>4. Pull(a, b) \in Nat
    <3> DEFINE x == 12 * Together(a, b)
               f == DocFreq(a)
               g == DocFreq(b)
    <3>1. x \in Nat /\ f \in Nat /\ g \in Nat
      <4> HIDE DEF S
      <4> QED BY <1>4, <2>1, <2>2
    <3>2. Pull(a, b) = x \div (f * g + 1)
      BY DEF Pull
    <3> HIDE DEF x, f, g
    <3>3. f * g \in Nat
      BY <3>1
    <3> DEFINE y == f * g
    <3>4. y \in Nat
      BY <3>3
    <3> HIDE DEF y
    <3>5. x \div (y + 1) \in Nat
      BY <3>1, <3>4
    <3> QED BY <3>2, <3>5 DEF y
  <2> QED BY <2>1, <2>2, <2>3, <2>4
<1>6. Vocab \subseteq SpTerms /\ \A d \in DOMAIN spChunks : spChunks[d] \subseteq Vocab
  BY <1>1 DEF Vocab, Range
<1> QED BY <1>1, <1>2, <1>4, <1>5, <1>6

\* A query's terms are its own that weigh enough and what occurs with them.
LEMMA EncodedIs ==
    ASSUME spChunks \in Seq(SUBSET SpTerms), Faithful(spIndex), spCfg.decay \in Nat,
           NEW known \in SUBSET Vocab
    PROVE  /\ DOMAIN Encoded(known) \subseteq Vocab
           /\ \A u \in DOMAIN Encoded(known) :
                 /\ Encoded(known)[u] \in Nat /\ Encoded(known)[u] > 0
                 /\ u \in known \/ \E t \in known : Together(t, u) > 0
           /\ Heavy(Idfs, known) \subseteq DOMAIN Encoded(known)
<1> DEFINE own == Heavy(spIndex.idf, known)
           added(u) == {spCfg.decay * spIndex.idf[t] * spIndex.expand[t][u] :
                          t \in {t \in own : u \in DOMAIN spIndex.expand[t]}}
           all(u) == {0} \cup {w \in added(u) : w > MinWeight}
                      \cup (IF u \in own THEN {120 * spIndex.idf[u]} ELSE {})
           weight(u) == Max(all(u))
<1>1. Encoded(known) = [u \in {v \in spIndex.vocab : weight(v) > 0} |-> weight(u)]
  BY DEF Encoded
<1>2. /\ spIndex.vocab = Vocab /\ spIndex.idf = Idfs /\ MinWeight \in Nat
      /\ \A t \in Vocab : Idfs[t] \in Nat \ {0} /\ spIndex.idf[t] = Idfs[t]
      /\ \A t \in Vocab : \A u \in DOMAIN spIndex.expand[t] :
            Together(t, u) > 0 /\ spIndex.expand[t][u] \in Nat
  BY NumbersAre, SpladeAssumption DEF Faithful, Pulls, Idfs
<1>3. own = Heavy(Idfs, known) /\ own \subseteq known /\ IsFiniteSet(own)
      /\ \A t \in own : 120 * Idfs[t] > MinWeight
  <2>1. own = Heavy(Idfs, known) /\ own \subseteq known /\ \A t \in own : 120 * Idfs[t] > MinWeight
    BY <1>2 DEF Heavy
  <2>2. own \in SUBSET SpTerms
    BY <2>1, NumbersAre
  <2> QED BY <2>1, <2>2, SpladeAssumption, FS_Subset
<1> HIDE DEF own
<1>4. ASSUME NEW u
      PROVE  all(u) \in SUBSET Nat /\ IsFiniteSet(all(u)) /\ all(u) # {}
  <2> DEFINE F == {t \in own : u \in DOMAIN spIndex.expand[t]}
             w == [t \in F |-> spCfg.decay * spIndex.idf[t] * spIndex.expand[t][u]]
  <2>1. IsFiniteSet(F) /\ F \subseteq own
    <3>1. F \in SUBSET own
      OBVIOUS
    <3> QED BY <1>3, <3>1, FS_Subset
  <2>2. \A t \in F : w[t] \in Nat
    <3> SUFFICES ASSUME NEW t \in F PROVE w[t] \in Nat
      OBVIOUS
    <3>1. spIndex.idf[t] \in Nat /\ spIndex.expand[t][u] \in Nat /\ spCfg.decay \in Nat
      BY <1>2, <1>3
    <3>2. w[t] = spCfg.decay * spIndex.idf[t] * spIndex.expand[t][u]
      OBVIOUS
    <3> HIDE DEF w
    <3> DEFINE x == spCfg.decay
               y == spIndex.idf[t]
               z == spIndex.expand[t][u]
    <3>3. x \in Nat /\ y \in Nat /\ z \in Nat
      BY <3>1
    <3> HIDE DEF x, y, z
    <3>4. x * y * z \in Nat
      BY <3>3
    <3> QED BY <3>2, <3>4 DEF x, y, z
  <2>3. added(u) = {w[t] : t \in DOMAIN w} /\ DOMAIN w = F
    OBVIOUS
  <2> HIDE DEF F, w
  <2>4. IsFiniteSet(added(u)) /\ added(u) \subseteq Nat
    <3>1. IsFiniteSet({w[t] : t \in DOMAIN w})
      BY <2>1, <2>3, ImageFinite
    <3> QED BY <2>2, <2>3, <3>1
  <2> HIDE DEF added
  <2> DEFINE A == {x \in added(u) : x > MinWeight}
             B == IF u \in own THEN {120 * spIndex.idf[u]} ELSE {}
  <2>5. IsFiniteSet(A) /\ A \subseteq Nat
    BY <2>4, FS_Subset
  <2>6. IsFiniteSet(B) /\ B \subseteq Nat
    <3>1. CASE u \in own
      <4>1. 120 * spIndex.idf[u] \in Nat
        BY <1>2, <1>3, <3>1
      <4>2. B = {120 * spIndex.idf[u]}
        BY <3>1
      <4> QED BY <4>1, <4>2, FS_Singleton
    <3>2. CASE u \notin own
      BY <3>2, FS_EmptySet
    <3> QED BY <3>1, <3>2
  <2>7. all(u) = ({0} \cup A) \cup B
    OBVIOUS
  <2> HIDE DEF all, A, B
  <2>8. IsFiniteSet({0})
    BY FS_Singleton
  <2>9. IsFiniteSet({0} \cup A)
    BY <2>5, <2>8, FS_Union
  <2>10. IsFiniteSet(all(u))
    BY <2>6, <2>7, <2>9, FS_Union
  <2> QED BY <2>5, <2>6, <2>7, <2>10
<1>5. ASSUME NEW u PROVE weight(u) \in all(u) /\ \A w \in all(u) : w <= weight(u)
  <2> HIDE DEF all
  <2> QED BY <1>4, FiniteMax
<1>6. ASSUME NEW u, weight(u) > 0
      PROVE  weight(u) \in Nat /\ (u \in known \/ \E t \in known : Together(t, u) > 0)
  <2>1. weight(u) \in all(u) /\ weight(u) \in Nat /\ weight(u) # 0
    <3>1. weight(u) \in all(u) /\ all(u) \subseteq Nat
      BY <1>4, <1>5
    <3> HIDE DEF weight, all
    <3> QED BY <1>6, <3>1
  <2>2. weight(u) \in added(u) \/ u \in own
    <3> DEFINE x == weight(u)
    <3>1. x \in all(u) /\ x # 0
      BY <2>1
    <3> HIDE DEF x, added
    <3>2. x \in added(u) \/ u \in own
      BY <3>1
    <3> QED BY <3>2 DEF x
  <2>3. CASE u \in own
    BY <1>3, <2>1, <2>3
  <2>4. CASE weight(u) \in added(u)
    <3>1. added(u) # {}
      BY <2>4
    <3>2. PICK t \in own : u \in DOMAIN spIndex.expand[t]
      BY <3>1
    <3>3. t \in known /\ Together(t, u) > 0
      BY <1>2, <1>3, <3>2
    <3> QED BY <2>1, <3>3
  <2> QED BY <2>2, <2>3, <2>4
<1>7. ASSUME NEW u \in own PROVE u \in Vocab /\ weight(u) > 0
  <2>1. 120 * spIndex.idf[u] \in all(u)
    OBVIOUS
  <2>2. 120 * spIndex.idf[u] <= weight(u) /\ weight(u) \in Nat
    <3> HIDE DEF all
    <3> QED BY <1>4, <1>5, <2>1
  <2>3. u \in Vocab /\ spIndex.idf[u] \in Nat /\ spIndex.idf[u] # 0
    BY <1>2, <1>3
  <2> HIDE DEF weight
  <2> QED BY <2>2, <2>3
<1> HIDE DEF weight
<1>8. DOMAIN Encoded(known) = {v \in Vocab : weight(v) > 0}
      /\ \A u \in DOMAIN Encoded(known) : Encoded(known)[u] = weight(u)
  BY <1>1, <1>2
<1> QED BY <1>3, <1>6, <1>7, <1>8

\* A chunk has an impact when its vector and the query share a term.
LEMMA ImpactIs ==
    ASSUME spChunks \in Seq(SUBSET SpTerms), spIndex.inverted = Transposed(Vecs, Vocab),
           NEW q, DOMAIN q \subseteq Vocab, \A t \in DOMAIN q : q[t] \in Nat /\ q[t] > 0,
           NEW d \in DOMAIN spChunks
    PROVE  /\ Impact(q, d) \in Nat
           /\ Impact(q, d) > 0 <=> \E t \in DOMAIN q : t \in Heavy(Idfs, spChunks[d])
<1> DEFINE posted(t) == \E p \in spIndex.inverted[t] : p.at = d
           part(t) == q[t] * (CHOOSE p \in spIndex.inverted[t] : p.at = d).w
           F == {t \in DOMAIN q : posted(t)}
           v == [t \in F |-> part(t)]
<1>1. Impact(q, d) = SumOf(v)
  BY DEF Impact, SumOver
<1>2. /\ DOMAIN Vecs = DOMAIN spChunks /\ DOMAIN Vecs[d] = Heavy(Idfs, spChunks[d])
      /\ \A t \in DOMAIN Vecs[d] : Vecs[d][t] = 120 * Idfs[t] /\ t \in Vocab
      /\ \A t \in Vocab : Idfs[t] \in Nat \ {0}
  <2>1. \A t \in Vocab : Idfs[t] \in Nat \ {0}
    BY NumbersAre DEF Idfs
  <2>2. DOMAIN Vecs = DOMAIN spChunks
    BY DEF Vecs
  <2>3. Vecs[d] = [t \in Heavy(Idfs, spChunks[d]) |-> 120 * Idfs[t]]
    BY DEF Vecs
  <2>4. Heavy(Idfs, spChunks[d]) \subseteq Vocab
    BY NumbersAre DEF Heavy
  <2> QED BY <2>1, <2>2, <2>3, <2>4
<1>3. ASSUME NEW t \in Vocab
      PROVE  /\ \A p \in spIndex.inverted[t] :
                   p.at = d => t \in DOMAIN Vecs[d] /\ p.w = Vecs[d][t]
             /\ t \in DOMAIN Vecs[d] => posted(t)
  <2>1. spIndex.inverted[t] = {[at |-> e, w |-> Vecs[e][t]] : e \in {e \in DOMAIN Vecs : t \in DOMAIN Vecs[e]}}
    BY DEF Transposed
  <2>2. \A p \in spIndex.inverted[t] : p.at = d => t \in DOMAIN Vecs[d] /\ p.w = Vecs[d][t]
    BY <2>1
  <2>3. ASSUME t \in DOMAIN Vecs[d] PROVE posted(t)
    <3> DEFINE p == [at |-> d, w |-> Vecs[d][t]]
    <3>1. p \in spIndex.inverted[t] /\ p.at = d
      BY <1>2, <2>1, <2>3
    <3> QED BY <3>1
  <2> QED BY <2>2, <2>3
<1>4. ASSUME NEW t \in F PROVE part(t) \in Nat /\ part(t) > 0 /\ t \in Heavy(Idfs, spChunks[d])
  <2>1. t \in Vocab /\ t \in DOMAIN q /\ posted(t) /\ q[t] \in Nat /\ q[t] > 0
    OBVIOUS
  <2> DEFINE p == CHOOSE p \in spIndex.inverted[t] : p.at = d
  <2>2. p \in spIndex.inverted[t] /\ p.at = d
    BY <2>1
  <2>3. part(t) = q[t] * p.w
    OBVIOUS
  <2> HIDE DEF p, part
  <2>4. t \in DOMAIN Vecs[d] /\ p.w = 120 * Idfs[t] /\ Idfs[t] \in Nat \ {0}
    BY <1>2, <1>3, <2>1, <2>2
  <2> DEFINE x == q[t]
             y == p.w
  <2>5. x \in Nat /\ x > 0 /\ y \in Nat /\ y > 0
    BY <2>1, <2>4
  <2> HIDE DEF x, y
  <2>6. x * y \in Nat /\ x * y > 0
    BY <2>5
  <2> QED BY <1>2, <2>3, <2>4, <2>6 DEF x, y
<1>5. IsFiniteSet(F)
  <2>1. F \in SUBSET SpTerms
    BY NumbersAre
  <2> QED BY <2>1, SpladeAssumption, FS_Subset
<1>6. v \in [F -> Nat] /\ \A t \in F : v[t] > 0
  <2> HIDE DEF F, part
  <2> QED BY <1>4
<1>7. \A t \in DOMAIN q : t \in F <=> t \in Heavy(Idfs, spChunks[d])
  <2> SUFFICES ASSUME NEW t \in DOMAIN q, t \in Heavy(Idfs, spChunks[d]) PROVE t \in F
    <3> HIDE DEF part
    <3> QED BY <1>4
  <2>1. posted(t)
    BY <1>2, <1>3
  <2> QED BY <2>1
<1> HIDE DEF v
<1>8. F \subseteq DOMAIN q
  OBVIOUS
<1> HIDE DEF F
<1>9. PICK g : Adds(g, F, v)
  BY <1>5, <1>6, SumIs
<1>10. SumOf(v) \in Nat
  <2>1. F \in SUBSET F
    OBVIOUS
  <2> QED BY <1>9, <2>1 DEF Adds
<1>11. ASSUME NEW t \in F PROVE SumOf(v) > 0
  <2>1. v[t] <= SumOf(v) /\ v[t] \in Nat /\ v[t] > 0
    BY <1>5, <1>6, SumPart
  <2> QED BY <1>10, <2>1
<1>12. F = {} => SumOf(v) = 0
  BY <1>6, SumNothing
<1> QED BY <1>1, <1>7, <1>8, <1>10, <1>11, <1>12

\* The K best of what matches are all that matches, or K.
LEMMA BestOrAll ==
    ASSUME NEW T, IsFiniteSet(T), NEW H \in SUBSET T,
           Cardinality(H) = Min({SpladeK, Cardinality(T)})
    PROVE  H = T \/ Cardinality(H) = SpladeK
<1>1. Cardinality(T) \in Nat /\ SpladeK \in Nat /\ IsFiniteSet(H)
  BY SpladeAssumption, FS_CardinalityType, FS_Subset
<1> DEFINE M2 == {SpladeK, Cardinality(T)}
<1>2. M2 \in SUBSET Nat /\ M2 # {}
  BY <1>1
<1>3. Min(M2) \in M2
  BY <1>2, LeastIs
<1>4. CASE Cardinality(H) = Cardinality(T)
  BY <1>4, FS_Subset
<1>5. CASE Cardinality(H) = SpladeK
  BY <1>5
<1> QED BY <1>3, <1>4, <1>5

\* What the corpus alone decides stays while the corpus does.
LEMMA CorpusSame ==
    ASSUME UNCHANGED spChunks
    PROVE  /\ Vocab' = Vocab /\ Vecs' = Vecs
           /\ \A S : Holding(S)' = Holding(S) /\ Telling(S)' = Telling(S)
           /\ \A x : Faithful(x)' <=> Faithful(x)
           /\ Faithful(spIndex') => Faithful(spIndex)'
           /\ Faithful(spBlob') => Faithful(spBlob)'
<1>1. Vocab' = Vocab /\ Idfs' = Idfs
  BY DEF Vocab, Idfs, Idf, DocFreq
<1>2. Vecs' = Vecs
  BY <1>1 DEF Vecs, Heavy
<1>3. \A S : Holding(S)' = Holding(S) /\ Telling(S)' = Telling(S)
  BY <1>1 DEF Holding, Telling, Heavy, Idf, DocFreq, Vocab
<1>4. \A x : Faithful(x)' <=> Faithful(x)
  BY <1>1, <1>2 DEF Faithful, Pulls, Together
<1>5. Faithful(spIndex') => Faithful(spIndex)'
  BY <1>1, <1>2 DEF Faithful, Pulls, Together
<1>6. Faithful(spBlob') => Faithful(spBlob)'
  BY <1>1, <1>2 DEF Faithful, Pulls, Together
<1> QED BY <1>1, <1>2, <1>3, <1>4, <1>5, <1>6

\* The property, with what a search finds and what it was asked as arguments.
Survives(asked, hits) ==
    /\ \/ Holding(Telling(asked \cap StableTerms)) \subseteq hits
       \/ Cardinality(hits) = SpladeK
    /\ hits \subseteq Holding(asked \cup UNION {spChunks[d] : d \in Holding(asked)})
    /\ spBuilt = DefaultCfg =>
         \/ Holding(Telling(asked)) \subseteq hits
         \/ Cardinality(hits) = SpladeK

LEMMA SurvivesIs ==
    ASSUME UNCHANGED <<spChunks, spBuilt>>
    PROVE  /\ SparseSurvivesReload <=> (spPc = "searched" => Survives(spAsked, spHits))
           /\ SparseSurvivesReload' <=> (spPc' = "searched" => Survives(spAsked', spHits'))
<1>1. SparseSurvivesReload <=> (spPc = "searched" => Survives(spAsked, spHits))
  BY DEF SparseSurvivesReload, Survives
<1>2. SparseSurvivesReload' <=> (spPc' = "searched" => Survives(spAsked, spHits)')
  BY DEF SparseSurvivesReload, Survives
<1>3. Survives(spAsked, spHits)' <=> Survives(spAsked', spHits')
  BY DEF Survives, Holding, Telling, Heavy, Idf, DocFreq, Vocab
<1> QED BY <1>1, <1>2, <1>3

LEMMA SearchKeeps ==
    ASSUME SpladeInv, SpladeSearch
    PROVE  SpladeInv'
<1>1. /\ spPc # "start" /\ spPc' = "searched"
      /\ UNCHANGED <<spChunks, spBuilt, spCfg, spIndex, spBlob>>
  BY DEF SpladeSearch
<1>2. /\ spChunks \in Seq(SUBSET SpTerms) /\ spBuilt.decay \in Nat
      /\ Faithful(spIndex) /\ spIndex.inverted = Transposed(Vecs, Vocab)
      /\ spCfg = spBuilt \/ spCfg = DefaultCfg
  BY <1>1 DEF SpladeInv
<1>3. PICK query \in SUBSET SpTerms :
         /\ spAsked' = query
         /\ LET q        == Encoded(Known(query))
                impact   == [d \in DOMAIN spIndex.vecs |-> Impact(q, d)]
                matching == {d \in DOMAIN spIndex.vecs : impact[d] > 0}
            IN \E H \in SUBSET matching :
                  /\ Cardinality(H) = Min({SpladeK, Cardinality(matching)})
                  /\ \A d \in H, e \in matching \ H : impact[d] >= impact[e]
                  /\ spHits' = H
  BY DEF SpladeSearch
<1> DEFINE known == Known(query)
           q == Encoded(known)
           T == {d \in DOMAIN spChunks : Impact(q, d) > 0}
<1>4. DOMAIN spIndex.vecs = DOMAIN spChunks
  BY <1>2 DEF Faithful, Vecs
<1>5. spHits' \in SUBSET T /\ Cardinality(spHits') = Min({SpladeK, Cardinality(T)})
  <2>1. PICK H \in SUBSET {d \in DOMAIN spIndex.vecs : [e \in DOMAIN spIndex.vecs |-> Impact(q, e)][d] > 0} :
           /\ Cardinality(H) = Min({SpladeK, Cardinality({d \in DOMAIN spIndex.vecs :
                                      [e \in DOMAIN spIndex.vecs |-> Impact(q, e)][d] > 0})})
           /\ spHits' = H
    BY <1>3
  <2>2. T = {d \in DOMAIN spIndex.vecs : [e \in DOMAIN spIndex.vecs |-> Impact(q, e)][d] > 0}
    <3> HIDE DEF q
    <3> QED BY <1>4
  <2> HIDE DEF T, q
  <2> QED BY <2>1, <2>2
<1>6. IsFiniteSet(T)
  <2>1. T \in SUBSET (DOMAIN spChunks)
    OBVIOUS
  <2> HIDE DEF T
  <2> QED BY <1>2, <2>1, NumbersAre, FS_Subset
<1>7. spHits' = T \/ Cardinality(spHits') = SpladeK
  <2> HIDE DEF T
  <2> QED BY <1>5, <1>6, BestOrAll
<1>8. spCfg.decay \in Nat
  BY <1>2, SpladeAssumption DEF DefaultCfg
<1>9. /\ known \in SUBSET Vocab /\ known \subseteq query
      /\ query \cap StableTerms \cap Vocab \subseteq known
      /\ spBuilt = DefaultCfg => known = query \cap Vocab
  BY <1>2 DEF Known, Faithful
<1> HIDE DEF known
<1>10. /\ DOMAIN q \subseteq Vocab
       /\ \A u \in DOMAIN q :
             q[u] \in Nat /\ q[u] > 0 /\ (u \in known \/ \E t \in known : Together(t, u) > 0)
       /\ Heavy(Idfs, known) \subseteq DOMAIN q
  BY <1>2, <1>8, <1>9, EncodedIs
<1> HIDE DEF q
<1>11. \A d \in DOMAIN spChunks :
          d \in T <=> \E t \in DOMAIN q : t \in Heavy(Idfs, spChunks[d])
  <2> SUFFICES ASSUME NEW d \in DOMAIN spChunks
               PROVE  Impact(q, d) > 0 <=> \E t \in DOMAIN q : t \in Heavy(Idfs, spChunks[d])
    OBVIOUS
  <2> QED BY <1>2, <1>10, ImpactIs
<1>12. ASSUME NEW S, S \cap Vocab \subseteq known PROVE Holding(Telling(S)) \subseteq T
  <2> SUFFICES ASSUME NEW d \in Holding(Telling(S)) PROVE d \in T
    OBVIOUS
  <2>1. PICK t : t \in spChunks[d] /\ t \in Telling(S) /\ d \in DOMAIN spChunks
    BY DEF Holding
  <2>2. t \in S \cap Vocab /\ 120 * Idfs[t] > MinWeight
    BY <2>1 DEF Telling, Heavy, Idfs
  <2>3. t \in Heavy(Idfs, known) /\ t \in Heavy(Idfs, spChunks[d])
    BY <1>12, <2>1, <2>2 DEF Heavy
  <2> QED BY <1>10, <1>11, <2>1, <2>3
<1>13. T \subseteq Holding(query \cup UNION {spChunks[d] : d \in Holding(query)})
  <2> SUFFICES ASSUME NEW d \in T
               PROVE  d \in Holding(query \cup UNION {spChunks[e] : e \in Holding(query)})
    OBVIOUS
  <2>1. PICK u \in DOMAIN q : u \in spChunks[d] /\ d \in DOMAIN spChunks
    BY <1>11 DEF Heavy
  <2>2. CASE u \in known
    BY <1>9, <2>1, <2>2 DEF Holding
  <2>3. CASE \E t \in known : Together(t, u) > 0
    <3>1. PICK t \in known : Together(t, u) > 0
      BY <2>3
    <3>2. PICK e \in DOMAIN spChunks : {t, u} \subseteq spChunks[e]
      BY <1>2, <3>1, NumbersAre
    <3>3. e \in Holding(query)
      BY <1>9, <3>1, <3>2 DEF Holding
    <3> QED BY <2>1, <3>2, <3>3 DEF Holding
  <2> QED BY <1>10, <2>2, <2>3
<1> HIDE DEF T
<1>14. SparseSurvivesReload'
  <2>1. /\ Holding(Telling(query \cap StableTerms)) \subseteq T
        /\ spBuilt = DefaultCfg => Holding(Telling(query)) \subseteq T
    <3>1. (query \cap StableTerms) \cap Vocab \subseteq known
      BY <1>9
    <3>2. spBuilt = DefaultCfg => query \cap Vocab \subseteq known
      BY <1>9
    <3> QED BY <1>12, <3>1, <3>2
  <2>2. Survives(query, spHits')
    BY <1>5, <1>7, <1>13, <2>1 DEF Survives
  <2>3. spAsked' = query
    BY <1>3
  <2> QED BY <1>1, <2>2, <2>3, SurvivesIs
<1>15. Faithful(spIndex)' /\ (spIndex.inverted = Transposed(Vecs, Vocab))'
       /\ (spBlob # NoBlob /\ spBlob.whole => Faithful(spBlob))'
  BY <1>1, <1>2, CorpusSame DEF SpladeInv, Transposed
<1> QED BY <1>1, <1>2, <1>14, <1>15 DEF SpladeInv

LEMMA BuildKeepsCorpus ==
    ASSUME SpladeInv, SpladeBuild
    PROVE  SpladeInv'
<1>1. /\ spPc' = "ready" /\ spCfg' = spBuilt /\ spPc = "start"
      /\ UNCHANGED <<spChunks, spBuilt, spBlob, spAsked, spHits>>
  BY DEF SpladeBuild
<1>2. spChunks \in Seq(SUBSET SpTerms) /\ spBuilt.decay \in Nat /\ spBlob = NoBlob
  BY <1>1 DEF SpladeInv
<1>3. PICK low \in BOOLEAN :
         spIndex' = [vocab |-> Vocab, idf |-> Idfs, vecs |-> Vecs,
                     expand |-> [t \in Vocab |-> [u \in Expanded(t, low) |-> Pull(t, u)]],
                     inverted |-> Transposed(Vecs, Vocab)]
  BY DEF SpladeBuild, Idfs, Vecs
<1>4. Faithful(spIndex')
  <2> DEFINE e == [t \in Vocab |-> [u \in Expanded(t, low) |-> Pull(t, u)]]
  <2>1. \A t \in Vocab : \A u \in DOMAIN e[t] : Together(t, u) > 0 /\ e[t][u] \in Nat
    <3>1. \A t, u : u \in Expanded(t, low) => Together(t, u) > 0
      BY DEF Expanded
    <3> QED BY <1>2, <3>1, NumbersAre
  <2> HIDE DEF e
  <2>2. Pulls(e)
    BY <2>1 DEF Pulls
  <2> QED BY <1>3, <2>2 DEF Faithful, e
<1>5. spIndex'.inverted = Transposed(Vecs, Vocab)
  BY <1>3
<1>6. Faithful(spIndex)' /\ (spIndex.inverted = Transposed(Vecs, Vocab))'
  BY <1>1, <1>4, <1>5, CorpusSame DEF Transposed
<1>7. SparseSurvivesReload'
  BY <1>1 DEF SparseSurvivesReload
<1> QED BY <1>1, <1>2, <1>6, <1>7 DEF SpladeInv

LEMMA SaveKeeps ==
    ASSUME SpladeInv, SpladeSave
    PROVE  SpladeInv'
<1>1. /\ spPc = "ready" /\ spPc' = "ready"
      /\ UNCHANGED <<spChunks, spBuilt, spCfg, spIndex, spAsked, spHits>>
      /\ \/ spBlob' = [whole |-> TRUE, vocab |-> spIndex.vocab, idf |-> spIndex.idf,
                       expand |-> spIndex.expand, vecs |-> spIndex.vecs]
         \/ spBlob' = [whole |-> FALSE, cut |-> TRUE]
  BY DEF SpladeSave
<1>2. /\ spChunks \in Seq(SUBSET SpTerms) /\ spBuilt.decay \in Nat
      /\ Faithful(spIndex) /\ spIndex.inverted = Transposed(Vecs, Vocab)
      /\ spCfg = spBuilt \/ spCfg = DefaultCfg
  BY <1>1 DEF SpladeInv
<1>3. spBlob'.whole => Faithful(spBlob')
  BY <1>1, <1>2 DEF Faithful
<1>4. (spBlob.whole => Faithful(spBlob))'
  BY <1>1, <1>3, CorpusSame
<1>5. Faithful(spIndex)' /\ (spIndex.inverted = Transposed(Vecs, Vocab))'
  BY <1>1, <1>2, CorpusSame DEF Transposed
<1>6. SparseSurvivesReload'
  BY <1>1 DEF SparseSurvivesReload
<1> QED BY <1>1, <1>2, <1>4, <1>5, <1>6 DEF SpladeInv

LEMMA LoadKeeps ==
    ASSUME SpladeInv, SpladeLoad
    PROVE  SpladeInv'
<1>1. /\ spPc # "start" /\ spBlob # NoBlob /\ spPc' = "ready"
      /\ UNCHANGED <<spChunks, spBuilt, spBlob>>
      /\ IF spBlob.whole
         THEN /\ spIndex' = [vocab |-> spBlob.vocab, idf |-> spBlob.idf, expand |-> spBlob.expand,
                             vecs |-> spBlob.vecs,
                             inverted |-> Transposed(spBlob.vecs, DOMAIN spBlob.idf)]
              /\ spCfg' = DefaultCfg
         ELSE UNCHANGED <<spIndex, spCfg>>
  BY DEF SpladeLoad, LoadInto
<1>2. /\ spChunks \in Seq(SUBSET SpTerms) /\ spBuilt.decay \in Nat
      /\ Faithful(spIndex) /\ spIndex.inverted = Transposed(Vecs, Vocab)
      /\ spCfg = spBuilt \/ spCfg = DefaultCfg
      /\ spBlob.whole => Faithful(spBlob)
  BY <1>1 DEF SpladeInv
<1>3. /\ Faithful(spIndex') /\ spIndex'.inverted = Transposed(Vecs, Vocab)
      /\ spCfg' = spBuilt \/ spCfg' = DefaultCfg
  <2>1. CASE spBlob.whole
    <3>1. spBlob.vecs = Vecs /\ DOMAIN spBlob.idf = Vocab
      BY <1>2, <2>1 DEF Faithful, Idfs
    <3> QED BY <1>1, <1>2, <2>1, <3>1 DEF Faithful
  <2>2. CASE ~spBlob.whole
    BY <1>1, <1>2, <2>2
  <2> QED BY <2>1, <2>2
<1>4. /\ Faithful(spIndex)' /\ (spIndex.inverted = Transposed(Vecs, Vocab))'
      /\ (spBlob.whole => Faithful(spBlob))'
  BY <1>1, <1>2, <1>3, CorpusSame DEF Transposed
<1>5. (spCfg = spBuilt \/ spCfg = DefaultCfg)'
  BY <1>1, <1>3 DEF DefaultCfg
<1>6. SparseSurvivesReload'
  BY <1>1 DEF SparseSurvivesReload
<1> QED BY <1>1, <1>2, <1>4, <1>5, <1>6 DEF SpladeInv

\* What an index made with any configuration and tokenizer finds, it or one
\* loaded from its blob, however often it is saved and loaded: the chunks of
\* the terms that every tokenizer makes the same, as far as k reaches, and none
\* that has nothing to do with the query.
THEOREM IndexSurvivesReload ==
    ASSUME NEW inputs,
           \A in \in inputs : in.chunks \in Seq(SUBSET SpTerms) /\ in.cfg.decay \in Nat
    PROVE  SpladeInit(inputs) /\ [][SpladeNext]_spladeVars => []SparseSurvivesReload
<1>1. SpladeInit(inputs) => SpladeInv
  BY DEF SpladeInit, SpladeInv, SparseSurvivesReload
<1>2. SpladeInv /\ [SpladeNext]_spladeVars => SpladeInv'
  <2> SUFFICES ASSUME SpladeInv, [SpladeNext]_spladeVars PROVE SpladeInv'
    OBVIOUS
  <2>1. CASE SpladeBuild
    BY <2>1, BuildKeepsCorpus
  <2>2. CASE SpladeSearch
    BY <2>2, SearchKeeps
  <2>3. CASE SpladeSave
    BY <2>3, SaveKeeps
  <2>4. CASE SpladeLoad
    BY <2>4, LoadKeeps
  <2>5. CASE UNCHANGED spladeVars
    <3>1. UNCHANGED <<spChunks, spBuilt, spCfg, spIndex, spBlob, spAsked, spHits, spPc>>
      BY <2>5 DEF spladeVars
    <3>2. SparseSurvivesReload'
      BY <3>1, SurvivesIs DEF SpladeInv
    <3>3. /\ Faithful(spIndex) => Faithful(spIndex)'
          /\ (spIndex.inverted = Transposed(Vecs, Vocab)) =>
                (spIndex.inverted = Transposed(Vecs, Vocab))'
          /\ Faithful(spBlob) => Faithful(spBlob)'
      BY <3>1, CorpusSame DEF Transposed
    <3> QED BY <3>1, <3>2, <3>3 DEF SpladeInv
  <2> QED BY <2>1, <2>2, <2>3, <2>4, <2>5 DEF SpladeNext
<1>3. SpladeInv => SparseSurvivesReload
  BY DEF SpladeInv
<1> QED BY <1>1, <1>2, <1>3, PTL

-----------------------------------------------------------------------------
(* The tree of summaries.                                                  *)

\* A list, of whatever is in it.
IsSeq(s) == s \in Seq(Range(s))

LEMMA SeqIs ==
    ASSUME NEW s, IsSeq(s)
    PROVE  Len(s) \in Nat /\ DOMAIN s = 1 .. Len(s)
BY DEF IsSeq

\* Children are older than their parent and below it, and have one parent.
Tree(ns) ==
    /\ IsSeq(ns)
    /\ \A n \in DOMAIN ns :
          /\ ns[n].level \in Nat /\ ns[n].children \subseteq 1 .. (n - 1)
          /\ \A m \in ns[n].children : ns[m].level < ns[n].level
    /\ \A m, n \in DOMAIN ns : m # n => ns[m].children \cap ns[n].children = {}

\* The leaves under a node, with the nodes as an argument.
LeavesOf(ns, n) ==
    LET under[m \in DOMAIN ns] ==
          IF ns[m].children = {} THEN {m} ELSE UNION {under[c] : c \in ns[m].children}
    IN under[n]

Gather(ns, f, m) == IF ns[m].children = {} THEN {m} ELSE UNION {f[c] : c \in ns[m].children}
Gathers(f, ns) == f = [m \in DOMAIN ns |-> Gather(ns, f, m)]

\* They can be gathered node after node, as children come before their parent.
LEMMA GathersExist ==
    ASSUME NEW ns, Tree(ns)
    PROVE  \E f : Gathers(f, ns)
<1> DEFINE n == Len(ns)
           Upto(f, k) == \A m \in 1 .. k : f[m] = Gather(ns, f, m)
           N == {k \in Nat : k <= n => \E f : Upto(f, k)}
<1>1. n \in Nat /\ DOMAIN ns = 1 .. n
  BY SeqIs DEF Tree
<1> HIDE DEF n
<1>2. 0 \in N
  <2>1. \A f : Upto(f, 0)
    OBVIOUS
  <2> QED BY <2>1
<1>3. ASSUME NEW k \in Nat, k \in N PROVE k + 1 \in N
  <2> SUFFICES ASSUME k + 1 <= n PROVE \E f : Upto(f, k + 1)
    OBVIOUS
  <2>1. k <= n
    BY <1>1
  <2>2. PICK f : Upto(f, k)
    BY <1>3, <2>1
  <2> DEFINE h == [m \in 1 .. (k + 1) |-> IF m = k + 1 THEN Gather(ns, f, m) ELSE f[m]]
  <2>3. ASSUME NEW m \in 1 .. (k + 1) PROVE h[m] = Gather(ns, h, m)
    <3>1. m \in DOMAIN ns
      BY <1>1
    <3>2. ns[m].children \subseteq 1 .. (m - 1)
      BY <3>1 DEF Tree
    <3>3. \A c \in ns[m].children : c \in 1 .. k /\ c \in 1 .. (k + 1) /\ c # k + 1
      BY <3>2
    <3>4. \A c \in ns[m].children : h[c] = f[c]
      BY <3>3
    <3>5. Gather(ns, h, m) = Gather(ns, f, m)
      <4> HIDE DEF h
      <4> QED BY <3>4 DEF Gather
    <3>6. m # k + 1 => m \in 1 .. k
      OBVIOUS
    <3>7. h[m] = Gather(ns, f, m)
      BY <2>2, <3>6
    <3> QED BY <3>5, <3>7
  <2> HIDE DEF h
  <2>4. Upto(h, k + 1)
    BY <2>3
  <2> QED BY <2>4
<1>4. Nat \subseteq N
  <2> HIDE DEF N
  <2> QED BY <1>2, <1>3, Induction
<1>5. PICK f : Upto(f, n)
  BY <1>1, <1>4
<1> DEFINE g == [m \in DOMAIN ns |-> f[m]]
<1>6. ASSUME NEW m \in DOMAIN ns PROVE g[m] = Gather(ns, g, m)
  <2>1. g[m] = Gather(ns, f, m)
    BY <1>1, <1>5
  <2>2. \A c \in ns[m].children : c \in DOMAIN ns
    BY <1>1 DEF Tree
  <2>3. \A c \in ns[m].children : g[c] = f[c]
    BY <2>2
  <2> HIDE DEF g
  <2>4. Gather(ns, g, m) = Gather(ns, f, m)
    BY <2>3 DEF Gather
  <2> QED BY <2>1, <2>4
<1>7. g = [m \in DOMAIN ns |-> g[m]]
  OBVIOUS
<1> HIDE DEF g
<1>8. Gathers(g, ns)
  BY <1>6, <1>7 DEF Gathers
<1> QED BY <1>8

\* The leaves under a node are itself or those under its children.
LEMMA LeavesAre ==
    ASSUME NEW ns, Tree(ns), NEW n \in DOMAIN ns
    PROVE  /\ ns[n].children \subseteq DOMAIN ns
           /\ LeavesOf(ns, n) = IF ns[n].children = {} THEN {n}
                                ELSE UNION {LeavesOf(ns, c) : c \in ns[n].children}
<1> DEFINE f == CHOOSE f : Gathers(f, ns)
<1>1. Gathers(f, ns)
  BY GathersExist
<1>2. \A m : LeavesOf(ns, m) = f[m]
  BY DEF LeavesOf, Gathers, Gather
<1> HIDE DEF f
<1>3. f[n] = Gather(ns, f, n)
  BY <1>1 DEF Gathers
<1>4. ns[n].children \subseteq DOMAIN ns
  <2>1. Len(ns) \in Nat /\ DOMAIN ns = 1 .. Len(ns)
    BY SeqIs DEF Tree
  <2>2. ns[n].children \subseteq 1 .. (n - 1)
    BY DEF Tree
  <2> QED BY <2>1, <2>2
<1> QED BY <1>2, <1>3, <1>4 DEF Gather

LEMMA LeavesHere ==
    ASSUME NEW n
    PROVE  LeavesUnder(n) = LeavesOf(nodes, n)
BY DEF LeavesUnder, LeavesOf

\* Nodes that are added change nothing under those there are.
LEMMA LeavesSame ==
    ASSUME NEW ns, Tree(ns), NEW ms, Tree(ms), Len(ns) <= Len(ms),
           \A n \in DOMAIN ns : ms[n].children = ns[n].children
    PROVE  \A n \in DOMAIN ns : LeavesOf(ms, n) = LeavesOf(ns, n)
<1>1. /\ Len(ns) \in Nat /\ DOMAIN ns = 1 .. Len(ns)
      /\ Len(ms) \in Nat /\ DOMAIN ms = 1 .. Len(ms)
  BY SeqIs DEF Tree
<1>2. DOMAIN ns \subseteq DOMAIN ms
  BY <1>1
<1> DEFINE Same(k) == \A n \in DOMAIN ns : n <= k => LeavesOf(ms, n) = LeavesOf(ns, n)
           N == {k \in Nat : Same(k)}
<1>3. 0 \in N
  <2>1. \A n \in DOMAIN ns : ~(n <= 0)
    BY <1>1
  <2> QED BY <2>1
<1>4. ASSUME NEW k \in Nat, k \in N PROVE k + 1 \in N
  <2> SUFFICES ASSUME NEW n \in DOMAIN ns, n <= k + 1 PROVE LeavesOf(ms, n) = LeavesOf(ns, n)
    OBVIOUS
  <2>1. /\ LeavesOf(ns, n) = IF ns[n].children = {} THEN {n}
                             ELSE UNION {LeavesOf(ns, c) : c \in ns[n].children}
        /\ LeavesOf(ms, n) = IF ms[n].children = {} THEN {n}
                             ELSE UNION {LeavesOf(ms, c) : c \in ms[n].children}
    BY <1>2, LeavesAre
  <2>2. ns[n].children \subseteq 1 .. (n - 1) /\ n \in Nat
    BY <1>1 DEF Tree
  <2>3. \A c \in ns[n].children : c \in DOMAIN ns /\ c <= k
    BY <1>1, <2>2
  <2>4. \A c \in ns[n].children : LeavesOf(ms, c) = LeavesOf(ns, c)
    BY <1>4, <2>3
  <2> QED BY <2>1, <2>4
<1>5. Nat \subseteq N
  <2> HIDE DEF N
  <2> QED BY <1>3, <1>4, Induction
<1>6. Same(Len(ns))
  BY <1>1, <1>5
<1> QED BY <1>1, <1>6

-----------------------------------------------------------------------------
(* The clusters of a level.                                                *)

\* What the first i positions have seeded: r.used are the members of r.sets.
Cluster(i, used, low) == {i} \cup Pulled(i, used \cup {i}, ClusterSize - 1, low)
Seed(r, i, low) ==
    IF i \in r.used THEN r
    ELSE [used |-> r.used \cup Cluster(i, r.used, low),
          sets |-> Append(r.sets, [seed |-> i, all |-> Cluster(i, r.used, low)])]
Nothing == [used |-> {}, sets |-> << >>]
Seeds(f, n, low) == f = [i \in 0 .. n |-> IF i = 0 THEN Nothing ELSE Seed(f[i - 1], i, low)]

LEMMA SeedsExist ==
    ASSUME NEW low, NEW n \in Nat
    PROVE  \E f : Seeds(f, n, low)
<1> DEFINE N == {m \in Nat : \E f : Seeds(f, m, low)}
<1>1. 0 \in N
  <2> DEFINE f == [i \in 0 .. 0 |-> Nothing]
  <2>1. f = [i \in 0 .. 0 |-> IF i = 0 THEN Nothing ELSE Seed(f[i - 1], i, low)]
    OBVIOUS
  <2> HIDE DEF f
  <2>2. Seeds(f, 0, low)
    BY <2>1 DEF Seeds
  <2> QED BY <2>2
<1>2. ASSUME NEW m \in Nat, m \in N PROVE m + 1 \in N
  <2>1. PICK f : Seeds(f, m, low)
    BY <1>2
  <2>2. \A i \in 0 .. m : f[i] = IF i = 0 THEN Nothing ELSE Seed(f[i - 1], i, low)
    BY <2>1 DEF Seeds
  <2> DEFINE h == [i \in 0 .. (m + 1) |-> IF i = m + 1 THEN Seed(f[m], i, low) ELSE f[i]]
  <2>3. ASSUME NEW i \in 0 .. (m + 1)
        PROVE  h[i] = IF i = 0 THEN Nothing ELSE Seed(h[i - 1], i, low)
    <3>1. CASE i = m + 1
      <4>1. i # 0 /\ i - 1 = m /\ m \in 0 .. (m + 1) /\ m # m + 1
        BY <3>1
      <4>2. h[i] = Seed(f[m], i, low) /\ h[m] = f[m]
        BY <3>1, <4>1
      <4> HIDE DEF h
      <4> QED BY <4>1, <4>2
    <3>2. CASE i = 0
      <4>1. i # m + 1 /\ i \in 0 .. m
        BY <3>2
      <4>2. h[i] = f[i]
        BY <4>1
      <4> HIDE DEF h
      <4> QED BY <2>2, <3>2, <4>1, <4>2
    <3>3. CASE i # 0 /\ i # m + 1
      <4>1. i \in 0 .. m /\ i - 1 \in 0 .. (m + 1) /\ i - 1 # m + 1
        BY <3>3
      <4>2. h[i] = f[i] /\ h[i - 1] = f[i - 1]
        BY <3>3, <4>1
      <4> HIDE DEF h
      <4> QED BY <2>2, <3>3, <4>1, <4>2
    <3> QED BY <3>1, <3>2, <3>3
  <2>4. h = [i \in 0 .. (m + 1) |-> h[i]]
    OBVIOUS
  <2> HIDE DEF h
  <2>5. Seeds(h, m + 1, low)
    BY <2>3, <2>4 DEF Seeds
  <2> QED BY <2>5
<1>3. Nat \subseteq N
  <2> HIDE DEF N
  <2> QED BY <1>1, <1>2, Induction
<1> QED BY <1>3

\* Clusters of the positions D: each has its seed, no two share a member.
Clustered(sets, D) ==
    /\ IsSeq(sets)
    /\ \A i \in DOMAIN sets : sets[i].seed \in sets[i].all /\ sets[i].all \subseteq D
    /\ \A i, j \in DOMAIN sets : i # j => sets[i].all \cap sets[j].all = {}

\* One more in a list.
LEMMA AppendIs ==
    ASSUME NEW s, IsSeq(s), NEW e
    PROVE  /\ IsSeq(Append(s, e)) /\ DOMAIN Append(s, e) = 1 .. (Len(s) + 1)
           /\ Append(s, e)[Len(s) + 1] = e
           /\ \A i \in DOMAIN s : Append(s, e)[i] = s[i]
<1> DEFINE T == Range(s) \cup {e}
           a == Append(s, e)
           n == Len(s)
<1>1. s \in Seq(T) /\ e \in T /\ n \in Nat /\ DOMAIN s = 1 .. n
  <2>1. n \in Nat /\ DOMAIN s = 1 .. n
    BY SeqIs
  <2>2. s = [i \in 1 .. n |-> s[i]] /\ \A i \in 1 .. n : s[i] \in T
    BY <2>1 DEF IsSeq, Range
  <2>3. s \in [1 .. n -> T]
    BY <2>2
  <2> HIDE DEF T
  <2>4. s \in Seq(T)
    BY <2>1, <2>3, FunctionIsList
  <2> QED BY <2>1, <2>4 DEF T
<1> HIDE DEF T
<1>2. a \in Seq(T) /\ Len(a) = n + 1 /\ a[n + 1] = e /\ \A i \in 1 .. n : a[i] = s[i]
  BY <1>1, AppendProperties
<1>3. DOMAIN a = 1 .. (n + 1)
  BY <1>1, <1>2
<1>4. IsSeq(a)
  <2>1. a \in [1 .. (n + 1) -> Range(a)]
    <3>0. a \in [1 .. Len(a) -> T]
      <4> HIDE DEF a
      <4> QED BY <1>2, LenProperties
    <3>1. a = [i \in 1 .. (n + 1) |-> a[i]]
      <4> HIDE DEF a
      <4> QED BY <1>2, <3>0
    <3>2. \A i \in 1 .. (n + 1) : a[i] \in Range(a)
      BY <1>3 DEF Range
    <3> HIDE DEF a
    <3> QED BY <3>1, <3>2
  <2> HIDE DEF a, n
  <2>2. n + 1 \in Nat
    BY <1>1
  <2> QED BY <2>1, <2>2, FunctionIsList DEF IsSeq
<1> QED BY <1>1, <1>2, <1>3, <1>4

\* Every position is in one cluster.
LEMMA ClustersAre ==
    ASSUME IsSeq(current), NEW low
    PROVE  /\ Clustered(Clusters(low), DOMAIN current)
           /\ \A x \in DOMAIN current : \E i \in DOMAIN Clusters(low) : x \in Clusters(low)[i].all
<1> DEFINE n == Len(current)
           D == DOMAIN current
           f == CHOOSE f : Seeds(f, n, low)
<1>1. n \in Nat /\ D = 1 .. n
  BY SeqIs
<1>2. Seeds(f, n, low)
  <2> HIDE DEF n
  <2> QED BY <1>1, SeedsExist
<1>3. Clusters(low) = f[n].sets
  BY DEF Clusters, Seeds, Seed, Cluster, Nothing
<1> HIDE DEF f
<1>4. \A i \in 0 .. n : f[i] = IF i = 0 THEN Nothing ELSE Seed(f[i - 1], i, low)
  BY <1>2 DEF Seeds
<1> HIDE DEF n, D
<1> DEFINE Parted(r, k) == /\ Clustered(r.sets, D)
                         /\ r.used = UNION {r.sets[i].all : i \in DOMAIN r.sets}
                         /\ 1 .. k \subseteq r.used
           N == {k \in Nat : k <= n => Parted(f[k], k)}
<1>5. 0 \in N
  <2>1. 0 \in 0 .. n
    BY <1>1
  <2>2. f[0] = Nothing
    BY <1>4, <2>1
  <2>3. f[0].sets = << >> /\ f[0].used = {}
    BY <2>2 DEF Nothing
  <2>4. IsSeq(<< >>) /\ DOMAIN << >> = {}
    BY DEF IsSeq
  <2>5. Clustered(<< >>, D)
    BY <2>4 DEF Clustered
  <2>6. 1 .. 0 = {}
    OBVIOUS
  <2>7. Parted(f[0], 0)
    BY <2>3, <2>4, <2>5, <2>6
  <2> HIDE DEF Parted
  <2> QED BY <2>7
<1>6. ASSUME NEW k \in Nat, k \in N PROVE k + 1 \in N
  <2>0. (k + 1 <= n => Parted(f[k + 1], k + 1)) => k + 1 \in N
    <3> HIDE DEF Parted
    <3> QED OBVIOUS
  <2> SUFFICES ASSUME k + 1 <= n PROVE Parted(f[k + 1], k + 1)
    BY <2>0
  <2> DEFINE i == k + 1
             r == f[k]
             t == f[i]
  <2>1. k <= n /\ i \in 0 .. n /\ i # 0 /\ i - 1 = k /\ i \in D
    BY <1>1
  <2>2. Parted(r, k)
    <3> HIDE DEF Parted
    <3> QED BY <1>6, <2>1
  <2>3. t = Seed(r, i, low)
    BY <1>4, <2>1
  <2> HIDE DEF r, t
  <2>4. 1 .. i \subseteq (1 .. k) \cup {i}
    OBVIOUS
  <2>5. CASE i \in r.used
    <3>1. t = r
      BY <2>3, <2>5 DEF Seed
    <3>2. 1 .. i \subseteq r.used
      BY <2>2, <2>4, <2>5
    <3> QED BY <2>2, <3>1, <3>2 DEF t
  <2>6. CASE i \notin r.used
    <3> DEFINE cl == Cluster(i, r.used, low)
               e == [seed |-> i, all |-> cl]
               s == r.sets
    <3>1. t = [used |-> r.used \cup cl, sets |-> Append(s, e)]
      BY <2>3, <2>6 DEF Seed
    <3>2. i \in cl /\ cl \subseteq D /\ cl \cap r.used = {}
      <4>1. Pulled(i, r.used \cup {i}, ClusterSize - 1, low) \subseteq D \ r.used
        BY DEF Pulled, D
      <4> QED BY <2>1, <2>6, <4>1 DEF Cluster
    <3> HIDE DEF cl
    <3>3. e.seed = i /\ e.all = cl
      OBVIOUS
    <3>4. IsSeq(s)
      BY <2>2 DEF Clustered
    <3> HIDE DEF e, s, i
    <3> DEFINE b == Append(s, e)
               m == Len(s)
    <3>5. /\ IsSeq(b) /\ DOMAIN b = 1 .. (m + 1) /\ b[m + 1] = e
          /\ \A j \in DOMAIN s : b[j] = s[j]
          /\ m \in Nat /\ DOMAIN s = 1 .. m
      BY <3>4, AppendIs, SeqIs
    <3> HIDE DEF b, m
    <3>6. \A j \in DOMAIN b : j = m + 1 \/ j \in DOMAIN s
      BY <3>5
    <3>7. /\ \A j \in DOMAIN s : s[j].seed \in s[j].all /\ s[j].all \subseteq D
          /\ \A j, l \in DOMAIN s : j # l => s[j].all \cap s[l].all = {}
          /\ r.used = UNION {s[j].all : j \in DOMAIN s}
      BY <2>2 DEF Clustered, s
    <3>8. \A j \in DOMAIN s : s[j].all \cap cl = {}
      BY <3>2, <3>7
    <3>9. \A j \in DOMAIN b : b[j].seed \in b[j].all /\ b[j].all \subseteq D
      BY <3>2, <3>3, <3>5, <3>6, <3>7
    <3>10. \A j, l \in DOMAIN b : j # l => b[j].all \cap b[l].all = {}
      BY <3>3, <3>5, <3>6, <3>7, <3>8
    <3>11. r.used \cup cl = UNION {b[j].all : j \in DOMAIN b}
      <4>1. m + 1 \in DOMAIN b /\ DOMAIN s \subseteq DOMAIN b
        BY <3>5
      <4>2. \A x : x \in r.used \cup cl <=> \E j \in DOMAIN b : x \in b[j].all
        BY <3>3, <3>5, <3>6, <3>7, <4>1
      <4> QED BY <4>2
    <3>12. Clustered(b, D)
      BY <3>5, <3>9, <3>10 DEF Clustered
    <3>13. t.used = r.used \cup cl /\ t.sets = b
      BY <3>1 DEF b
    <3>14. 1 .. i \subseteq t.used
      BY <2>2, <2>4, <3>2, <3>13 DEF i
    <3> QED BY <3>11, <3>12, <3>13, <3>14 DEF t, i
  <2> QED BY <2>5, <2>6
<1>7. Nat \subseteq N
  <2> HIDE DEF N
  <2> QED BY <1>5, <1>6, Induction
<1>8. Parted(f[n], n)
  <2> HIDE DEF Parted
  <2> QED BY <1>1, <1>7
<1> HIDE DEF N
<1>9. \A x \in D : \E i \in DOMAIN f[n].sets : x \in f[n].sets[i].all
  BY <1>1, <1>8
<1> QED BY <1>3, <1>8, <1>9 DEF D

-----------------------------------------------------------------------------
(* A level.                                                                *)

\* The invariant: leaves of different current nodes differ; while the build
\* goes on a current node is listed once and has no parent yet.
Apart == \A i, j \in DOMAIN current :
            i # j => LeavesOf(nodes, current[i]) \cap LeavesOf(nodes, current[j]) = {}
Roots == /\ \A i, j \in DOMAIN current : i # j => current[i] # current[j]
         /\ \A i \in DOMAIN current : \A n \in DOMAIN nodes : current[i] \notin nodes[n].children
         /\ \A i \in DOMAIN current : nodes[current[i]].level <= level
Covers == /\ UNION {LeavesOf(nodes, current[i]) : i \in DOMAIN current} = DOMAIN leaves
          /\ \A n \in DOMAIN nodes : nodes[n].level <= level

RaptorInv ==
    /\ minCluster \in Nat /\ level \in Nat
    /\ Tree(nodes)
    /\ IsSeq(current) /\ \A i \in DOMAIN current : current[i] \in DOMAIN nodes
    /\ Apart
    /\ rPc = "build" => Roots
    /\ minCluster = 2 => Covers

\* Large clusters and new nodes correspond.
LEMMA IdsAre ==
    ASSUME Len(nodes) \in Nat, NEW sets, IsSeq(sets)
    PROVE  LET L == Large(sets)
               c == Cardinality(L)
           IN /\ IsFiniteSet(L) /\ c \in Nat
              /\ \A i \in L : IdOf(sets, i) \in (Len(nodes) + 1) .. (Len(nodes) + c)
              /\ \A i, j \in L : IdOf(sets, i) = IdOf(sets, j) => i = j
              /\ \A n \in 1 .. c : \E i \in L : IdOf(sets, i) = Len(nodes) + n
<1> DEFINE L == Large(sets)
           c == Cardinality(L)
           N == Len(nodes)
           R == Upwards(L)
           place(i) == Cardinality(Before(R, L, i))
<1>1. L \in SUBSET Nat /\ IsFiniteSet(L)
  <2>1. Len(sets) \in Nat /\ DOMAIN sets = 1 .. Len(sets)
    BY SeqIs
  <2>2. L \in SUBSET (1 .. Len(sets))
    BY <2>1 DEF Large
  <2>3. IsFiniteSet(1 .. Len(sets))
    BY <2>1, FS_Interval
  <2> HIDE DEF L
  <2>4. IsFiniteSet(L)
    BY <2>2, <2>3, FS_Subset
  <2> QED BY <2>2, <2>4
<1> HIDE DEF L
<1>2. /\ Orders(R, L)
      /\ \A x \in L : Before(R, L, x) = {j \in L : j < x}
      /\ \A x, y \in L : <<x, y>> \in R <=> x < y
  BY <1>1, NumbersOrdered
<1>3. /\ c \in Nat
      /\ \A x \in L : place(x) \in 0 .. (c - 1)
      /\ \A x, y \in L : <<x, y>> \in R <=> place(x) < place(y)
      /\ \A n \in 0 .. (c - 1) : \E x \in L : place(x) = n
  BY <1>1, <1>2, Places
<1> HIDE DEF R
<1>4. ASSUME NEW i \in L PROVE IdOf(sets, i) = N + (place(i) + 1)
  <2> DEFINE B == {b \in L : b < i}
             A == {b \in L : b <= i}
  <2>1. A = B \cup {i} /\ i \notin B
    <3>1. \A b \in L : b \in Nat
      BY <1>1
    <3>2. \A b \in L : b <= i <=> (b < i \/ b = i)
      BY <3>1
    <3>3. ~(i < i)
      BY <3>1
    <3> HIDE DEF place
    <3> QED BY <3>2, <3>3
  <2>2. IsFiniteSet(B)
    <3>1. B \in SUBSET L
      OBVIOUS
    <3> HIDE DEF B
    <3> QED BY <1>1, <3>1, FS_Subset
  <2>3. place(i) = Cardinality(B)
    BY <1>2
  <2>4. IdOf(sets, i) = N + Cardinality(A)
    BY DEF IdOf, L
  <2> HIDE DEF A, B, place
  <2>5. Cardinality(A) = Cardinality(B) + 1
    BY <2>1, <2>2, FS_AddElement
  <2> QED BY <2>3, <2>4, <2>5
<1> HIDE DEF place, c, N
<1>5. N \in Nat
  BY DEF N
<1>6. \A i \in L : IdOf(sets, i) \in (N + 1) .. (N + c)
  <2> SUFFICES ASSUME NEW i \in L PROVE IdOf(sets, i) \in (N + 1) .. (N + c)
    OBVIOUS
  <2>1. place(i) \in Nat /\ place(i) <= c - 1
    BY <1>3
  <2> QED BY <1>3, <1>4, <1>5, <2>1
<1>7. ASSUME NEW i \in L, NEW j \in L, IdOf(sets, i) = IdOf(sets, j) PROVE i = j
  <2>1. place(i) \in Nat /\ place(j) \in Nat
    BY <1>3
  <2>2. place(i) = place(j)
    BY <1>4, <1>5, <1>7, <2>1
  <2>3. ~(i < j) /\ ~(j < i)
    <3>1. (i < j <=> place(i) < place(j)) /\ (j < i <=> place(j) < place(i))
      BY <1>2, <1>3
    <3> QED BY <2>1, <2>2, <3>1
  <2>4. i \in Nat /\ j \in Nat
    BY <1>1
  <2> QED BY <2>3, <2>4
<1>8. ASSUME NEW n \in 1 .. c PROVE \E i \in L : IdOf(sets, i) = N + n
  <2>1. n - 1 \in 0 .. (c - 1) /\ (n - 1) + 1 = n
    BY <1>3
  <2>2. PICK i \in L : place(i) = n - 1
    BY <1>3, <2>1
  <2>3. IdOf(sets, i) = N + n
    BY <1>4, <2>1, <2>2
  <2> QED BY <2>3
<1> QED BY <1>1, <1>3, <1>6, <1>7, <1>8 DEF L, c, N

\* The nodes with their new parents.
LEMMA GrownIs ==
    ASSUME IsSeq(nodes), NEW sets, IsSeq(sets), NEW embeds
    PROVE  LET g == Grown(sets, embeds)
               L == Large(sets)
           IN /\ IsSeq(g) /\ Len(nodes) <= Len(g) /\ DOMAIN nodes \subseteq DOMAIN g
              /\ \A n \in DOMAIN nodes : g[n] = nodes[n]
              /\ \A i \in L : IdOf(sets, i) \in DOMAIN g
                              /\ g[IdOf(sets, i)] = Parent(sets[i], embeds)
              /\ \A n \in DOMAIN g \ DOMAIN nodes : \E i \in L : n = IdOf(sets, i)
<1> DEFINE L == Large(sets)
           c == Cardinality(L)
           N == Len(nodes)
           new == [n \in 1 .. c |->
                     Parent(sets[CHOOSE i \in L : IdOf(sets, i) = N + n], embeds)]
           g == Grown(sets, embeds)
<1>1. g = nodes \o new
  BY DEF Grown
<1>2. N \in Nat /\ DOMAIN nodes = 1 .. N
  BY SeqIs
<1>3. /\ c \in Nat
      /\ \A i \in L : IdOf(sets, i) \in (N + 1) .. (N + c)
      /\ \A i, j \in L : IdOf(sets, i) = IdOf(sets, j) => i = j
      /\ \A n \in 1 .. c : \E i \in L : IdOf(sets, i) = N + n
  BY <1>2, IdsAre
<1> HIDE DEF N, L, c, g
<1>4. ASSUME NEW i \in L, NEW n \in 1 .. c, IdOf(sets, i) = N + n
      PROVE  new[n] = Parent(sets[i], embeds)
  <2> DEFINE j == CHOOSE j \in L : IdOf(sets, j) = N + n
  <2>1. j \in L /\ IdOf(sets, j) = N + n
    BY <1>4
  <2>2. new[n] = Parent(sets[j], embeds)
    OBVIOUS
  <2> HIDE DEF j, new
  <2>3. j = i
    BY <1>3, <1>4, <2>1
  <2> QED BY <2>2, <2>3
<1>5. DOMAIN new = 1 .. c
  OBVIOUS
<1> HIDE DEF new
<1> DEFINE T == Range(nodes) \cup Range(new)
<1>6. nodes \in Seq(T) /\ new \in Seq(T) /\ Len(new) = c
  <2>1. nodes \in [1 .. N -> T]
    <3>1. nodes = [n \in 1 .. N |-> nodes[n]]
      BY <1>2 DEF IsSeq
    <3>2. \A n \in 1 .. N : nodes[n] \in T
      BY <1>2 DEF Range
    <3> HIDE DEF T
    <3> QED BY <3>1, <3>2
  <2>2. new \in [1 .. c -> T]
    <3>1. new = [n \in 1 .. c |-> new[n]]
      BY DEF new
    <3>2. \A n \in 1 .. c : new[n] \in T
      BY <1>5 DEF Range
    <3> HIDE DEF T
    <3> QED BY <3>1, <3>2
  <2> HIDE DEF T
  <2> QED BY <1>2, <1>3, <2>1, <2>2, FunctionIsList
<1> HIDE DEF T
<1>7. /\ g \in Seq(T) /\ Len(g) = N + c
      /\ \A n \in 1 .. (N + c) : g[n] = IF n <= N THEN nodes[n] ELSE new[n - N]
  BY <1>1, <1>6, ConcatProperties DEF N
<1>8. DOMAIN g = 1 .. (N + c) /\ g \in [1 .. (N + c) -> T]
  <2>1. g \in [1 .. Len(g) -> T]
    BY <1>7, LenProperties
  <2> QED BY <1>7, <2>1
<1>9. IsSeq(g)
  <2>1. g = [n \in 1 .. (N + c) |-> g[n]]
    BY <1>8
  <2>2. \A n \in 1 .. (N + c) : g[n] \in Range(g)
    BY <1>8 DEF Range
  <2>3. g \in [1 .. (N + c) -> Range(g)]
    BY <2>1, <2>2
  <2>4. N + c \in Nat
    BY <1>2, <1>3
  <2> QED BY <2>3, <2>4, FunctionIsList DEF IsSeq
<1>10. N <= Len(g) /\ DOMAIN nodes \subseteq DOMAIN g
  BY <1>2, <1>3, <1>7, <1>8
<1>11. \A n \in DOMAIN nodes : g[n] = nodes[n]
  <2> SUFFICES ASSUME NEW n \in DOMAIN nodes PROVE g[n] = nodes[n]
    OBVIOUS
  <2>1. n \in 1 .. (N + c) /\ n <= N
    BY <1>2, <1>3
  <2> QED BY <1>7, <2>1
<1>12. ASSUME NEW i \in L
       PROVE  IdOf(sets, i) \in DOMAIN g /\ g[IdOf(sets, i)] = Parent(sets[i], embeds)
  <2> DEFINE d == IdOf(sets, i)
             n == d - N
  <2>1. d \in (N + 1) .. (N + c)
    BY <1>3
  <2> HIDE DEF d
  <2>2. d \in 1 .. (N + c) /\ ~(d <= N) /\ n \in 1 .. c /\ d = N + n
    BY <1>2, <1>3, <2>1
  <2>3. g[d] = new[n]
    BY <1>7, <2>2
  <2>4. new[n] = Parent(sets[i], embeds)
    <3> HIDE DEF n
    <3> QED BY <1>4, <2>2 DEF d
  <2> QED BY <1>8, <2>2, <2>3, <2>4 DEF d
<1>13. ASSUME NEW n \in DOMAIN g \ DOMAIN nodes PROVE \E i \in L : n = IdOf(sets, i)
  <2>1. n - N \in 1 .. c /\ n = N + (n - N)
    BY <1>2, <1>3, <1>8
  <2>2. PICK i \in L : IdOf(sets, i) = N + (n - N)
    BY <1>3, <2>1
  <2> QED BY <2>1, <2>2
<1> QED BY <1>9, <1>10, <1>11, <1>12, <1>13 DEF g, L, N

\* What a cluster stands for on the next level.
Group(sets, i) == IF i \in Large(sets) THEN sets[i].all ELSE {sets[i].seed}
Below(sets, i) == {current[x] : x \in sets[i].all}

LEMMA ParentIs ==
    ASSUME NEW cl, NEW embeds
    PROVE  Parent(cl, embeds).level = level + 1
           /\ Parent(cl, embeds).children = {current[i] : i \in cl.all}
BY DEF Parent

\* The new nodes stand behind the old ones and above what they summarise.
LEMMA NewParents ==
    ASSUME RaptorInv, NEW sets, Clustered(sets, DOMAIN current), NEW embeds
    PROVE  LET g == Grown(sets, embeds)
           IN /\ IsSeq(g) /\ Len(nodes) <= Len(g) /\ DOMAIN nodes \subseteq DOMAIN g
              /\ \A n \in DOMAIN nodes : g[n] = nodes[n]
              /\ \A i \in Large(sets) :
                    /\ i \in DOMAIN sets
                    /\ IdOf(sets, i) \in DOMAIN g /\ IdOf(sets, i) \notin DOMAIN nodes
                    /\ DOMAIN nodes \subseteq 1 .. (IdOf(sets, i) - 1)
                    /\ g[IdOf(sets, i)].level = level + 1
                    /\ g[IdOf(sets, i)].children = Below(sets, i)
                    /\ Below(sets, i) \subseteq DOMAIN nodes
              /\ \A i, j \in Large(sets) : IdOf(sets, i) = IdOf(sets, j) => i = j
              /\ \A n \in DOMAIN g \ DOMAIN nodes : \E i \in Large(sets) : n = IdOf(sets, i)
<1> DEFINE g == Grown(sets, embeds)
           L == Large(sets)
           N == Len(nodes)
           c == Cardinality(L)
<1>1. IsSeq(nodes) /\ IsSeq(sets) /\ N \in Nat /\ DOMAIN nodes = 1 .. N
  BY SeqIs DEF RaptorInv, Tree, Clustered
<1>2. /\ c \in Nat
      /\ \A i \in L : IdOf(sets, i) \in (N + 1) .. (N + c)
      /\ \A i, j \in L : IdOf(sets, i) = IdOf(sets, j) => i = j
  BY <1>1, IdsAre
<1>3. /\ IsSeq(g) /\ Len(nodes) <= Len(g) /\ DOMAIN nodes \subseteq DOMAIN g
      /\ \A n \in DOMAIN nodes : g[n] = nodes[n]
      /\ \A i \in L : IdOf(sets, i) \in DOMAIN g
                      /\ g[IdOf(sets, i)] = Parent(sets[i], embeds)
      /\ \A n \in DOMAIN g \ DOMAIN nodes : \E i \in L : n = IdOf(sets, i)
  BY <1>1, GrownIs
<1>4. \A i \in L : i \in DOMAIN sets
  BY DEF Large
<1> HIDE DEF g, L, c, N
<1>5. ASSUME NEW i \in L
      PROVE  /\ IdOf(sets, i) \notin DOMAIN nodes
             /\ DOMAIN nodes \subseteq 1 .. (IdOf(sets, i) - 1)
             /\ g[IdOf(sets, i)].level = level + 1
             /\ g[IdOf(sets, i)].children = Below(sets, i)
             /\ Below(sets, i) \subseteq DOMAIN nodes
  <2> DEFINE d == IdOf(sets, i)
  <2>1. d \in Nat /\ N + 1 <= d
    BY <1>1, <1>2
  <2>2. d \notin DOMAIN nodes /\ DOMAIN nodes \subseteq 1 .. (d - 1)
    <3> HIDE DEF d
    <3> QED BY <1>1, <2>1
  <2>3. g[d] = Parent(sets[i], embeds)
    BY <1>3
  <2>4. g[d].level = level + 1 /\ g[d].children = Below(sets, i)
    <3> HIDE DEF d
    <3> QED BY <2>3, ParentIs DEF Below
  <2>5. sets[i].all \subseteq DOMAIN current
    BY <1>4 DEF Clustered
  <2>6. Below(sets, i) \subseteq DOMAIN nodes
    BY <2>5 DEF RaptorInv, Below
  <2> QED BY <2>2, <2>4, <2>6
<1> QED BY <1>2, <1>3, <1>4, <1>5 DEF g, L

\* They keep the nodes a forest, as what is clustered had no parent.
LEMMA GrownTree ==
    ASSUME RaptorInv, rPc = "build", NEW sets, Clustered(sets, DOMAIN current), NEW embeds
    PROVE  Tree(Grown(sets, embeds))
<1> DEFINE g == Grown(sets, embeds)
           L == Large(sets)
<1>1. /\ IsSeq(g) /\ Len(nodes) <= Len(g) /\ DOMAIN nodes \subseteq DOMAIN g
      /\ \A n \in DOMAIN nodes : g[n] = nodes[n]
      /\ \A i \in L : /\ i \in DOMAIN sets
                      /\ DOMAIN nodes \subseteq 1 .. (IdOf(sets, i) - 1)
                      /\ g[IdOf(sets, i)].level = level + 1
                      /\ g[IdOf(sets, i)].children = Below(sets, i)
                      /\ Below(sets, i) \subseteq DOMAIN nodes
      /\ \A n \in DOMAIN g \ DOMAIN nodes : \E i \in L : n = IdOf(sets, i)
  BY NewParents
<1> HIDE DEF g, L
<1>2. /\ level \in Nat
      /\ \A n \in DOMAIN nodes :
            /\ nodes[n].level \in Nat /\ nodes[n].children \subseteq 1 .. (n - 1)
            /\ nodes[n].children \subseteq DOMAIN nodes
            /\ \A m \in nodes[n].children : nodes[m].level < nodes[n].level
      /\ \A m, n \in DOMAIN nodes : m # n => nodes[m].children \cap nodes[n].children = {}
  BY LeavesAre DEF RaptorInv, Tree
<1>3. /\ \A i, j \in DOMAIN current : i # j => current[i] # current[j]
      /\ \A i \in DOMAIN current : \A n \in DOMAIN nodes : current[i] \notin nodes[n].children
      /\ \A i \in DOMAIN current : nodes[current[i]].level <= level
      /\ \A i \in DOMAIN current : current[i] \in DOMAIN nodes
  BY DEF RaptorInv, Roots
<1>4. \A i \in DOMAIN sets : \A x \in sets[i].all : x \in DOMAIN current
  BY DEF Clustered
<1>5. ASSUME NEW n \in DOMAIN g
      PROVE  /\ g[n].level \in Nat /\ g[n].children \subseteq 1 .. (n - 1)
             /\ \A m \in g[n].children : g[m].level < g[n].level
  <2>1. CASE n \in DOMAIN nodes
    <3>1. g[n] = nodes[n]
      BY <1>1, <2>1
    <3>2. \A m \in nodes[n].children : g[m] = nodes[m]
      BY <1>1, <1>2, <2>1
    <3> QED BY <1>2, <2>1, <3>1, <3>2
  <2>2. CASE n \notin DOMAIN nodes
    <3>1. PICK i \in L : n = IdOf(sets, i)
      BY <1>1, <2>2
    <3>2. g[n].level = level + 1 /\ g[n].children = Below(sets, i) /\ i \in DOMAIN sets
      BY <1>1, <3>1
    <3>3. g[n].children \subseteq 1 .. (n - 1)
      BY <1>1, <3>1
    <3>4. ASSUME NEW m \in g[n].children PROVE g[m].level < g[n].level
      <4>1. PICK x \in sets[i].all : m = current[x]
        BY <3>2 DEF Below
      <4>2. x \in DOMAIN current
        BY <1>4, <3>2
      <4>3. m \in DOMAIN nodes /\ nodes[m].level <= level /\ nodes[m].level \in Nat
        BY <1>2, <1>3, <4>1, <4>2
      <4>4. g[m].level = nodes[m].level
        BY <1>1, <4>3
      <4> QED BY <1>2, <3>2, <4>3, <4>4
    <3>5. g[n].level \in Nat
      BY <1>2, <3>2
    <3> QED BY <3>3, <3>4, <3>5
  <2> QED BY <2>1, <2>2
<1>6. ASSUME NEW m \in DOMAIN g, NEW n \in DOMAIN g, NEW k,
             k \in g[m].children, k \in g[n].children
      PROVE  m = n
  <2>1. \A a \in DOMAIN g : a \in DOMAIN nodes =>
            /\ g[a].children = nodes[a].children
            /\ \A x \in DOMAIN current : current[x] \notin g[a].children
    BY <1>1, <1>3
  <2>2. \A a \in DOMAIN g : a \notin DOMAIN nodes /\ k \in g[a].children =>
            \E i \in L : /\ a = IdOf(sets, i) /\ i \in DOMAIN sets
                         /\ \E x \in sets[i].all : x \in DOMAIN current /\ k = current[x]
    BY <1>1, <1>4 DEF Below
  <2>3. CASE m \in DOMAIN nodes /\ n \in DOMAIN nodes
    BY <1>2, <1>6, <2>1, <2>3
  <2>4. CASE m \in DOMAIN nodes /\ n \notin DOMAIN nodes
    BY <1>6, <2>1, <2>2, <2>4
  <2>5. CASE m \notin DOMAIN nodes /\ n \in DOMAIN nodes
    BY <1>6, <2>1, <2>2, <2>5
  <2>6. CASE m \notin DOMAIN nodes /\ n \notin DOMAIN nodes
    <3>1. PICK i \in L : /\ m = IdOf(sets, i) /\ i \in DOMAIN sets
                         /\ \E x \in sets[i].all : x \in DOMAIN current /\ k = current[x]
      BY <1>6, <2>2, <2>6
    <3>2. PICK j \in L : /\ n = IdOf(sets, j) /\ j \in DOMAIN sets
                         /\ \E x \in sets[j].all : x \in DOMAIN current /\ k = current[x]
      BY <1>6, <2>2, <2>6
    <3>3. PICK x \in sets[i].all : x \in DOMAIN current /\ k = current[x]
      BY <3>1
    <3>4. x \in sets[j].all
      BY <1>3, <3>2, <3>3
    <3>5. i = j
      BY <3>1, <3>2, <3>3, <3>4 DEF Clustered
    <3> QED BY <3>1, <3>2, <3>5
  <2> QED BY <2>3, <2>4, <2>5, <2>6
<1>7. \A m, n \in DOMAIN g : m # n => g[m].children \cap g[n].children = {}
  BY <1>6
<1> QED BY <1>1, <1>5, <1>7 DEF Tree, g

\* Under a node of the next level is what was under its cluster.
LEMMA NextLeaves ==
    ASSUME RaptorInv, rPc = "build", NEW sets, Clustered(sets, DOMAIN current), NEW embeds
    PROVE  /\ \A n \in DOMAIN nodes : LeavesOf(Grown(sets, embeds), n) = LeavesOf(nodes, n)
           /\ \A i \in DOMAIN sets :
                 /\ Group(sets, i) \subseteq sets[i].all
                 /\ Carried(sets)[i] \in DOMAIN Grown(sets, embeds)
                 /\ LeavesOf(Grown(sets, embeds), Carried(sets)[i])
                       = UNION {LeavesOf(nodes, current[x]) : x \in Group(sets, i)}
<1> DEFINE g == Grown(sets, embeds)
           L == Large(sets)
<1>1. /\ Len(nodes) <= Len(g) /\ DOMAIN nodes \subseteq DOMAIN g
      /\ \A n \in DOMAIN nodes : g[n] = nodes[n]
      /\ \A i \in L : /\ IdOf(sets, i) \in DOMAIN g
                      /\ g[IdOf(sets, i)].children = Below(sets, i)
                      /\ Below(sets, i) \subseteq DOMAIN nodes
  BY NewParents
<1>2. Tree(g) /\ Tree(nodes)
  BY GrownTree DEF RaptorInv
<1>0. \A i \in DOMAIN sets : Carried(sets)[i] = IF i \in L THEN IdOf(sets, i)
                                                 ELSE current[sets[i].seed]
  BY DEF Carried
<1> HIDE DEF g
<1>3. \A n \in DOMAIN nodes : LeavesOf(g, n) = LeavesOf(nodes, n)
  BY <1>1, <1>2, LeavesSame
<1>4. ASSUME NEW i \in DOMAIN sets
      PROVE  /\ Group(sets, i) \subseteq sets[i].all
             /\ Carried(sets)[i] \in DOMAIN g
             /\ LeavesOf(g, Carried(sets)[i])
                   = UNION {LeavesOf(nodes, current[x]) : x \in Group(sets, i)}
  <2>1. sets[i].seed \in sets[i].all /\ sets[i].all \subseteq DOMAIN current
    BY DEF Clustered
  <2>2. Group(sets, i) \subseteq sets[i].all
    BY <2>1 DEF Group
  <2>3. CASE i \in L
    <3> DEFINE d == IdOf(sets, i)
    <3>1. Carried(sets)[i] = d /\ Group(sets, i) = sets[i].all
      BY <1>0, <2>3 DEF Group
    <3>2. d \in DOMAIN g /\ g[d].children = Below(sets, i)
          /\ Below(sets, i) \subseteq DOMAIN nodes
      BY <1>1, <2>3
    <3> HIDE DEF d
    <3>3. current[sets[i].seed] \in Below(sets, i)
      BY <2>1 DEF Below
    <3>4. LeavesOf(g, d) = UNION {LeavesOf(g, c) : c \in Below(sets, i)}
      BY <1>2, <3>2, <3>3, LeavesAre
    <3>5. \A c \in Below(sets, i) : LeavesOf(g, c) = LeavesOf(nodes, c)
      BY <1>3, <3>2
    <3>6. UNION {LeavesOf(g, c) : c \in Below(sets, i)}
             = UNION {LeavesOf(nodes, current[x]) : x \in sets[i].all}
      BY <3>5 DEF Below
    <3> QED BY <2>2, <3>1, <3>2, <3>4, <3>6
  <2>4. CASE i \notin L
    <3> DEFINE d == current[sets[i].seed]
    <3>1. Carried(sets)[i] = d /\ Group(sets, i) = {sets[i].seed}
      BY <1>0, <2>4 DEF Group
    <3>2. d \in DOMAIN nodes
      BY <2>1 DEF RaptorInv
    <3>3. LeavesOf(g, d) = LeavesOf(nodes, d) /\ d \in DOMAIN g
      BY <1>1, <1>3, <3>2
    <3> QED BY <2>2, <3>1, <3>3
  <2> QED BY <2>3, <2>4
<1> QED BY <1>3, <1>4 DEF g

\* A large cluster, where two are enough, has a member besides its seed, so
\* there are fewer clusters than nodes.
LEMMA LevelShrinks ==
    ASSUME RaptorInv, minCluster = 2, NEW sets, Clustered(sets, DOMAIN current),
           Large(sets) # {}
    PROVE  Len(sets) < Len(current)
<1> DEFINE D == DOMAIN current
           S == DOMAIN sets
<1>1. /\ Len(current) \in Nat /\ D = 1 .. Len(current)
      /\ Len(sets) \in Nat /\ S = 1 .. Len(sets)
  BY SeqIs DEF RaptorInv, Clustered
<1>2. PICK i \in S : Cardinality(sets[i].all) >= 2
  BY DEF Large, BigEnough
<1>3. IsFiniteSet(D) /\ Cardinality(D) = Len(current) /\ Cardinality(S) = Len(sets)
  <2>1. ASSUME NEW n \in Nat PROVE IsFiniteSet(1 .. n) /\ Cardinality(1 .. n) = n
    <3>1. /\ IsFiniteSet(1 .. n)
          /\ Cardinality(1 .. n) = IF 1 > n THEN 0 ELSE n - 1 + 1
      BY FS_Interval
    <3> QED BY <3>1
  <2> HIDE DEF D, S
  <2> QED BY <1>1, <2>1
<1>4. PICK y \in sets[i].all : y # sets[i].seed
  <2> SUFFICES ASSUME \A y \in sets[i].all : y = sets[i].seed PROVE FALSE
    OBVIOUS
  <2>1. sets[i].all = {sets[i].seed}
    BY DEF Clustered
  <2>2. Cardinality(sets[i].all) = 1
    BY <2>1, FS_Singleton
  <2> QED BY <1>2, <2>2
<1> DEFINE T == D \ {y}
           f == [j \in S |-> sets[j].seed]
<1>5. \A j \in S : f[j] \in T
  <2> SUFFICES ASSUME NEW j \in S PROVE sets[j].seed \in D /\ sets[j].seed # y
    OBVIOUS
  <2>1. sets[j].seed \in sets[j].all /\ sets[j].all \subseteq D
    BY DEF Clustered
  <2>2. CASE sets[j].seed = y
    <3>1. i = j
      BY <1>4, <2>1, <2>2 DEF Clustered
    <3> QED BY <1>4, <2>2, <3>1
  <2> QED BY <2>1, <2>2
<1>6. f \in Injection(S, T)
  <2>1. \A j, k \in S : f[j] = f[k] => j = k
    BY DEF Clustered
  <2>2. f \in [S -> T]
    <3> HIDE DEF T
    <3> QED BY <1>5
  <2> HIDE DEF f, T
  <2> QED BY <2>1, <2>2 DEF Injection, IsInjective
<1>7. y \in D
  BY DEF Clustered
<1>8. IsFiniteSet(T) /\ Cardinality(T) = Cardinality(D) - 1
  <2> HIDE DEF D
  <2> QED BY <1>3, <1>7, FS_RemoveElement
<1>9. Cardinality(S) <= Cardinality(T)
  <2> HIDE DEF f, T, S, D
  <2> QED BY <1>6, <1>8, FS_Injection
<1> HIDE DEF S, T, D
<1> QED BY <1>1, <1>3, <1>8, <1>9

\* A build that only ends, or does not move.
LEMMA StillThere ==
    ASSUME RaptorInv, UNCHANGED <<leaves, minCluster, nodes, current, level>>,
           rPc' = "build" => rPc = "build"
    PROVE  RaptorInv'
<1>1. \A i : LeavesOf(nodes', current'[i]) = LeavesOf(nodes, current[i])
  OBVIOUS
<1>2. Apart'
  BY <1>1 DEF RaptorInv, Apart
<1>3. Roots => Roots'
  BY DEF Roots
<1>4. Covers => Covers'
  <2> SUFFICES ASSUME Covers PROVE Covers'
    OBVIOUS
  <2>1. UNION {LeavesOf(nodes', current'[i]) : i \in DOMAIN current'} = DOMAIN leaves'
    BY <1>1 DEF Covers
  <2>2. \A n \in DOMAIN nodes' : nodes'[n].level <= level'
    BY DEF Covers
  <2> QED BY <2>1, <2>2 DEF Covers
<1>5. /\ minCluster' \in Nat /\ level' \in Nat
      /\ Tree(nodes')
      /\ IsSeq(current') /\ \A i \in DOMAIN current' : current'[i] \in DOMAIN nodes'
  BY DEF RaptorInv
<1> QED BY <1>2, <1>3, <1>4, <1>5 DEF RaptorInv

\* A level that is clustered leaves the invariant true.
LEMMA LevelStep ==
    ASSUME RaptorInv, RaptorLevel
    PROVE  RaptorInv'
<1>1. PICK low \in BOOLEAN, embeds \in BOOLEAN :
        LET sets == Clusters(low)
            next == Carried(sets)
        IN IF Large(sets) = {} THEN rPc' = "built" /\ UNCHANGED <<nodes, current, level>>
           ELSE /\ nodes' = Grown(sets, embeds)
                /\ IF Len(next) >= Len(current)
                   THEN rPc' = "built" /\ UNCHANGED <<current, level>>
                   ELSE current' = next /\ level' = level + 1 /\ UNCHANGED rPc
  BY DEF RaptorLevel
<1> DEFINE sets == Clusters(low)
           g == Grown(sets, embeds)
           next == Carried(sets)
<1>2. /\ Clustered(sets, DOMAIN current)
      /\ \A x \in DOMAIN current : \E i \in DOMAIN sets : x \in sets[i].all
  BY ClustersAre DEF RaptorInv
<1>3. rPc = "build" /\ UNCHANGED <<leaves, minCluster>>
  BY DEF RaptorLevel
<1>4. \/ rPc' = "built" /\ UNCHANGED <<nodes, current, level>>
      \/ /\ Large(sets) # {} /\ nodes' = g
         /\ \/ Len(next) >= Len(current) /\ rPc' = "built" /\ UNCHANGED <<current, level>>
            \/ current' = next /\ level' = level + 1 /\ UNCHANGED rPc
  BY <1>1
<1> HIDE DEF sets
<1>5. /\ \A n \in DOMAIN nodes : LeavesOf(g, n) = LeavesOf(nodes, n)
      /\ \A i \in DOMAIN sets :
            /\ Group(sets, i) \subseteq sets[i].all
            /\ next[i] \in DOMAIN g
            /\ LeavesOf(g, next[i]) = UNION {LeavesOf(nodes, current[x]) : x \in Group(sets, i)}
  BY <1>2, <1>3, NextLeaves
<1>6. Tree(g)
  BY <1>2, <1>3, GrownTree
<1>7. /\ DOMAIN nodes \subseteq DOMAIN g
      /\ \A n \in DOMAIN nodes : g[n] = nodes[n]
      /\ \A i \in Large(sets) :
            /\ i \in DOMAIN sets
            /\ IdOf(sets, i) \in DOMAIN g /\ IdOf(sets, i) \notin DOMAIN nodes
            /\ g[IdOf(sets, i)].level = level + 1
            /\ g[IdOf(sets, i)].children = Below(sets, i)
            /\ Below(sets, i) \subseteq DOMAIN nodes
      /\ \A i, j \in Large(sets) : IdOf(sets, i) = IdOf(sets, j) => i = j
      /\ \A n \in DOMAIN g \ DOMAIN nodes : \E i \in Large(sets) : n = IdOf(sets, i)
  BY <1>2, NewParents
<1>8. /\ IsSeq(sets) /\ DOMAIN next = DOMAIN sets
      /\ \A i \in DOMAIN sets : next[i] = IF i \in Large(sets) THEN IdOf(sets, i)
                                          ELSE current[sets[i].seed]
  BY <1>2 DEF Carried, Clustered
<1> HIDE DEF g, next
<1>9. IsSeq(next) /\ Len(next) = Len(sets)
  <2>1. Len(sets) \in Nat /\ DOMAIN next = 1 .. Len(sets)
    BY <1>8, SeqIs
  <2>2. next = [i \in 1 .. Len(sets) |-> next[i]]
    BY <1>8, <2>1 DEF next, Carried
  <2>3. \A i \in 1 .. Len(sets) : next[i] \in Range(next)
    BY <2>1 DEF Range
  <2>4. next \in [1 .. Len(sets) -> Range(next)]
    BY <2>2, <2>3
  <2> QED BY <2>1, <2>4, FunctionIsList DEF IsSeq
<1>10. /\ \A i \in DOMAIN sets : sets[i].seed \in sets[i].all /\ sets[i].all \subseteq DOMAIN current
       /\ \A i, j \in DOMAIN sets : i # j => sets[i].all \cap sets[j].all = {}
  BY <1>2 DEF Clustered
<1>11. CASE rPc' = "built" /\ UNCHANGED <<nodes, current, level>>
  BY <1>3, <1>11, StillThere
<1>12. CASE /\ Large(sets) # {} /\ nodes' = g
            /\ Len(next) >= Len(current) /\ rPc' = "built" /\ UNCHANGED <<current, level>>
  <2>1. minCluster # 2
    <3> SUFFICES ASSUME minCluster = 2 PROVE FALSE
      OBVIOUS
    <3>1. Len(sets) < Len(current)
      BY <1>2, <1>12, LevelShrinks
    <3>2. Len(sets) \in Nat /\ Len(current) \in Nat
      BY <1>8, SeqIs DEF RaptorInv
    <3> QED BY <1>9, <1>12, <3>1, <3>2
  <2>2. \A i \in DOMAIN current : LeavesOf(nodes', current'[i]) = LeavesOf(nodes, current[i])
    BY <1>5, <1>12 DEF RaptorInv
  <2>3. Apart'
    BY <1>12, <2>2 DEF RaptorInv, Apart
  <2>4. Tree(nodes')
    BY <1>6, <1>12
  <2>5. \A i \in DOMAIN current' : current'[i] \in DOMAIN nodes'
    BY <1>7, <1>12 DEF RaptorInv
  <2> QED BY <1>3, <1>12, <2>1, <2>3, <2>4, <2>5 DEF RaptorInv
<1>13. CASE /\ Large(sets) # {} /\ nodes' = g
            /\ current' = next /\ level' = level + 1 /\ UNCHANGED rPc
  <2>1. ASSUME NEW i \in DOMAIN sets, NEW j \in DOMAIN sets, i # j
        PROVE  LeavesOf(g, next[i]) \cap LeavesOf(g, next[j]) = {}
    <3> SUFFICES ASSUME NEW x \in Group(sets, i), NEW y \in Group(sets, j), NEW l,
                        l \in LeavesOf(nodes, current[x]), l \in LeavesOf(nodes, current[y])
                 PROVE  FALSE
      BY <1>5
    <3>1. x \in DOMAIN current /\ y \in DOMAIN current /\ x # y
      BY <1>5, <1>10, <2>1
    <3> QED BY <3>1 DEF RaptorInv, Apart
  <2>2. Apart'
    BY <1>8, <1>13, <2>1 DEF Apart
  <2>3. /\ \A i, j \in DOMAIN current : i # j => current[i] # current[j]
        /\ \A i \in DOMAIN current : \A n \in DOMAIN nodes : current[i] \notin nodes[n].children
        /\ \A i \in DOMAIN current : nodes[current[i]].level <= level
        /\ \A i \in DOMAIN current : current[i] \in DOMAIN nodes /\ nodes[current[i]].level \in Nat
        /\ level \in Nat
    BY <1>3 DEF RaptorInv, Roots, Tree
  <2>4. ASSUME NEW i \in DOMAIN sets, NEW j \in DOMAIN sets, i # j
        PROVE  next[i] # next[j]
    <3>1. sets[i].seed \in DOMAIN current /\ sets[j].seed \in DOMAIN current
          /\ sets[i].seed # sets[j].seed
      BY <1>10, <2>4
    <3>2. current[sets[i].seed] \in DOMAIN nodes /\ current[sets[j].seed] \in DOMAIN nodes
          /\ current[sets[i].seed] # current[sets[j].seed]
      BY <2>3, <3>1
    <3> QED BY <1>7, <1>8, <2>4, <3>2
  <2>5. ASSUME NEW i \in DOMAIN sets, NEW n \in DOMAIN g, next[i] \in g[n].children
        PROVE  FALSE
    <3>1. CASE n \in DOMAIN nodes
      <4>1. g[n].children = nodes[n].children
        BY <1>7, <3>1
      <4>2. nodes[n].children \subseteq DOMAIN nodes
        BY <3>1, LeavesAre DEF RaptorInv
      <4>3. next[i] = current[sets[i].seed] /\ sets[i].seed \in DOMAIN current
        BY <1>7, <1>8, <1>10, <2>5, <4>1, <4>2
      <4> QED BY <2>3, <2>5, <3>1, <4>1, <4>3
    <3>2. CASE n \notin DOMAIN nodes
      <4>1. PICK j \in Large(sets) : n = IdOf(sets, j)
        BY <1>7, <3>2
      <4>2. j \in DOMAIN sets /\ next[i] \in Below(sets, j) /\ next[i] \in DOMAIN nodes
        BY <1>7, <2>5, <4>1
      <4>3. i \notin Large(sets) /\ next[i] = current[sets[i].seed]
        BY <1>7, <1>8, <4>2
      <4>4. PICK x \in sets[j].all : next[i] = current[x]
        BY <4>2 DEF Below
      <4>5. x = sets[i].seed
        BY <1>10, <2>3, <4>2, <4>3, <4>4
      <4>6. i = j
        BY <1>10, <4>2, <4>4, <4>5
      <4> QED BY <4>3, <4>6
    <3> QED BY <3>1, <3>2
  <2>6. ASSUME NEW i \in DOMAIN sets PROVE g[next[i]].level <= level + 1
    <3>1. CASE i \in Large(sets)
      BY <1>7, <1>8, <2>3, <3>1
    <3>2. CASE i \notin Large(sets)
      <4>1. next[i] = current[sets[i].seed] /\ sets[i].seed \in DOMAIN current
        BY <1>8, <1>10, <3>2
      <4>2. g[next[i]].level = nodes[next[i]].level
        BY <1>7, <2>3, <4>1
      <4>3. nodes[next[i]].level <= level /\ nodes[next[i]].level \in Nat
        BY <2>3, <4>1
      <4> QED BY <2>3, <4>2, <4>3
    <3> QED BY <3>1, <3>2
  <2>7. Roots'
    BY <1>8, <1>13, <2>4, <2>5, <2>6 DEF Roots
  <2>8. ASSUME minCluster = 2 PROVE Covers'
    <3>1. ASSUME NEW i \in DOMAIN sets PROVE Group(sets, i) = sets[i].all
      <4>1. CASE i \in Large(sets)
        BY <4>1 DEF Group
      <4>2. CASE i \notin Large(sets)
        <5>1. ~(Cardinality(sets[i].all) >= 2)
          BY <2>8, <4>2 DEF Large, BigEnough
        <5>2. IsFiniteSet(sets[i].all)
          <6>1. IsFiniteSet(DOMAIN current)
            BY SeqIs, FS_Interval DEF RaptorInv
          <6>2. sets[i].all \in SUBSET DOMAIN current
            BY <1>10
          <6> QED BY <6>1, <6>2, FS_Subset
        <5>3. Cardinality(sets[i].all) \in Nat /\ Cardinality(sets[i].all) # 0
          BY <1>10, <5>2, FS_CardinalityType, FS_EmptySet
        <5>4. Cardinality(sets[i].all) = 1
          BY <5>1, <5>3
        <5>5. \E x : sets[i].all = {x}
          BY <5>2, <5>4, FS_Singleton
        <5>6. sets[i].all = {sets[i].seed}
          BY <1>10, <5>5
        <5> QED BY <4>2, <5>6 DEF Group
      <4> QED BY <4>1, <4>2
    <3>2. UNION {LeavesOf(g, next[i]) : i \in DOMAIN sets}
             = UNION {LeavesOf(nodes, current[x]) : x \in DOMAIN current}
      <4>1. ASSUME NEW l
            PROVE  (\E i \in DOMAIN sets : l \in LeavesOf(g, next[i]))
                   <=> \E x \in DOMAIN current : l \in LeavesOf(nodes, current[x])
        <5>1. \A i \in DOMAIN sets : l \in LeavesOf(g, next[i]) <=>
                 \E x \in sets[i].all : l \in LeavesOf(nodes, current[x])
          BY <1>5, <3>1
        <5> QED BY <1>2, <1>10, <5>1
      <4> QED BY <4>1
    <3>3. UNION {LeavesOf(nodes, current[x]) : x \in DOMAIN current} = DOMAIN leaves
      BY <2>8 DEF RaptorInv, Covers
    <3>4. ASSUME NEW n \in DOMAIN g PROVE g[n].level <= level + 1
      <4>1. CASE n \in DOMAIN nodes
        <5>1. nodes[n].level <= level /\ nodes[n].level \in Nat
          BY <2>8, <4>1 DEF RaptorInv, Covers, Tree
        <5> QED BY <1>7, <2>3, <4>1, <5>1
      <4>2. CASE n \notin DOMAIN nodes
        BY <1>7, <2>3, <4>2
      <4> QED BY <4>1, <4>2
    <3>5. UNION {LeavesOf(nodes', current'[i]) : i \in DOMAIN current'} = DOMAIN leaves'
      <4>1. UNION {LeavesOf(nodes', current'[i]) : i \in DOMAIN current'}
               = UNION {LeavesOf(g, next[i]) : i \in DOMAIN sets}
        BY <1>8, <1>13
      <4> QED BY <1>3, <3>2, <3>3, <4>1
    <3>6. \A n \in DOMAIN nodes' : nodes'[n].level <= level'
      BY <1>13, <3>4
    <3> QED BY <3>5, <3>6 DEF Covers
  <2>9. /\ minCluster' = minCluster /\ minCluster \in Nat /\ level' \in Nat
        /\ Tree(nodes') /\ IsSeq(current')
    BY <1>3, <1>6, <1>9, <1>13, <2>3 DEF RaptorInv
  <2>10. \A i \in DOMAIN current' : current'[i] \in DOMAIN nodes'
    BY <1>5, <1>8, <1>13
  <2> QED BY <2>2, <2>7, <2>8, <2>9, <2>10 DEF RaptorInv
<1> QED BY <1>4, <1>11, <1>12, <1>13

\* ForestCovers: every node of the tree has one parent at most and stands
\* below it, no chunk is under two nodes of the level being clustered, and
\* where clusters of two get a parent every chunk is under one of them.
THEOREM ForestHolds ==
    ASSUME NEW inputs,
           \A in \in inputs : in.leaves \in Seq(Range(in.leaves)) /\ in.minCluster \in Nat
    PROVE  RaptorInit(inputs) /\ [][RaptorNext]_raptorVars => []ForestCovers
<1>1. RaptorInit(inputs) => RaptorInv
  <2> SUFFICES ASSUME RaptorInit(inputs) PROVE RaptorInv
    OBVIOUS
  <2>1. IsSeq(leaves) /\ minCluster \in Nat
    BY DEF RaptorInit, IsSeq
  <2>2. /\ Len(leaves) \in Nat /\ DOMAIN leaves = 1 .. Len(leaves)
        /\ DOMAIN nodes = DOMAIN leaves /\ DOMAIN current = DOMAIN leaves
        /\ \A i \in DOMAIN leaves : nodes[i].level = 0 /\ nodes[i].children = {}
                                    /\ current[i] = i
        /\ level = 0
    BY <2>1, SeqIs DEF RaptorInit
  <2>3. IsSeq(nodes) /\ IsSeq(current)
    <3> DEFINE n == Len(leaves)
    <3>1. nodes = [i \in 1 .. n |-> nodes[i]] /\ current = [i \in 1 .. n |-> current[i]]
      BY <2>2 DEF RaptorInit
    <3>2. \A i \in 1 .. n : nodes[i] \in Range(nodes) /\ current[i] \in Range(current)
      BY <2>2 DEF Range
    <3>3. nodes \in [1 .. n -> Range(nodes)] /\ current \in [1 .. n -> Range(current)]
      BY <3>1, <3>2
    <3> HIDE DEF n
    <3>4. n \in Nat
      BY <2>2 DEF n
    <3> QED BY <3>3, <3>4, FunctionIsList DEF IsSeq
  <2>4. Tree(nodes)
    BY <2>2, <2>3 DEF Tree
  <2>5. \A i \in DOMAIN nodes : LeavesOf(nodes, i) = {i}
    BY <2>2, <2>4, LeavesAre
  <2>6. Apart /\ Roots
    BY <2>2, <2>5 DEF Apart, Roots
  <2>7. Covers
    <3>1. UNION {LeavesOf(nodes, current[i]) : i \in DOMAIN current} = DOMAIN leaves
      BY <2>2, <2>5
    <3> QED BY <2>2, <3>1 DEF Covers
  <2> QED BY <2>1, <2>2, <2>3, <2>4, <2>6, <2>7 DEF RaptorInv
<1>2. RaptorInv /\ [RaptorNext]_raptorVars => RaptorInv'
  <2> SUFFICES ASSUME RaptorInv, [RaptorNext]_raptorVars PROVE RaptorInv'
    OBVIOUS
  <2>1. CASE RaptorLevel
    BY <2>1, LevelStep
  <2>2. CASE RaptorTop
    BY <2>2, StillThere DEF RaptorTop
  <2>3. CASE UNCHANGED raptorVars
    BY <2>3, StillThere DEF raptorVars
  <2> QED BY <2>1, <2>2, <2>3 DEF RaptorNext
<1>3. RaptorInv => ForestCovers
  <2> SUFFICES ASSUME RaptorInv PROVE ForestCovers
    OBVIOUS
  <2>1. \A n : LeavesUnder(n) = LeavesOf(nodes, n)
    BY LeavesHere
  <2>2. \A m, n \in DOMAIN nodes :
          /\ m \in nodes[n].children => nodes[m].level < nodes[n].level
          /\ m # n => nodes[m].children \cap nodes[n].children = {}
    BY DEF RaptorInv, Tree
  <2>3. \A i, j \in DOMAIN current :
          i # j => LeavesUnder(current[i]) \cap LeavesUnder(current[j]) = {}
    BY <2>1 DEF RaptorInv, Apart
  <2>4. minCluster = 2 =>
          /\ UNION {LeavesUnder(current[i]) : i \in DOMAIN current} = DOMAIN leaves
          /\ \A n \in DOMAIN nodes : nodes[n].level <= level
    BY <2>1 DEF RaptorInv, Covers
  <2> QED BY <2>2, <2>3, <2>4 DEF ForestCovers
<1> QED BY <1>1, <1>2, <1>3, PTL

\* A list in another order has the same members.
LEMMA ReorderedIs ==
    ASSUME NEW S, NEW s, Once(s, S), NEW score, \A x \in S : score[x] \in Int, NEW tie,
           \A i \in DOMAIN s : tie[i] \in Int, \A i, j \in DOMAIN s : tie[i] = tie[j] => i = j
    PROVE  /\ Once(ReorderedBy(s, score, tie), S)
           /\ Len(ReorderedBy(s, score, tie)) = Len(s)
           /\ Range(ReorderedBy(s, score, tie)) = Range(s)
<1> DEFINE n == Len(s)
           D == DOMAIN s
           by == [i \in D |-> score[s[i]]]
           order == Sorted(D, by, tie)
           t == ReorderedBy(s, score, tie)
<1>1. /\ s \in Seq(S) /\ n \in Nat /\ D = 1 .. n
      /\ \A i, j \in 1 .. n : s[i] = s[j] => i = j
  BY OnceIs
<1>2. IsFiniteSet(1 .. n) /\ Cardinality(1 .. n) = n
  <2>1. ASSUME NEW m \in Nat PROVE IsFiniteSet(1 .. m) /\ Cardinality(1 .. m) = m
    BY FS_Interval
  <2> HIDE DEF n
  <2> QED BY <1>1, <2>1
<1>3. \A i \in D : s[i] \in S /\ by[i] \in Int
  BY <1>1, ElementOfSeq
<1>4. t = [i \in D |-> s[order[i]]]
  BY DEF ReorderedBy
<1>5. IsFiniteSet(D) /\ Cardinality(D) = n
  BY <1>1, <1>2
<1> HIDE DEF by, D
<1>6. /\ order \in [1 .. n -> D]
      /\ \A x \in D : \E m \in 1 .. n : order[m] = x
      /\ \A l, m \in 1 .. n : l < m <=> <<order[l], order[m]>> \in SortOrder(D, by, tie)
  <2>1. /\ \A x \in D : by[x] \in Int /\ tie[x] \in Int
        /\ \A x, y \in D : tie[x] = tie[y] => x = y
    BY <1>3 DEF D
  <2> HIDE DEF n
  <2> QED BY <1>5, <2>1, SortedIs
<1> HIDE DEF order, n, t
<1>7. \A l, m \in 1 .. n : order[l] = order[m] => l = m
  <2> TAKE l, m \in 1 .. n
  <2> HAVE order[l] = order[m]
  <2>1. ~(l < m) /\ ~(m < l)
    <3>1. \A x \in D : by[x] \in Int /\ tie[x] \in Int
      BY <1>3 DEF D
    <3>2. \A x \in D : <<x, x>> \notin SortOrder(D, by, tie)
      BY <3>1 DEF SortOrder
    <3> QED BY <1>6, <3>2
  <2> QED BY <1>1, <2>1
<1>8. \A i \in 1 .. n : order[i] \in 1 .. n /\ t[i] = s[order[i]] /\ t[i] \in S
  BY <1>1, <1>3, <1>4, <1>6
<1>9. t \in [1 .. n -> S]
  <2>1. t = [i \in 1 .. n |-> t[i]]
    BY <1>1, <1>4
  <2> QED BY <1>8, <2>1
<1>10. t \in Seq(S) /\ Len(t) = n /\ DOMAIN t = 1 .. n
  BY <1>1, <1>9, FunctionIsList
<1>11. Once(t, S)
  BY <1>1, <1>7, <1>8, <1>10 DEF Once
<1>12. Range(t) = Range(s)
  <2>1. ASSUME NEW i \in 1 .. n PROVE \E m \in 1 .. n : t[m] = s[i]
    <3>1. PICK m \in 1 .. n : order[m] = i
      BY <1>1, <1>6
    <3> QED BY <1>8, <3>1
  <2>2. DOMAIN s = 1 .. n
    BY <1>1 DEF D
  <2>3. \A m \in 1 .. n : \E i \in 1 .. n : t[m] = s[i]
    BY <1>8
  <2>4. Range(t) = {t[m] : m \in 1 .. n} /\ Range(s) = {s[i] : i \in 1 .. n}
    BY <1>10, <2>2 DEF Range
  <2> QED BY <2>1, <2>3, <2>4
<1> QED BY <1>10, <1>11, <1>12 DEF t, n

-----------------------------------------------------------------------------
(* What a search finds.                                                    *)

\* The texts of a request, and what is assumed of it: the searches find chunks
\* of the corpus, the dense one every chunk with an embedding.
TextsOf(p) == (0 .. p.generated) \cup (0 .. p.tokens - 1)
PlanOk(p) ==
    /\ p.k \in Nat \ {0} /\ p.retrieveK \in Nat /\ p.lateK \in Nat /\ p.crossK \in Nat
    /\ p.generated \in Nat /\ p.take \in Nat /\ p.tokens \in Nat /\ p.stride \in Nat
    /\ p.embedded \in SUBSET SChunks
    /\ \A t \in TextsOf(p) :
          /\ Once(p.near[t], SChunks) /\ SChunks \subseteq Range(p.near[t])
          /\ Once(p.match[t], SChunks)

\* How many chunks a search for t can find.
Depth(t) == Cardinality(IF Served /\ plan.embedded # {} THEN plan.embedded
                        ELSE Range(plan.match[t]))

LEMMA NearIs ==
    ASSUME PlanOk(plan), NEW t \in TextsOf(plan), NEW k \in Nat
    PROVE  /\ Once(Near(t, k), SChunks) /\ Range(Near(t, k)) \subseteq plan.embedded
           /\ Cardinality(plan.embedded) \in Nat
           /\ Len(Near(t, k)) = Lesser(k, Cardinality(plan.embedded))
<1> DEFINE near == plan.near[t]
           S == {i \in DOMAIN near : near[i] \in plan.embedded}
           s == Selected(near, S)
<1>1. Once(near, SChunks) /\ SChunks \subseteq Range(near) /\ plan.embedded \subseteq SChunks
  BY DEF PlanOk
<1>2. S \in SUBSET DOMAIN near
  OBVIOUS
<1>3. {near[i] : i \in S} = plan.embedded
  BY <1>1 DEF Range
<1>4. Near(t, k) = Truncated(s, k)
  BY DEF Near
<1> HIDE DEF near, S
<1>5. Once(s, SChunks) /\ Range(s) = plan.embedded
  <2>1. Once(near, SChunks) /\ S \in SUBSET DOMAIN near
    BY <1>1, <1>2
  <2>2. Once(Selected(near, S), SChunks) /\ Range(Selected(near, S)) = {near[i] : i \in S}
    BY <2>1, OncePicked
  <2> QED BY <1>3, <2>2
<1> HIDE DEF s
<1>6. Cardinality(plan.embedded) = Len(s) /\ Len(s) \in Nat
  BY <1>5, OnceIs
<1>7. /\ Once(Truncated(s, k), SChunks) /\ Len(Truncated(s, k)) = Lesser(k, Len(s))
      /\ Range(Truncated(s, k)) \subseteq Range(s)
  BY <1>5, OnceTruncated
<1> QED BY <1>4, <1>5, <1>6, <1>7

LEMMA LexicalIs ==
    ASSUME PlanOk(plan), NEW t \in TextsOf(plan), NEW k \in Nat
    PROVE  /\ Once(Lexical(t, k), SChunks) /\ Range(Lexical(t, k)) \subseteq Range(plan.match[t])
           /\ Cardinality(Range(plan.match[t])) \in Nat
           /\ Cardinality(Range(plan.match[t])) = Len(plan.match[t])
           /\ Len(Lexical(t, k)) = Lesser(k, Cardinality(Range(plan.match[t])))
<1> DEFINE match == plan.match[t]
<1>1. Once(match, SChunks)
  BY DEF PlanOk
<1>2. Lexical(t, k) = Truncated(match, k)
  BY DEF Lexical
<1> HIDE DEF match
<1>3. Cardinality(Range(match)) = Len(match) /\ Len(match) \in Nat
  BY <1>1, OnceIs
<1>4. /\ Once(Truncated(match, k), SChunks) /\ Len(Truncated(match, k)) = Lesser(k, Len(match))
      /\ Range(Truncated(match, k)) \subseteq Range(match)
  BY <1>1, OnceTruncated
<1>5. /\ Once(Lexical(t, k), SChunks) /\ Range(Lexical(t, k)) \subseteq Range(match)
      /\ Cardinality(Range(match)) \in Nat /\ Cardinality(Range(match)) = Len(match)
      /\ Len(Lexical(t, k)) = Lesser(k, Cardinality(Range(match)))
  BY <1>2, <1>3, <1>4
<1> QED BY <1>5 DEF match

\* A list is empty when its length is 0.
LEMMA EmptyIs ==
    ASSUME NEW S, NEW s, Once(s, S)
    PROVE  s = << >> <=> Len(s) = 0
<1>1. s \in Seq(S) /\ Len(s) \in Nat
  BY OnceIs
<1> QED BY <1>1, EmptySeq

\* Both searches: different chunks, that could be got, as many as there are.
LEMMA SearchIs ==
    ASSUME PlanOk(plan), NEW t \in TextsOf(plan), NEW k \in Nat
    PROVE  /\ Once(DenseElseLexical(t, k), SChunks)
           /\ Range(DenseElseLexical(t, k)) \subseteq Reachable(t)
           /\ Depth(t) \in Nat
           /\ Len(DenseElseLexical(t, k)) = Lesser(k, Depth(t))
           /\ k # 0 /\ DenseElseLexical(t, k) = << >> => ~Answerable(t)
<1> DEFINE near == Near(t, k)
           lex == Lexical(t, k)
           match == plan.match[t]
           card == Cardinality(plan.embedded)
           hits == Cardinality(Range(match))
<1>1. /\ Once(near, SChunks) /\ Range(near) \subseteq plan.embedded
      /\ card \in Nat /\ Len(near) = Lesser(k, card)
  BY NearIs
<1>2. /\ Once(lex, SChunks) /\ Range(lex) \subseteq Range(match)
      /\ hits \in Nat /\ hits = Len(match) /\ Len(lex) = Lesser(k, hits)
  BY LexicalIs
<1>3. card = 0 <=> plan.embedded = {}
  <2>1. plan.embedded \subseteq SChunks /\ IsFiniteSet(SChunks)
    BY StrategiesAssumption DEF PlanOk
  <2>2. IsFiniteSet(plan.embedded)
    BY <2>1, FS_Subset
  <2> QED BY <2>2, FS_EmptySet
<1>4. hits = 0 <=> match = << >>
  <2>1. Once(match, SChunks)
    BY DEF PlanOk
  <2> QED BY <1>2, <2>1, EmptyIs
<1>5. /\ DenseElseLexical(t, k) = IF Served /\ near # << >> THEN near ELSE lex
      /\ Depth(t) = IF Served /\ plan.embedded # {} THEN card ELSE hits
      /\ Answerable(t) <=> match # << >>
      /\ Reachable(t) = Range(match) \cup (IF Served THEN plan.embedded ELSE {})
  BY DEF DenseElseLexical, Depth, Answerable, Reachable
<1>6. near = << >> <=> Len(near) = 0
  BY <1>1, EmptyIs
<1>7. lex = << >> <=> Len(lex) = 0
  BY <1>2, EmptyIs
<1> HIDE DEF near, lex, match, card, hits
<1>8. CASE Served /\ near # << >>
  <2>1. Len(near) # 0 /\ card # 0
    BY <1>1, <1>6, <1>8 DEF Lesser
  <2> QED BY <1>1, <1>3, <1>5, <1>8, <2>1
<1>9. CASE ~Served
  <2>1. k # 0 /\ lex = << >> => hits = 0
    BY <1>2, <1>7 DEF Lesser
  <2> QED BY <1>2, <1>4, <1>5, <1>9, <2>1
<1>10. CASE Served /\ near = << >>
  <2>1. k = 0 \/ card = 0
    BY <1>1, <1>6, <1>10 DEF Lesser
  <2>2. Lesser(k, Depth(t)) = Lesser(k, hits) /\ Depth(t) \in Nat
    BY <1>1, <1>2, <1>3, <1>5, <1>10, <2>1 DEF Lesser
  <2>3. k # 0 /\ lex = << >> => hits = 0
    BY <1>2, <1>7 DEF Lesser
  <2>4. DenseElseLexical(t, k) = lex
    BY <1>5, <1>10
  <2>5. Range(lex) \subseteq Reachable(t)
    BY <1>2, <1>5
  <2> QED BY <1>2, <1>4, <1>5, <2>2, <2>3, <2>4, <2>5
<1> QED BY <1>8, <1>9, <1>10

-----------------------------------------------------------------------------
(* Fusing what several texts got.                                        *)

\* The lists that are not empty.
LEMMA NonEmptyIs ==
    ASSUME NEW T, NEW results \in Seq(T)
    PROVE  /\ NonEmpty(results) \in Seq(T)
           /\ \A m \in DOMAIN NonEmpty(results) :
                 /\ NonEmpty(results)[m] # << >>
                 /\ \E i \in DOMAIN results : NonEmpty(results)[m] = results[i]
           /\ NonEmpty(results) = << >> => \A i \in DOMAIN results : results[i] = << >>
<1> DEFINE S == {i \in DOMAIN results : results[i] # << >>}
           t == Selected(results, S)
<1>1. S \in SUBSET DOMAIN results
  OBVIOUS
<1>2. \A i \in DOMAIN results : i \in S <=> results[i] # << >>
  OBVIOUS
<1>3. NonEmpty(results) = t
  BY DEF NonEmpty
<1> HIDE DEF S
<1>4. t \in Seq(T) /\ \E p : SelectedFrom(t, results, S, p)
  BY <1>1, SelectedIs
<1>5. PICK p : SelectedFrom(t, results, S, p)
  BY <1>4
<1> HIDE DEF t
<1>6. Len(t) \in Nat /\ DOMAIN t = 1 .. Len(t)
  BY <1>4, LenProperties
<1>7. /\ \A m \in 1 .. Len(t) : p[m] \in S /\ t[m] = results[p[m]]
      /\ \A i \in S : \E m \in 1 .. Len(t) : p[m] = i
  BY <1>5 DEF SelectedFrom
<1>8. \A m \in DOMAIN t : t[m] # << >> /\ \E i \in DOMAIN results : t[m] = results[i]
  BY <1>1, <1>2, <1>6, <1>7
<1>9. ASSUME t = << >> PROVE \A i \in DOMAIN results : results[i] = << >>
  <2>1. Len(t) = 0
    BY <1>4, <1>9, EmptySeq
  <2>2. S = {}
    BY <1>7, <2>1
  <2> QED BY <1>2, <2>2
<1> QED BY <1>3, <1>4, <1>8, <1>9

LEMMA ChunksAre ==
    ASSUME NEW S \in SUBSET SChunks
    PROVE  IsFiniteSet(S) /\ Cardinality(S) \in Nat /\ S \in SUBSET Nat
<1>1. IsFiniteSet(SChunks) /\ SChunks = 1 .. Cardinality(SChunks)
  BY StrategiesAssumption
<1>2. Cardinality(SChunks) \in Nat
  BY <1>1, FS_CardinalityType
<1>3. SChunks \subseteq Nat
  BY <1>1, <1>2
<1> QED BY <1>1, <1>3, FS_Subset, FS_CardinalityType

\* The score a chunk gets from the lists that have it is a number.
LEMMA RrfIs ==
    ASSUME NEW results \in Seq(Seq(SChunks))
    PROVE  LET lists == [i \in DOMAIN results |-> ListOf(results[i])]
               all   == UNION {Range(results[i]) : i \in DOMAIN results}
           IN /\ all \in SUBSET SChunks
              /\ DOMAIN RrfScores(lists) = all
              /\ \A c \in all : RrfScores(lists)[c] \in Nat
<1> DEFINE D == DOMAIN results
           lists == [i \in D |-> ListOf(results[i])]
           all == UNION {Range(results[i]) : i \in D}
           named == UNION {ChunksOf(lists[i].hits) : i \in DOMAIN lists}
           ranks == {RrfK + r : r \in 1 .. Cardinality(named)}
           P == ProductOf([x \in ranks |-> x])
           share(c, i) == IF c \in ChunksOf(lists[i].hits)
                          THEN lists[i].weight * (P \div (RrfK + PlaceOf(lists[i].hits, c)))
                          ELSE 0
<1>1. Len(results) \in Nat /\ D = 1 .. Len(results)
  BY LenProperties
<1>2. ASSUME NEW i \in D
      PROVE  /\ Len(results[i]) \in Nat
             /\ DOMAIN lists[i].hits = 1 .. Len(results[i])
             /\ ChunksOf(lists[i].hits) = Range(results[i])
             /\ Range(results[i]) \subseteq SChunks
             /\ lists[i].weight = 1
  <2>1. results[i] \in Seq(SChunks)
    BY <1>1, ElementOfSeq
  <2>2. /\ Len(results[i]) \in Nat /\ DOMAIN results[i] = 1 .. Len(results[i])
        /\ results[i] \in [1 .. Len(results[i]) -> SChunks]
    BY <2>1, LenProperties
  <2>3. /\ lists[i].hits = [j \in DOMAIN results[i] |-> [chunk |-> results[i][j], score |-> 0]]
        /\ lists[i].weight = 1
    BY DEF ListOf
  <2> HIDE DEF lists
  <2>4. ChunksOf(lists[i].hits) = Range(results[i])
    BY <2>3 DEF ChunksOf, Range
  <2>5. Range(results[i]) \subseteq SChunks
    BY <2>2 DEF Range
  <2> QED BY <2>2, <2>3, <2>4, <2>5
<1>3. DOMAIN lists = D
  OBVIOUS
<1>4. RrfScores(lists) = [c \in named |-> SumOf([i \in DOMAIN lists |-> share(c, i)])]
  BY DEF RrfScores, SumOver, ProductOver
<1> HIDE DEF D, lists, share, ranks
<1>5. named = all /\ all \in SUBSET SChunks
  BY <1>2, <1>3
<1>6. P \in Nat
  <2> DEFINE n == Cardinality(named)
             f == [r \in 1 .. n |-> RrfK + r]
  <2>1. n \in Nat
    BY <1>5, ChunksAre
  <2> HIDE DEF n
  <2>2. IsFiniteSet(1 .. n)
    BY <2>1, FS_Interval
  <2>3. ranks = {f[r] : r \in DOMAIN f} /\ DOMAIN f = 1 .. n
    BY DEF ranks, n
  <2>4. \A r \in 1 .. n : f[r] \in Nat
    BY <2>1, FusionAssumption
  <2> HIDE DEF f
  <2>5. IsFiniteSet(ranks) /\ ranks \in SUBSET Nat
    BY <2>2, <2>3, <2>4, ImageFinite
  <2> DEFINE w == [x \in ranks |-> x]
  <2>6. w \in [ranks -> Nat]
    BY <2>5
  <2> HIDE DEF w
  <2>7. ProductOf(w) \in Nat
    BY <2>5, <2>6, ProductIs
  <2> QED BY <2>7 DEF w
<1> HIDE DEF P, named, all
<1>7. ASSUME NEW c \in all, NEW i \in D PROVE share(c, i) \in Nat
  <2> DEFINE hits == lists[i].hits
             place == PlaceOf(hits, c)
  <2>1. CASE c \notin ChunksOf(hits)
    BY <2>1 DEF share
  <2>2. CASE c \in ChunksOf(hits)
    <3>1. \E j \in DOMAIN hits : hits[j].chunk = c
      BY <2>2 DEF ChunksOf
    <3>2. place \in DOMAIN hits
      BY <3>1 DEF PlaceOf
    <3>3. place \in Nat \ {0}
      BY <1>2, <3>2
    <3>4. share(c, i) = 1 * (P \div (RrfK + place))
      BY <1>2, <2>2 DEF share
    <3> HIDE DEF place, hits
    <3>5. RrfK + place \in Nat \ {0}
      BY <3>3, FusionAssumption
    <3>6. \A a \in Nat, b \in Nat \ {0} : 1 * (a \div b) \in Nat
      OBVIOUS
    <3> QED BY <1>6, <3>4, <3>5, <3>6
  <2> QED BY <2>1, <2>2
<1>8. IsFiniteSet(D)
  <2>1. ASSUME NEW m \in Nat PROVE IsFiniteSet(1 .. m)
    BY FS_Interval
  <2> QED BY <1>1, <2>1
<1>9. ASSUME NEW c \in all PROVE SumOf([i \in D |-> share(c, i)]) \in Nat
  <2> DEFINE w == [i \in D |-> share(c, i)]
  <2>1. w \in [D -> Nat]
    BY <1>7, <1>9
  <2> HIDE DEF w
  <2>2. SumOf(w) \in Nat
    <3>1. \A x \in D : w[x] = 0 \/ (x \in D /\ w[x] <= w[x])
      BY <2>1
    <3> QED BY <1>8, <2>1, <3>1, SumBound
  <2> QED BY <2>2 DEF w
<1>10. /\ DOMAIN RrfScores(lists) = all
       /\ \A c \in all : RrfScores(lists)[c] \in Nat
  BY <1>3, <1>4, <1>5, <1>9
<1> QED BY <1>5, <1>10 DEF lists, all, D

\* What is fused of lists of chunks: some of them, k at most.
LEMMA FusedIs ==
    ASSUME NEW results \in Seq(Seq(SChunks)), NEW k \in Nat \ {0}, NEW tie \in STies,
           NEW m \in DOMAIN results, results[m] # << >>
    PROVE  /\ FusedChunks(results, k, tie) # << >>
           /\ Len(FusedChunks(results, k, tie)) <= k
           /\ Range(FusedChunks(results, k, tie)) \subseteq
                 UNION {Range(results[i]) : i \in DOMAIN results}
<1> DEFINE lists == [i \in DOMAIN results |-> ListOf(results[i])]
           all == UNION {Range(results[i]) : i \in DOMAIN results}
           score == RrfScores(lists)
           order == Sorted(all, score, tie)
           n == Cardinality(all)
           ranked == Ranked(all, score, tie)
           hits == Truncated(ranked, k)
           t == [i \in DOMAIN hits |-> hits[i].chunk]
<1>1. all \in SUBSET SChunks /\ DOMAIN score = all /\ \A c \in all : score[c] \in Nat
  BY RrfIs
<1>2. FusedChunks(results, k, tie) = [i \in DOMAIN Fused(lists, "rrf", tie, k) |->
                                        Fused(lists, "rrf", tie, k)[i].chunk]
  BY DEF FusedChunks
<1>3. Fused(lists, "rrf", tie, k) = Truncated(Ranked(DOMAIN score, score, tie), k)
  BY DEF Fused
<1>4. all # {}
  <2>1. results[m] \in Seq(SChunks)
    BY ElementOfSeq, LenProperties
  <2>2. Len(results[m]) \in Nat \ {0} /\ DOMAIN results[m] = 1 .. Len(results[m])
    BY <2>1, EmptySeq, LenProperties
  <2>3. 1 \in DOMAIN results[m]
    BY <2>2
  <2>4. results[m][1] \in Range(results[m])
    BY <2>3 DEF Range
  <2>5. results[m][1] \in all
    BY <2>4
  <2> QED BY <2>5
<1> HIDE DEF lists, all, score
<1>5. FusedChunks(results, k, tie) = t
  BY <1>1, <1>2, <1>3
<1>6. IsFiniteSet(all) /\ n \in Nat /\ n # 0
  BY <1>1, <1>4, ChunksAre, FS_EmptySet
<1>7. order \in [1 .. n -> all]
  <2>1. \A c \in SChunks : c \in Int
    <3>1. SChunks \in SUBSET Nat
      BY ChunksAre
    <3> QED BY <3>1
  <2>3. /\ \A c \in SChunks : tie[c] \in Int
        /\ \A c, d \in SChunks : tie[c] = tie[d] => c = d
    <3>1. CASE tie = [c \in SChunks |-> c]
      BY <2>1, <3>1
    <3>2. CASE tie = [c \in SChunks |-> -c]
      BY <2>1, <3>2
    <3> QED BY <3>1, <3>2 DEF STies
  <2>2. /\ \A x \in all : score[x] \in Int /\ tie[x] \in Int
        /\ \A x, y \in all : tie[x] = tie[y] => x = y
    BY <1>1, <2>3
  <2> QED BY <1>6, <2>2, SortedIs
<1>8. ranked = [i \in 1 .. n |-> [chunk |-> order[i], score |-> score[order[i]]]]
  <2>1. ranked = [i \in DOMAIN order |-> [chunk |-> order[i], score |-> score[order[i]]]]
    BY DEF Ranked
  <2> HIDE DEF ranked, order
  <2> QED BY <1>7, <2>1
<1> HIDE DEF order, n, ranked
<1>9. ranked \in [1 .. n -> [chunk : all, score : Nat]]
  BY <1>1, <1>7, <1>8
<1>10. ranked \in Seq([chunk : all, score : Nat]) /\ Len(ranked) = n
  BY <1>6, <1>9, FunctionIsList
<1>11. /\ hits \in Seq([chunk : all, score : Nat])
       /\ Len(hits) = Lesser(k, n)
  BY <1>10, TruncatedIs
<1> HIDE DEF hits, t
<1>12. /\ Len(hits) \in Nat /\ DOMAIN hits = 1 .. Len(hits)
       /\ \A i \in 1 .. Len(hits) : hits[i].chunk \in all
  <2>1. /\ Len(hits) \in Nat /\ DOMAIN hits = 1 .. Len(hits)
        /\ \A i \in 1 .. Len(hits) : hits[i] \in [chunk : all, score : Nat]
    BY <1>11, LenProperties
  <2> QED BY <2>1
<1>13. Len(hits) <= k /\ Len(hits) # 0
  BY <1>6, <1>11 DEF Lesser
<1>14. t \in [1 .. Len(hits) -> all]
  BY <1>12 DEF t
<1>15. t \in Seq(all) /\ Len(t) = Len(hits) /\ DOMAIN t = 1 .. Len(hits)
  BY <1>12, <1>14, FunctionIsList
<1>16. Range(t) \subseteq all
  BY <1>14, <1>15 DEF Range
<1>17. t # << >>
  BY <1>13, <1>15, EmptySeq
<1> QED BY <1>5, <1>13, <1>15, <1>16, <1>17 DEF all

-----------------------------------------------------------------------------
(* The strategies.                                                         *)

\* How many candidates the stages done so far leave.
PoolWidth(w) ==
    Min({plan.retrieveK, Depth(0)} \cup (IF "late" \in w THEN {plan.lateK} ELSE {})
                                  \cup (IF "cross" \in w THEN {plan.crossK} ELSE {}))
PoolOk(w, pool) ==
    /\ Once(pool, SChunks) /\ Range(pool) \subseteq Reachable(0)
    /\ Len(pool) = PoolWidth(w)

Stages == {"late", "cross", "final"}
StrategiesInv ==
    /\ PlanOk(plan)
    /\ sPc \in Stages \cup {"start", "done", "failed"}
    /\ sPc \in Stages \cup {"start"} => yield = << >>
    /\ sPc = "start" => worked = {}
    /\ sPc \in Stages => plan.kind = "cascade" /\ PoolOk(worked, sPool)
    /\ StrategiesDegrade

LEMMA RequestIs ==
    ASSUME PlanOk(plan)
    PROVE  /\ plan.k \in Nat /\ plan.k # 0
           /\ plan.generated \in Nat /\ plan.take \in Nat
           /\ plan.retrieveK \in Nat /\ plan.lateK \in Nat /\ plan.crossK \in Nat
           /\ plan.tokens \in Nat /\ plan.stride \in Nat
           /\ 0 \in TextsOf(plan)
           /\ \A t \in 0 .. plan.generated : t \in TextsOf(plan)
           /\ \A t \in 0 .. plan.tokens - 1 : t \in TextsOf(plan)
<1>1. /\ plan.k \in Nat /\ plan.k # 0
      /\ plan.generated \in Nat /\ plan.take \in Nat
      /\ plan.retrieveK \in Nat /\ plan.lateK \in Nat /\ plan.crossK \in Nat
      /\ plan.tokens \in Nat /\ plan.stride \in Nat
  BY DEF PlanOk
<1>2. 0 \in 0 .. plan.generated
  BY <1>1
<1> QED BY <1>1, <1>2 DEF TextsOf

\* What a text can find depends on the request alone.
LEMMA RequestSame ==
    ASSUME plan' = plan
    PROVE  /\ \A t : Reachable(t)' = Reachable(t)
           /\ \A t : Answerable(t)' <=> Answerable(t)
           /\ PlanOk(plan)' <=> PlanOk(plan)
           /\ Served' <=> Served
<1>1. \A t : Reachable(t)' = Reachable(t)
  BY DEF Reachable, Served
<1>2. \A t : Answerable(t)' <=> Answerable(t)
  BY DEF Answerable
<1> QED BY <1>1, <1>2 DEF Served

\* A strategy that ends with an answer or with a failure.
LEMMA Ends ==
    ASSUME StrategiesInv, plan' = plan, sPc' \in {"done", "failed"}, StrategiesDegrade'
    PROVE  StrategiesInv'
<1>1. PlanOk(plan)'
  BY RequestSame DEF StrategiesInv
<1>2. sPc' \notin Stages \cup {"start"}
  BY DEF Stages
<1> QED BY <1>1, <1>2 DEF StrategiesInv

\* Found of several texts: HyDE's and multi-query's answer.
Gathered == UNION {Reachable(t) : t \in 0 .. plan.generated}
Finds(results) ==
    /\ results \in Seq(Seq(SChunks))
    /\ \A m \in DOMAIN results : results[m] # << >> /\ Range(results[m]) \subseteq Gathered

LEMMA FusedAnswer ==
    ASSUME StrategiesInv, plan.kind \in {"hyde", "multi"}, NEW results, Finds(results),
           results # << >>, NEW tie \in STies, Returns(FusedChunks(results, plan.k, tie))
    PROVE  StrategiesInv'
<1>1. plan' = plan /\ sPc' = "done" /\ yield' = FusedChunks(results, plan.k, tie)
  BY DEF Returns
<1>2. plan.k \in Nat \ {0}
  BY RequestIs DEF StrategiesInv
<1>3. Len(results) \in Nat \ {0} /\ DOMAIN results = 1 .. Len(results)
  <2>1. results \in Seq(Seq(SChunks))
    BY DEF Finds
  <2> QED BY <2>1, EmptySeq, LenProperties
<1>4. 1 \in DOMAIN results /\ results[1] # << >>
  BY <1>3 DEF Finds
<1>5. /\ yield' # << >> /\ Len(yield') <= plan.k
      /\ Range(yield') \subseteq UNION {Range(results[i]) : i \in DOMAIN results}
  <2>1. results \in Seq(Seq(SChunks))
    BY DEF Finds
  <2> QED BY <1>1, <1>2, <1>4, <2>1, FusedIs
<1>6. Range(yield') \subseteq Gathered
  BY <1>5 DEF Finds
<1>7. StrategiesDegrade'
  <2>1. Range(yield') \subseteq UNION {Reachable(t)' : t \in 0 .. plan'.generated}
    BY <1>1, <1>6, RequestSame DEF Gathered
  <2> QED BY <1>1, <1>5, <2>1 DEF StrategiesDegrade
<1> QED BY <1>1, <1>7, Ends

\* The searches of several texts.
LEMMA SearchesAre ==
    ASSUME PlanOk(plan), NEW n \in Nat, NEW f \in [1 .. n -> 0 .. plan.generated]
    PROVE  LET got == [i \in 1 .. n |-> DenseElseLexical(f[i], plan.k)]
           IN /\ Finds(NonEmpty(got))
              /\ NonEmpty(got) = << >> => \A i \in 1 .. n : ~Answerable(f[i])
<1> DEFINE got == [i \in 1 .. n |-> DenseElseLexical(f[i], plan.k)]
           some == NonEmpty(got)
<1>1. ASSUME NEW i \in 1 .. n
      PROVE  /\ got[i] \in Seq(SChunks) /\ Range(got[i]) \subseteq Gathered
             /\ got[i] = << >> => ~Answerable(f[i])
  <2>1. f[i] \in 0 .. plan.generated /\ f[i] \in TextsOf(plan) /\ plan.k \in Nat /\ plan.k # 0
    BY RequestIs
  <2>2. /\ Once(DenseElseLexical(f[i], plan.k), SChunks)
        /\ Range(DenseElseLexical(f[i], plan.k)) \subseteq Reachable(f[i])
        /\ DenseElseLexical(f[i], plan.k) = << >> => ~Answerable(f[i])
    BY <2>1, SearchIs
  <2>3. Reachable(f[i]) \subseteq Gathered
    BY <2>1 DEF Gathered
  <2>4. got[i] = DenseElseLexical(f[i], plan.k)
    OBVIOUS
  <2> HIDE DEF got
  <2> QED BY <2>2, <2>3, <2>4 DEF Once
<1>2. DOMAIN got = 1 .. n
  OBVIOUS
<1>3. got \in [1 .. n -> Seq(SChunks)]
  BY <1>1
<1> HIDE DEF got
<1>4. got \in Seq(Seq(SChunks))
  BY <1>3, FunctionIsList
<1>5. /\ some \in Seq(Seq(SChunks))
      /\ \A m \in DOMAIN some : some[m] # << >> /\ \E i \in DOMAIN got : some[m] = got[i]
      /\ some = << >> => \A i \in DOMAIN got : got[i] = << >>
  BY <1>4, NonEmptyIs
<1> HIDE DEF some
<1>6. Finds(some)
  BY <1>1, <1>2, <1>5 DEF Finds
<1>7. some = << >> => \A i \in 1 .. n : ~Answerable(f[i])
  BY <1>1, <1>2, <1>5
<1> QED BY <1>6, <1>7 DEF some, got

LEMMA MultiStep ==
    ASSUME StrategiesInv, MultiQuery PROVE StrategiesInv'
<1> DEFINE n == plan.generated + 1
           f == [i \in 1 .. n |-> i - 1]
           some == NonEmpty([i \in 1 .. n |-> DenseElseLexical(f[i], plan.k)])
<1>1. plan.kind = "multi" /\ PlanOk(plan) /\ plan.generated \in Nat
  BY RequestIs DEF MultiQuery, Starts, StrategiesInv
<1>2. n \in Nat /\ f \in [1 .. n -> 0 .. plan.generated]
  BY <1>1
<1>3. \/ some = << >> /\ Fails
      \/ some # << >> /\ \E tie \in STies : Returns(FusedChunks(some, plan.k, tie))
  <2>1. some = NonEmpty([i \in 1 .. plan.generated + 1 |-> DenseElseLexical(i - 1, plan.k)])
    <3>1. [i \in 1 .. n |-> DenseElseLexical(f[i], plan.k)]
            = [i \in 1 .. plan.generated + 1 |-> DenseElseLexical(i - 1, plan.k)]
      OBVIOUS
    <3> QED BY <3>1
  <2> HIDE DEF some
  <2> QED BY <2>1 DEF MultiQuery
<1>4. Finds(some) /\ (some = << >> => \A i \in 1 .. n : ~Answerable(f[i]))
  <2> HIDE DEF n, f
  <2> QED BY <1>1, <1>2, SearchesAre
<1> HIDE DEF some
<1>5. CASE some # << >>
  BY <1>1, <1>3, <1>4, <1>5, FusedAnswer
<1>6. CASE some = << >>
  <2>1. Fails
    BY <1>3, <1>6
  <2>2. plan' = plan /\ sPc' = "failed"
    BY <2>1 DEF Fails
  <2>3. \A t \in 0 .. plan.generated : ~Answerable(t)
    <3> TAKE t \in 0 .. plan.generated
    <3>1. t + 1 \in 1 .. n /\ f[t + 1] = t
      BY <1>1
    <3> HIDE DEF n, f
    <3> QED BY <1>4, <1>6, <3>1
  <2>4. \A t \in 0 .. plan'.generated : ~Answerable(t)'
    BY <2>2, <2>3, RequestSame
  <2>5. StrategiesDegrade'
    BY <1>1, <2>2, <2>4 DEF StrategiesDegrade
  <2> QED BY <2>2, <2>5, Ends
<1> QED BY <1>5, <1>6

LEMMA OwnIs ==
    ASSUME PlanOk(plan)
    PROVE  LET own == RetrieveText(0, plan.k)
           IN /\ own \in Seq(SChunks) /\ Range(own) \subseteq Gathered
              /\ own = << >> => (Served /\ plan.embedded = {}) \/ ~Answerable(0)
<1> DEFINE own == RetrieveText(0, plan.k)
           near == Near(0, plan.k)
           lex == Lexical(0, plan.k)
           card == Cardinality(plan.embedded)
           match == plan.match[0]
<1>1. /\ 0 \in TextsOf(plan) /\ 0 \in 0 .. plan.generated
      /\ plan.k \in Nat /\ plan.k # 0
  BY RequestIs
<1>2. /\ Once(near, SChunks) /\ Range(near) \subseteq plan.embedded
      /\ card \in Nat /\ Len(near) = Lesser(plan.k, card)
  BY <1>1, NearIs
<1>3. /\ Once(lex, SChunks) /\ Range(lex) \subseteq Range(match)
      /\ Len(match) \in Nat /\ Len(lex) = Lesser(plan.k, Len(match))
  <2>1. /\ Once(lex, SChunks) /\ Range(lex) \subseteq Range(match)
        /\ Cardinality(Range(match)) \in Nat /\ Cardinality(Range(match)) = Len(match)
        /\ Len(lex) = Lesser(plan.k, Cardinality(Range(match)))
    BY <1>1, LexicalIs
  <2> HIDE DEF lex, match
  <2> QED BY <2>1
<1>4. /\ own = IF Served THEN near ELSE lex
      /\ Answerable(0) <=> match # << >>
      /\ Reachable(0) = Range(match) \cup (IF Served THEN plan.embedded ELSE {})
      /\ Reachable(0) \subseteq Gathered
  <2>1. Reachable(0) \subseteq Gathered
    BY <1>1 DEF Gathered
  <2> QED BY <2>1 DEF RetrieveText, Answerable, Reachable
<1>5. card = 0 => plan.embedded = {}
  <2>1. plan.embedded \in SUBSET SChunks
    BY DEF PlanOk
  <2>2. IsFiniteSet(plan.embedded)
    BY <2>1, ChunksAre
  <2> QED BY <2>2, FS_EmptySet
<1>6. Len(match) = 0 => match = << >>
  <2>1. Once(match, SChunks)
    BY <1>1 DEF PlanOk
  <2> QED BY <2>1, EmptyIs
<1> HIDE DEF own, near, lex, card, match
<1>7. near = << >> => card = 0
  BY <1>1, <1>2, EmptyIs DEF Lesser
<1>8. lex = << >> => Len(match) = 0
  BY <1>1, <1>3, EmptyIs DEF Lesser
<1>9. own = << >> => (Served /\ plan.embedded = {}) \/ ~Answerable(0)
  BY <1>4, <1>5, <1>6, <1>7, <1>8
<1>10. own \in Seq(SChunks) /\ Range(own) \subseteq Gathered
  <2>1. near \in Seq(SChunks) /\ lex \in Seq(SChunks)
    BY <1>2, <1>3 DEF Once
  <2> QED BY <1>2, <1>3, <1>4, <2>1
<1> QED BY <1>9, <1>10 DEF own

LEMMA HydeStep ==
    ASSUME StrategiesInv, HydeSearch PROVE StrategiesInv'
<1> DEFINE n == Min({plan.generated, plan.take})
           f == [i \in 1 .. n |-> i]
           guess == NonEmpty([i \in 1 .. n |-> DenseElseLexical(f[i], plan.k)])
           own == RetrieveText(0, plan.k)
           added == NonEmpty(Append(guess, own))
           both == IF plan.include \/ guess = << >> THEN added ELSE guess
<1>1. plan.kind = "hyde" /\ PlanOk(plan) /\ plan.generated \in Nat /\ plan.take \in Nat
  BY RequestIs DEF HydeSearch, Starts, StrategiesInv
<1>2. n \in Nat /\ n <= plan.generated
  <2>1. n = Lesser(plan.generated, plan.take)
    BY <1>1, LesserIs
  <2> QED BY <1>1, <2>1 DEF Lesser
<1>3. f \in [1 .. n -> 0 .. plan.generated]
  <2> HIDE DEF n
  <2> QED BY <1>1, <1>2
<1>4. \/ both = << >> /\ Fails
      \/ Len(both) = 1 /\ Returns(Truncated(both[1], plan.k))
      \/ Len(both) > 1 /\ \E tie \in STies : Returns(FusedChunks(both, plan.k, tie))
  <2>1. guess = NonEmpty([i \in DOMAIN [j \in 1 .. n |-> j] |->
                             DenseElseLexical([j \in 1 .. n |-> j][i], plan.k)])
    OBVIOUS
  <2> HIDE DEF guess
  <2> QED BY <2>1 DEF HydeSearch
<1>5. Finds(guess) /\ (guess = << >> => \A i \in 1 .. n : ~Answerable(f[i]))
  <2> HIDE DEF n, f
  <2> QED BY <1>1, <1>2, <1>3, SearchesAre
<1>6. /\ own \in Seq(SChunks) /\ Range(own) \subseteq Gathered
      /\ own = << >> => (Served /\ plan.embedded = {}) \/ ~Answerable(0)
  BY <1>1, OwnIs
<1> HIDE DEF guess, own
<1>7. /\ Finds(added)
      /\ added = << >> => guess = << >> /\ own = << >>
  <2> DEFINE l == Append(guess, own)
  <2>1. guess \in Seq(Seq(SChunks)) /\ Len(guess) \in Nat /\ DOMAIN guess = 1 .. Len(guess)
    BY <1>5, LenProperties DEF Finds
  <2>2. /\ l \in Seq(Seq(SChunks)) /\ Len(l) = Len(guess) + 1
        /\ \A i \in 1 .. Len(guess) : l[i] = guess[i]
        /\ l[Len(guess) + 1] = own
    BY <1>6, <2>1, AppendProperties
  <2> HIDE DEF l
  <2>3. DOMAIN l = 1 .. Len(guess) + 1
    BY <2>2, LenProperties
  <2>4. /\ NonEmpty(l) \in Seq(Seq(SChunks))
        /\ \A m \in DOMAIN NonEmpty(l) :
              NonEmpty(l)[m] # << >> /\ \E i \in DOMAIN l : NonEmpty(l)[m] = l[i]
        /\ NonEmpty(l) = << >> => \A i \in DOMAIN l : l[i] = << >>
    BY <2>2, NonEmptyIs
  <2>5. \A i \in DOMAIN l : Range(l[i]) \subseteq Gathered
    <3> TAKE i \in DOMAIN l
    <3>1. CASE i \in 1 .. Len(guess)
      BY <1>5, <2>1, <2>2, <3>1 DEF Finds
    <3>2. CASE i = Len(guess) + 1
      BY <1>6, <2>2, <3>2
    <3>3. i \in 1 .. Len(guess) \/ i = Len(guess) + 1
      BY <2>1, <2>3
    <3> QED BY <3>1, <3>2, <3>3
  <2>6. Finds(NonEmpty(l))
    BY <2>4, <2>5 DEF Finds
  <2>7. ASSUME NonEmpty(l) = << >> PROVE guess = << >> /\ own = << >>
    <3>1. \A i \in DOMAIN l : l[i] = << >>
      BY <2>4, <2>7
    <3>2. own = << >>
      <4>1. Len(guess) + 1 \in DOMAIN l
        BY <2>1, <2>3
      <4> QED BY <2>2, <3>1, <4>1
    <3>3. ASSUME guess # << >> PROVE FALSE
      <4>1. 1 \in 1 .. Len(guess) /\ 1 \in DOMAIN l
        <5>1. Len(guess) \in Nat \ {0}
          BY <2>1, <3>3, EmptySeq
        <5> QED BY <2>3, <5>1
      <4>2. guess[1] = << >> /\ guess[1] # << >>
        BY <1>5, <2>1, <2>2, <3>1, <4>1 DEF Finds
      <4> QED BY <4>2
    <3> QED BY <3>2, <3>3
  <2> QED BY <2>6, <2>7 DEF l
<1> HIDE DEF added
<1>8. Finds(both) /\ (both = << >> => guess = << >> /\ own = << >>)
  BY <1>5, <1>7
<1> HIDE DEF both
<1>9. both \in Seq(Seq(SChunks)) /\ Len(both) \in Nat /\ DOMAIN both = 1 .. Len(both)
  BY <1>8, LenProperties DEF Finds
<1>10. CASE both = << >> /\ Fails
  <2>1. plan' = plan /\ sPc' = "failed"
    BY <1>10 DEF Fails
  <2>2. (Served /\ plan.embedded = {}) \/ ~Answerable(0)
    BY <1>6, <1>8, <1>10
  <2>3. \A t \in 1 .. n : ~Answerable(t)
    <3> TAKE t \in 1 .. n
    <3>1. f[t] = t
      OBVIOUS
    <3> HIDE DEF f, n
    <3> QED BY <1>5, <1>8, <1>10, <3>1
  <2>4. /\ (Served' /\ plan'.embedded = {}) \/ ~Answerable(0)'
        /\ \A t \in 1 .. Min({plan'.generated, plan'.take}) : ~Answerable(t)'
    BY <2>1, <2>2, <2>3, RequestSame
  <2>5. StrategiesDegrade'
    BY <1>1, <2>1, <2>4 DEF StrategiesDegrade
  <2> QED BY <2>1, <2>5, Ends
<1>11. CASE Len(both) = 1 /\ Returns(Truncated(both[1], plan.k))
  <2> DEFINE t == Truncated(both[1], plan.k)
  <2>1. plan' = plan /\ sPc' = "done" /\ yield' = t
    BY <1>11 DEF Returns
  <2>2. /\ 1 \in DOMAIN both /\ both[1] \in Seq(SChunks) /\ both[1] # << >>
        /\ Range(both[1]) \subseteq Gathered
    <3>1. 1 \in DOMAIN both /\ 1 \in 1 .. Len(both)
      BY <1>9, <1>11
    <3>2. both[1] \in Seq(SChunks)
      BY <1>9, <3>1, ElementOfSeq
    <3> QED BY <1>8, <3>1, <3>2 DEF Finds
  <2>3. plan.k \in Nat /\ plan.k # 0
    BY <1>1, RequestIs
  <2>4. /\ t \in Seq(SChunks) /\ Len(t) = Lesser(plan.k, Len(both[1]))
        /\ \A i \in 1 .. Lesser(plan.k, Len(both[1])) : t[i] = both[1][i]
    BY <2>2, <2>3, TruncatedIs
  <2>5. /\ Len(both[1]) \in Nat \ {0} /\ DOMAIN both[1] = 1 .. Len(both[1])
        /\ DOMAIN t = 1 .. Len(t)
    BY <2>2, <2>4, EmptySeq, LenProperties
  <2> HIDE DEF t
  <2>6. /\ Len(t) <= plan.k /\ Len(t) \in Nat /\ Len(t) # 0
        /\ \A i \in 1 .. Len(t) : i \in DOMAIN both[1]
    BY <2>3, <2>4, <2>5 DEF Lesser
  <2>7. t # << >> /\ Range(t) \subseteq Range(both[1])
    <3>1. t # << >>
      BY <2>6, EmptySeq
    <3>2. Range(t) = {t[i] : i \in 1 .. Len(t)}
      BY <2>5 DEF Range
    <3>3. \A i \in 1 .. Len(t) : t[i] = both[1][i] /\ both[1][i] \in Range(both[1])
      BY <2>4, <2>6 DEF Range
    <3> QED BY <3>1, <3>2, <3>3
  <2>8. /\ yield' # << >> /\ Len(yield') <= plan'.k
        /\ Range(yield') \subseteq UNION {Reachable(x)' : x \in 0 .. plan'.generated}
    BY <2>1, <2>2, <2>6, <2>7, RequestSame DEF Gathered
  <2>9. StrategiesDegrade'
    BY <1>1, <2>1, <2>8 DEF StrategiesDegrade
  <2> QED BY <2>1, <2>9, Ends
<1>12. CASE Len(both) > 1 /\ \E tie \in STies : Returns(FusedChunks(both, plan.k, tie))
  <2>1. both # << >>
    BY <1>9, <1>12, EmptySeq
  <2> QED BY <1>1, <1>8, <1>12, <2>1, FusedAnswer
<1> QED BY <1>4, <1>10, <1>11, <1>12

LEMMA ReplugStep ==
    ASSUME StrategiesInv, Replug PROVE StrategiesInv'
<1> DEFINE got == DenseElseLexical(0, plan.k)
<1>1. plan.kind = "replug" /\ PlanOk(plan)
  BY DEF Replug, Starts, StrategiesInv
<1>2. got = << >> => ~Answerable(0)
  <2>1. 0 \in TextsOf(plan) /\ plan.k \in Nat /\ plan.k # 0
    BY <1>1, RequestIs
  <2> QED BY <1>1, <2>1, SearchIs
<1>3. \/ (got = << >> \/ plan.scorer = "fails") /\ Fails
      \/ Returns(got)
  BY DEF Replug
<1> HIDE DEF got
<1>4. CASE (got = << >> \/ plan.scorer = "fails") /\ Fails
  <2>1. plan' = plan /\ sPc' = "failed"
    BY <1>4 DEF Fails
  <2>2. plan'.scorer = "fails" \/ ~Answerable(0)'
    BY <1>2, <1>4, <2>1, RequestSame
  <2>3. StrategiesDegrade'
    BY <1>1, <2>1, <2>2 DEF StrategiesDegrade
  <2> QED BY <2>1, <2>3, Ends
<1>5. CASE Returns(got)
  <2>1. plan' = plan /\ sPc' = "done"
    BY <1>5 DEF Returns
  <2>2. StrategiesDegrade'
    BY <1>1, <2>1 DEF StrategiesDegrade
  <2> QED BY <2>1, <2>2, Ends
<1> QED BY <1>3, <1>4, <1>5

-----------------------------------------------------------------------------
(* Strides of an input.                                                    *)

\* Different multiples of s are s apart.
LEMMA Multiples ==
    ASSUME NEW s \in Nat \ {0}, NEW p \in Nat, NEW q \in Nat, p % s = 0, q % s = 0, p < q
    PROVE  q - p >= s
<1> DEFINE a == p \div s
           b == q \div s
<1>1. \A x \in Nat : x = s * (x \div s) + (x % s) /\ x \div s \in Nat
  OBVIOUS
<1>2. p = s * a /\ q = s * b /\ a \in Nat /\ b \in Nat
  BY <1>1
<1> HIDE DEF a, b
<1>3. a < b
  <2>1. \A x, y \in Nat : x >= y => s * x >= s * y
    OBVIOUS
  <2> QED BY <1>2, <2>1
<1>4. s * b - s * a = s * (b - a)
  BY <1>2
<1>5. \A n \in Nat \ {0} : s * n >= s
  OBVIOUS
<1>6. b - a \in Nat \ {0}
  BY <1>2, <1>3
<1> QED BY <1>2, <1>4, <1>5, <1>6

LEMMA StridesAre ==
    ASSUME PlanOk(plan)
    PROVE  LET at == Strides(plan.stride)
           IN /\ at \in Seq(0 .. plan.tokens - 1)
              /\ \A i, j \in DOMAIN at : i < j => at[j] - at[i] >= plan.stride
<1> DEFINE s == Max({plan.stride, 1})
           P == Positions(plan.stride)
           T == 0 .. plan.tokens - 1
           score == [p \in P |-> 0]
           tie == [p \in P |-> p]
           at == Sorted(P, score, tie)
           n == Cardinality(P)
<1>1. plan.stride \in Nat /\ plan.tokens \in Nat
  BY RequestIs
<1>2. s \in Nat \ {0} /\ plan.stride <= s
  <2> DEFINE S == {plan.stride, 1}
  <2>1. S \in SUBSET Nat /\ S # {}
    BY <1>1
  <2>2. IsFiniteSet(S)
    <3>1. IsFiniteSet({plan.stride}) /\ S = {plan.stride} \cup {1}
      BY FS_Singleton
    <3> QED BY <3>1, FS_AddElement
  <2>3. Max(S) \in S /\ \A y \in S : y <= Max(S)
    <3> HIDE DEF S
    <3> QED BY <2>1, <2>2, FiniteMax
  <2>4. Max(S) \in Nat /\ 1 <= Max(S) /\ plan.stride <= Max(S)
    BY <2>1, <2>3
  <2>5. Max(S) \in Nat \ {0}
    BY <2>4
  <2> QED BY <2>4, <2>5
<1> HIDE DEF s
<1>3. P = {p \in T : p % s = 0}
  BY DEF Positions, s
<1>4. T \in SUBSET Nat /\ IsFiniteSet(T)
  <2>1. 0 \in Int /\ plan.tokens - 1 \in Int
    BY <1>1
  <2> QED BY <2>1, FS_Interval
<1> HIDE DEF T, P
<1>5. P \subseteq T /\ P \in SUBSET Nat /\ IsFiniteSet(P)
  BY <1>3, <1>4, FS_Subset
<1>6. /\ \A p \in P : score[p] = 0 /\ tie[p] = p
      /\ \A p \in P : p \in Int
  BY <1>5
<1> HIDE DEF score, tie
<1>7. /\ n \in Nat /\ at \in [1 .. n -> P]
      /\ \A l, m \in 1 .. n : l < m <=> <<at[l], at[m]>> \in SortOrder(P, score, tie)
  <2>1. /\ \A x \in P : score[x] \in Int /\ tie[x] \in Int
        /\ \A x, y \in P : tie[x] = tie[y] => x = y
    BY <1>6
  <2> QED BY <1>5, <2>1, SortedIs
<1>8. Strides(plan.stride) = at
  BY DEF Strides, score, tie, P
<1> HIDE DEF at, n
<1>9. at \in Seq(P) /\ Len(at) = n /\ DOMAIN at = 1 .. n
  BY <1>7, FunctionIsList
<1>10. at \in Seq(T)
  <2>1. at \in [1 .. n -> T]
    BY <1>5, <1>7
  <2> QED BY <1>7, <2>1, FunctionIsList
<1>11. ASSUME NEW i \in DOMAIN at, NEW j \in DOMAIN at, i < j
       PROVE  at[j] - at[i] >= plan.stride
  <2>1. at[i] \in P /\ at[j] \in P
    BY <1>7, <1>9
  <2>2. <<at[i], at[j]>> \in SortOrder(P, score, tie)
    BY <1>7, <1>9, <1>11
  <2>3. \A x, y \in P : <<x, y>> \in SortOrder(P, score, tie) => x < y
    BY <1>6 DEF SortOrder
  <2>4. at[i] < at[j]
    BY <2>1, <2>2, <2>3
  <2>5. /\ at[i] \in Nat /\ at[j] \in Nat
        /\ at[i] % s = 0 /\ at[j] % s = 0
    BY <1>3, <1>5, <2>1
  <2>6. at[j] - at[i] >= s
    BY <1>2, <2>4, <2>5, Multiples
  <2> QED BY <1>1, <1>2, <2>5, <2>6
<1> QED BY <1>8, <1>10, <1>11 DEF T

\* A search at a stride of the input.
LEMMA StrideSearch ==
    ASSUME PlanOk(plan), NEW p \in 0 .. plan.tokens - 1
    PROVE  LET got == DenseElseLexical(p, plan.k)
           IN /\ got \in Seq(SChunks) /\ Range(got) \subseteq Reachable(p)
              /\ Len(got) \in Nat /\ DOMAIN got = 1 .. Len(got)
<1> DEFINE got == DenseElseLexical(p, plan.k)
<1>1. p \in TextsOf(plan) /\ plan.k \in Nat
  BY RequestIs
<1>2. Once(got, SChunks) /\ Range(got) \subseteq Reachable(p)
  BY <1>1, SearchIs
<1> HIDE DEF got
<1>3. got \in Seq(SChunks) /\ Len(got) \in Nat /\ DOMAIN got = 1 .. Len(got)
  BY <1>2, OnceIs
<1> QED BY <1>2, <1>3 DEF got

LEMMA RetroStep ==
    ASSUME StrategiesInv, Retro PROVE StrategiesInv'
<1> DEFINE at == Strides(plan.stride)
           got(p) == DenseElseLexical(p, plan.k)
           row(p) == [i \in DOMAIN got(p) |->
                         [chunk |-> got(p)[i], then |-> Continuation(got(p)[i])]]
           rows == [i \in DOMAIN at |-> row(at[i])]
<1>1. plan.kind = "retro" /\ PlanOk(plan)
  BY DEF Retro, Starts, StrategiesInv
<1>2. plan' = plan /\ sPc' = "done" /\ yield' = rows
  BY DEF Retro, Returns
<1>3. ASSUME NEW c \in SChunks, Continuation(c) # 0
      PROVE  SDoc[Continuation(c)] = SDoc[c] /\ Continuation(c) # c
  <2>1. Continuation(c) = c + 1 /\ SDoc[c + 1] = SDoc[c]
    BY <1>3 DEF Continuation
  <2>2. SChunks \in SUBSET Nat
    BY ChunksAre
  <2>3. c \in Nat
    BY <2>2
  <2> QED BY <2>1, <2>3
<1>4. ASSUME NEW i \in DOMAIN at, NEW nb \in Range(row(at[i])), nb.then # 0
      PROVE  SDoc[nb.then] = SDoc[nb.chunk] /\ nb.then # nb.chunk
  <2>1. at[i] \in 0 .. plan.tokens - 1
    <3>1. at \in Seq(0 .. plan.tokens - 1)
      BY <1>1, StridesAre
    <3> HIDE DEF at
    <3>2. DOMAIN at = 1 .. Len(at)
      BY <3>1, LenProperties
    <3> QED BY <3>1, <3>2, ElementOfSeq
  <2>2. /\ got(at[i]) \in Seq(SChunks)
        /\ DOMAIN got(at[i]) = 1 .. Len(got(at[i]))
    BY <1>1, <2>1, StrideSearch
  <2>3. PICK j \in DOMAIN got(at[i]) :
           nb = [chunk |-> got(at[i])[j], then |-> Continuation(got(at[i])[j])]
    BY DEF Range
  <2>4. got(at[i])[j] \in SChunks
    BY <2>2, <2>3, ElementOfSeq
  <2> HIDE DEF got, at
  <2>5. nb.chunk \in SChunks /\ nb.then = Continuation(nb.chunk)
    BY <2>3, <2>4
  <2> QED BY <1>3, <1>4, <2>5
<1>5. \A i \in DOMAIN rows : \A nb \in Range(rows[i]) :
         nb.then # 0 => SDoc[nb.then] = SDoc[nb.chunk] /\ nb.then # nb.chunk
  <2>1. DOMAIN rows = DOMAIN at /\ \A i \in DOMAIN at : rows[i] = row(at[i])
    OBVIOUS
  <2> HIDE DEF rows, row, at
  <2> QED BY <1>4, <2>1
<1> HIDE DEF rows
<1>6. StrategiesDegrade'
  BY <1>1, <1>2, <1>5 DEF StrategiesDegrade
<1> QED BY <1>2, <1>6, Ends

LEMMA InContextStep ==
    ASSUME StrategiesInv, InContext PROVE StrategiesInv'
<1> DEFINE got(p) == DenseElseLexical(p, plan.k)
           all == Strides(plan.stride)
           S == {i \in DOMAIN all : got(all[i]) # << >>}
           at == Selected(all, S)
           pick(p) == IF plan.pick \in DOMAIN got(p) THEN plan.pick ELSE 1
           entry(p) == [position |-> p, chunk |-> got(p)[pick(p)]]
           entries == [i \in DOMAIN at |-> entry(at[i])]
           T == 0 .. plan.tokens - 1
<1>1. plan.kind = "incontext" /\ PlanOk(plan) /\ plan.stride \in Nat /\ plan.tokens \in Nat
  BY RequestIs DEF InContext, Starts, StrategiesInv
<1>2. plan' = plan /\ sPc' = "done" /\ yield' = entries
  BY DEF InContext, Returns
<1>3. all \in Seq(T) /\ \A i, j \in DOMAIN all : i < j => all[j] - all[i] >= plan.stride
  BY <1>1, StridesAre
<1>4. S \in SUBSET DOMAIN all /\ \A i \in S : got(all[i]) # << >>
  OBVIOUS
<1>5. ASSUME NEW p \in T, got(p) # << >>
      PROVE  got(p)[pick(p)] \in Reachable(p)
  <2>1. /\ got(p) \in Seq(SChunks) /\ Range(got(p)) \subseteq Reachable(p)
        /\ Len(got(p)) \in Nat /\ DOMAIN got(p) = 1 .. Len(got(p))
    BY <1>1, StrideSearch
  <2> HIDE DEF got
  <2>2. Len(got(p)) # 0
    BY <1>5, <2>1, EmptySeq
  <2>3. pick(p) \in DOMAIN got(p)
    BY <2>1, <2>2
  <2> HIDE DEF pick
  <2>4. got(p)[pick(p)] \in Range(got(p))
    BY <2>3 DEF Range
  <2> QED BY <2>1, <2>4
<1> HIDE DEF all, S, got, pick, T
<1>6. at \in Seq(T) /\ \E p : SelectedFrom(at, all, S, p)
  BY <1>3, <1>4, SelectedIs
<1>7. PICK p : SelectedFrom(at, all, S, p)
  BY <1>6
<1> HIDE DEF at
<1>8. Len(at) \in Nat /\ DOMAIN at = 1 .. Len(at) /\ DOMAIN all = 1 .. Len(all)
  BY <1>3, <1>6, LenProperties
<1>9. /\ \A m \in 1 .. Len(at) : p[m] \in S /\ at[m] = all[p[m]]
      /\ \A m, n \in 1 .. Len(at) : m < n <=> p[m] < p[n]
  BY <1>7 DEF SelectedFrom
<1>10. ASSUME NEW i \in DOMAIN at
       PROVE  entry(at[i]).chunk \in Reachable(entry(at[i]).position)
  <2>1. at[i] \in T
    BY <1>6, <1>8, ElementOfSeq
  <2>2. got(at[i]) # << >>
    BY <1>4, <1>8, <1>9
  <2>3. entry(at[i]).chunk = got(at[i])[pick(at[i])] /\ entry(at[i]).position = at[i]
    OBVIOUS
  <2> HIDE DEF entry
  <2> QED BY <1>5, <2>1, <2>2, <2>3
<1>11. ASSUME NEW i \in DOMAIN at, NEW j \in DOMAIN at, i < j
       PROVE  at[j] - at[i] >= plan.stride
  <2>1. p[i] \in DOMAIN all /\ p[j] \in DOMAIN all /\ p[i] < p[j]
    BY <1>4, <1>8, <1>9, <1>11
  <2> QED BY <1>3, <1>8, <1>9, <2>1
<1>12. /\ DOMAIN entries = DOMAIN at
       /\ \A i \in DOMAIN at : entries[i] = entry(at[i]) /\ entries[i].position = at[i]
  OBVIOUS
<1> HIDE DEF entry, entries
<1>13. \A i, j \in DOMAIN entries :
          /\ entries[i].chunk \in Reachable(entries[i].position)
          /\ i < j => entries[j].position - entries[i].position >= plan.stride
  BY <1>10, <1>11, <1>12
<1>14. \A i, j \in DOMAIN yield' :
          /\ yield'[i].chunk \in Reachable(yield[i].position)'
          /\ i < j => yield'[j].position - yield'[i].position >= plan'.stride
  BY <1>2, <1>13 DEF Reachable, Served
<1>15. StrategiesDegrade'
  BY <1>1, <1>2, <1>14 DEF StrategiesDegrade
<1> QED BY <1>2, <1>15, Ends

-----------------------------------------------------------------------------
(* The correction.                                                         *)

\* Nothing is kept only of what the grades call irrelevant.
LEMMA KeptIs ==
    ASSUME NEW graded \in Seq(SChunks), NEW drop
    PROVE  LET fit  == {i \in DOMAIN graded : ~drop \/ Grade[graded[i]] > Lower}
               kept == Truncated(Selected(graded, fit), Strips)
           IN kept = << >> => ActionFor(Confident(graded)) = "incorrect"
<1> DEFINE fit == {i \in DOMAIN graded : ~drop \/ Grade[graded[i]] > Lower}
           chosen == Selected(graded, fit)
           kept == Truncated(chosen, Strips)
<1>1. fit \in SUBSET DOMAIN graded /\ \A i \in DOMAIN graded : Grade[graded[i]] > Lower => i \in fit
  OBVIOUS
<1> HIDE DEF fit
<1>2. chosen \in Seq(SChunks) /\ \E p : SelectedFrom(chosen, graded, fit, p)
  BY <1>1, SelectedIs
<1>3. PICK p : SelectedFrom(chosen, graded, fit, p)
  BY <1>2
<1> HIDE DEF chosen
<1>4. Strips \in Nat /\ Strips # 0 /\ Upper \in Int /\ Lower \in Nat /\ Lower < Upper
      /\ \A c \in SChunks : Grade[c] \in Int
  BY StrategiesAssumption
<1>5. kept \in Seq(SChunks) /\ Len(kept) = Lesser(Strips, Len(chosen))
  BY <1>2, <1>4, TruncatedIs
<1> HIDE DEF kept
<1>6. ASSUME kept = << >> PROVE ActionFor(Confident(graded)) = "incorrect"
  <2>1. Len(chosen) \in Nat /\ Len(kept) = 0
    BY <1>2, <1>5, <1>6, EmptySeq, LenProperties
  <2>2. Len(chosen) = 0
    BY <1>4, <1>5, <2>1 DEF Lesser
  <2>3. fit = {}
    BY <1>3, <2>2 DEF SelectedFrom
  <2>4. CASE graded = << >>
    <3>1. Confident(graded) = 0
      BY <2>4 DEF Confident
    <3> QED BY <1>4, <3>1 DEF ActionFor
  <2>5. CASE graded # << >>
    <3>1. Len(graded) \in Nat \ {0} /\ DOMAIN graded = 1 .. Len(graded)
      BY <2>5, EmptySeq, LenProperties
    <3>2. 1 \in DOMAIN graded
      BY <3>1
    <3>3. graded[1] \in SChunks
      BY <3>1, <3>2, ElementOfSeq
    <3>4. Confident(graded) = Grade[graded[1]]
      BY <2>5 DEF Confident
    <3>5. ~(Grade[graded[1]] > Lower) /\ Grade[graded[1]] \in Int
      BY <1>1, <1>4, <2>3, <3>2, <3>3
    <3> QED BY <1>4, <3>4, <3>5 DEF ActionFor
  <2> QED BY <2>4, <2>5
<1> QED BY <1>6 DEF kept, chosen, fit

LEMMA CorrectStep ==
    ASSUME StrategiesInv, Correct PROVE StrategiesInv'
<1> DEFINE hits == DenseElseLexical(0, plan.k)
<1>1. plan.kind = "crag" /\ PlanOk(plan)
  BY DEF Correct, Starts, StrategiesInv
<1>2. PICK tie \in Sorts(hits) :
         LET graded == ReorderedBy(hits, Grade, tie)
             action == ActionFor(Confident(graded))
             fit    == {i \in DOMAIN graded : ~plan.dropIrrelevant \/ Grade[graded[i]] > Lower}
             kept   == Truncated(Selected(graded, fit), Strips)
             asks   == action # "correct" /\ plan.external = "works"
         IN Returns([action |-> action, hits |-> hits, kept |-> kept, external |-> asks,
                     knowledge |-> IF asks /\ action = "incorrect" THEN << >> ELSE kept])
  BY DEF Correct
<1>3. Once(hits, SChunks)
  <2>1. 0 \in TextsOf(plan) /\ plan.k \in Nat
    BY <1>1, RequestIs
  <2> QED BY <1>1, <2>1, SearchIs
<1> HIDE DEF hits
<1> DEFINE graded == ReorderedBy(hits, Grade, tie)
           action == ActionFor(Confident(graded))
           fit == {i \in DOMAIN graded : ~plan.dropIrrelevant \/ Grade[graded[i]] > Lower}
           kept == Truncated(Selected(graded, fit), Strips)
           asks == action # "correct" /\ plan.external = "works"
           knowledge == IF asks /\ action = "incorrect" THEN << >> ELSE kept
<1>4. graded \in Seq(SChunks)
  <2>1. DOMAIN hits = 1 .. Len(hits) /\ Len(hits) \in Nat
    BY <1>3, OnceIs
  <2>2. /\ \A i \in DOMAIN hits : tie[i] \in Int
        /\ \A i, j \in DOMAIN hits : tie[i] = tie[j] => i = j
    <3>1. CASE tie = [i \in DOMAIN hits |-> i]
      BY <2>1, <3>1
    <3>2. CASE tie = [i \in DOMAIN hits |-> -i]
      BY <2>1, <3>2
    <3> QED BY <1>2, <3>1, <3>2 DEF Sorts
  <2>3. \A c \in SChunks : Grade[c] \in Int
    BY StrategiesAssumption
  <2>4. Once(graded, SChunks)
    BY <1>3, <2>2, <2>3, ReorderedIs
  <2> HIDE DEF graded
  <2> QED BY <2>4 DEF Once
<1>5. kept = << >> => action = "incorrect"
  <2> HIDE DEF graded
  <2> QED BY <1>4, KeptIs
<1>6. /\ plan' = plan /\ sPc' = "done"
      /\ yield' = [action |-> action, hits |-> hits, kept |-> kept, external |-> asks,
                   knowledge |-> knowledge]
  BY <1>2 DEF Returns
<1> HIDE DEF action, kept, graded
<1>7. yield'.action = action /\ yield'.knowledge = knowledge /\ yield'.external = asks
  <2> HIDE DEF knowledge, asks
  <2> QED BY <1>6
<1>8. /\ yield'.knowledge = << >> /\ ~yield'.external => yield'.action = "incorrect"
      /\ yield'.external => yield'.action # "correct"
  BY <1>5, <1>7
<1> HIDE DEF knowledge, asks
<1>9. StrategiesDegrade'
  BY <1>1, <1>6, <1>8 DEF StrategiesDegrade
<1> QED BY <1>6, <1>9, Ends

-----------------------------------------------------------------------------
(* The cascade.                                                            *)

LEMMA MinAdd ==
    ASSUME NEW S \in SUBSET Nat, S # {}, NEW k \in Nat
    PROVE  Min(S) \in Nat /\ Min(S \cup {k}) = Lesser(k, Min(S))
<1>1. Min(S) \in S /\ \A y \in S : Min(S) <= y
  BY LeastIs
<1>2. S \cup {k} \in SUBSET Nat /\ S \cup {k} # {}
  OBVIOUS
<1>3. Min(S \cup {k}) \in S \cup {k} /\ \A y \in S \cup {k} : Min(S \cup {k}) <= y
  BY <1>2, LeastIs
<1> DEFINE a == Min(S)
           b == Min(S \cup {k})
<1>4. a \in Nat /\ b \in Nat /\ b <= a /\ b <= k /\ (b = k \/ a <= b)
  BY <1>1, <1>3
<1> HIDE DEF a, b
<1>5. b = Lesser(k, a)
  BY <1>4 DEF Lesser
<1> QED BY <1>4, <1>5 DEF a, b

\* Another stage that worked, and the final cut, bound the width.
LEMMA WidthIs ==
    ASSUME PlanOk(plan), NEW w
    PROVE  /\ PoolWidth(w) \in Nat
           /\ PoolWidth({}) = Lesser(plan.retrieveK, Depth(0))
           /\ PoolWidth(w \cup {"late"}) = Lesser(plan.lateK, PoolWidth(w))
           /\ PoolWidth(w \cup {"cross"}) = Lesser(plan.crossK, PoolWidth(w))
           /\ CascadeWidth = Lesser(plan.k, PoolWidth(worked))
<1> DEFINE W(v) == {plan.retrieveK, Depth(0)} \cup (IF "late" \in v THEN {plan.lateK} ELSE {})
                                             \cup (IF "cross" \in v THEN {plan.crossK} ELSE {})
<1>1. /\ 0 \in TextsOf(plan) /\ plan.k \in Nat /\ plan.retrieveK \in Nat
      /\ plan.lateK \in Nat /\ plan.crossK \in Nat
  BY RequestIs
<1>2. Depth(0) \in Nat
  BY <1>1, SearchIs
<1>3. \A v : PoolWidth(v) = Min(W(v))
  BY DEF PoolWidth
<1>4. \A v : W(v) \in SUBSET Nat /\ W(v) # {}
  BY <1>1, <1>2
<1>5. /\ W({}) = {plan.retrieveK, Depth(0)}
      /\ W(w \cup {"late"}) = W(w) \cup {plan.lateK}
      /\ W(w \cup {"cross"}) = W(w) \cup {plan.crossK}
  OBVIOUS
<1>6. CascadeWidth = Min(W(worked) \cup {plan.k})
  <2>1. {plan.k, plan.retrieveK, Depth(0)} \cup (IF "late" \in worked THEN {plan.lateK} ELSE {})
          \cup (IF "cross" \in worked THEN {plan.crossK} ELSE {}) = W(worked) \cup {plan.k}
    OBVIOUS
  <2> HIDE DEF W
  <2> QED BY <2>1 DEF CascadeWidth, Depth
<1> HIDE DEF W
<1>7. Min({plan.retrieveK, Depth(0)}) = Lesser(plan.retrieveK, Depth(0))
  BY <1>1, <1>2, LesserIs
<1>8. /\ Min(W(w)) \in Nat
      /\ Min(W(w) \cup {plan.lateK}) = Lesser(plan.lateK, Min(W(w)))
      /\ Min(W(w) \cup {plan.crossK}) = Lesser(plan.crossK, Min(W(w)))
      /\ Min(W(worked) \cup {plan.k}) = Lesser(plan.k, Min(W(worked)))
  BY <1>1, <1>4, MinAdd
<1> QED BY <1>3, <1>5, <1>6, <1>7, <1>8

\* A stage that works: the best of a pool at least as wide as what is kept.
LEMMA StagePool ==
    ASSUME PlanOk(plan), NEW w, NEW pool, PoolOk(w, pool), NEW k \in Nat,
           NEW widen \in Nat \ {0}, NEW score \in [SChunks -> Int]
    PROVE  LET t == Truncated(Reordered(Truncated(pool, widen * k), score), k)
           IN /\ Once(t, SChunks) /\ Range(t) \subseteq Reachable(0)
              /\ Len(t) = Lesser(k, PoolWidth(w))
<1> DEFINE a == Truncated(pool, widen * k)
           tie == [i \in DOMAIN a |-> i]
           b == ReorderedBy(a, score, tie)
           t == Truncated(b, k)
<1>1. /\ Once(pool, SChunks) /\ Range(pool) \subseteq Reachable(0)
      /\ Len(pool) = PoolWidth(w) /\ PoolWidth(w) \in Nat
  BY WidthIs DEF PoolOk
<1>2. widen * k \in Nat /\ widen * k >= k
  <2>1. \A x \in Nat \ {0} : x * k \in Nat /\ x * k >= k
    OBVIOUS
  <2> QED BY <2>1
<1>3. /\ Once(a, SChunks) /\ Len(a) = Lesser(widen * k, Len(pool))
      /\ Range(a) \subseteq Range(pool)
  BY <1>1, <1>2, OnceTruncated
<1> HIDE DEF a
<1>4. Once(b, SChunks) /\ Len(b) = Len(a) /\ Range(b) = Range(a)
  <2>1. DOMAIN a = 1 .. Len(a) /\ Len(a) \in Nat
    BY <1>3, OnceIs
  <2>2. /\ \A i \in DOMAIN a : tie[i] \in Int
        /\ \A i, j \in DOMAIN a : tie[i] = tie[j] => i = j
    BY <2>1
  <2>3. \A c \in SChunks : score[c] \in Int
    OBVIOUS
  <2> HIDE DEF tie
  <2> QED BY <1>3, <2>2, <2>3, ReorderedIs
<1>5. Truncated(Reordered(Truncated(pool, widen * k), score), k) = t
  BY DEF Reordered, a
<1> HIDE DEF b
<1>6. Once(t, SChunks) /\ Len(t) = Lesser(k, Len(b)) /\ Range(t) \subseteq Range(b)
  BY <1>4, OnceTruncated
<1> HIDE DEF t
<1>7. Len(t) = Lesser(k, PoolWidth(w))
  BY <1>1, <1>2, <1>3, <1>4, <1>6 DEF Lesser
<1>8. Range(t) \subseteq Reachable(0)
  BY <1>1, <1>3, <1>4, <1>6
<1> QED BY <1>5, <1>6, <1>7, <1>8

\* The width of a pool depends on the request and the stages alone.
LEMMA PoolSame ==
    ASSUME plan' = plan, Once(sPool', SChunks), Range(sPool') \subseteq Reachable(0),
           NEW w, worked' = w, Len(sPool') = PoolWidth(w)
    PROVE  PoolOk(worked, sPool)'
<1>1. Depth(0)' = Depth(0)
  BY DEF Depth, Served
<1>2. PoolWidth(worked)' = PoolWidth(w)
  BY <1>1 DEF PoolWidth
<1>3. Reachable(0)' = Reachable(0)
  BY DEF Reachable, Served
<1>4. Once(sPool, SChunks)'
  BY DEF Once
<1> QED BY <1>2, <1>3, <1>4 DEF PoolOk

\* What a finished cascade claims.
LEMMA CascadeAnswer ==
    ASSUME StrategiesInv, plan.kind = "cascade", plan' = plan, worked' = worked, sPc' = "done",
           Once(yield', SChunks), Range(yield') \subseteq Reachable(0),
           Len(yield') = Lesser(plan.k, PoolWidth(worked))
    PROVE  StrategiesInv'
<1>1. CascadeWidth' = CascadeWidth
  BY DEF CascadeWidth, Served
<1>2. CascadeWidth = Lesser(plan.k, PoolWidth(worked))
  BY WidthIs DEF StrategiesInv
<1>3. Cardinality(Range(yield')) = Len(yield')
  BY OnceIs
<1>4. Reachable(0)' = Reachable(0)
  BY DEF Reachable, Served
<1>5. StrategiesDegrade'
  BY <1>1, <1>2, <1>3, <1>4 DEF StrategiesDegrade
<1> QED BY <1>5, Ends

LEMMA StageKeeps ==
    ASSUME StrategiesInv, plan.kind = "cascade", plan' = plan, yield' = << >>, sPc' \in Stages,
           PoolOk(worked, sPool)'
    PROVE  StrategiesInv'
<1>1. PlanOk(plan)'
  BY RequestSame DEF StrategiesInv
<1>2. sPc' # "start" /\ sPc' # "done" /\ sPc' # "failed"
  BY DEF Stages
<1>3. StrategiesDegrade'
  BY <1>2 DEF StrategiesDegrade
<1> QED BY <1>1, <1>2, <1>3 DEF StrategiesInv

LEMMA RetrieveStep ==
    ASSUME StrategiesInv, CascadeRetrieve PROVE StrategiesInv'
<1> DEFINE got == DenseElseLexical(0, plan.retrieveK)
<1>1. /\ PlanOk(plan) /\ plan.kind = "cascade" /\ worked = {} /\ yield = << >>
      /\ plan' = plan /\ worked' = worked /\ yield' = yield /\ sPool' = got
      /\ sPc' = IF sPool' = << >> THEN "done" ELSE "late"
  BY DEF CascadeRetrieve, Starts, StrategiesInv
<1>2. 0 \in TextsOf(plan) /\ plan.retrieveK \in Nat /\ plan.k \in Nat
  BY <1>1, RequestIs
<1>3. /\ Once(got, SChunks) /\ Range(got) \subseteq Reachable(0)
      /\ Len(got) = Lesser(plan.retrieveK, Depth(0))
  BY <1>1, <1>2, SearchIs
<1>4. PoolWidth({}) = Lesser(plan.retrieveK, Depth(0)) /\ PoolWidth({}) \in Nat
  BY <1>1, WidthIs
<1> HIDE DEF got
<1>5. CASE got # << >>
  <2>1. PoolOk(worked, sPool)'
    BY <1>1, <1>3, <1>4, PoolSame
  <2>2. sPc' \in Stages
    BY <1>1, <1>5 DEF Stages
  <2> QED BY <1>1, <2>1, <2>2, StageKeeps
<1>6. CASE got = << >>
  <2>1. Len(got) = 0
    BY <1>3, <1>6, EmptyIs
  <2>2. Len(yield') = 0 /\ Once(yield', SChunks) /\ Range(yield') \subseteq Reachable(0)
    BY <1>1, <1>3, <1>6, <2>1
  <2>3. Lesser(plan.k, PoolWidth(worked)) = 0
    BY <1>1, <1>2, <1>3, <1>4, <2>1 DEF Lesser
  <2> QED BY <1>1, <1>6, <2>2, <2>3, CascadeAnswer
<1> QED BY <1>5, <1>6

LEMMA LateStep ==
    ASSUME StrategiesInv, CascadeLate PROVE StrategiesInv'
<1>1. /\ PlanOk(plan) /\ plan.kind = "cascade" /\ PoolOk(worked, sPool) /\ yield = << >>
      /\ plan' = plan /\ yield' = yield /\ sPc' = "cross" /\ plan.lateK \in Nat
  BY RequestIs DEF CascadeLate, CascadeStage, StrategiesInv, Stages
<1>2. CASE UNCHANGED <<sPool, worked>>
  <2>1. PoolOk(worked, sPool)'
    BY <1>1, <1>2, PoolSame DEF PoolOk
  <2> QED BY <1>1, <2>1, StageKeeps DEF Stages
<1>3. CASE /\ sPool' = Truncated(Reordered(Truncated(sPool, 3 * plan.lateK), LateScore), plan.lateK)
           /\ worked' = worked \cup {"late"}
  <2>1. LateScore \in [SChunks -> Int] /\ 3 \in Nat \ {0}
    BY StrategiesAssumption
  <2>2. /\ Once(sPool', SChunks) /\ Range(sPool') \subseteq Reachable(0)
        /\ Len(sPool') = Lesser(plan.lateK, PoolWidth(worked))
    BY <1>1, <1>3, <2>1, StagePool
  <2>3. Len(sPool') = PoolWidth(worked \cup {"late"})
    BY <1>1, <2>2, WidthIs
  <2>4. PoolOk(worked, sPool)'
    BY <1>1, <1>3, <2>2, <2>3, PoolSame
  <2> QED BY <1>1, <2>4, StageKeeps DEF Stages
<1> QED BY <1>2, <1>3 DEF CascadeLate, CascadeStage

LEMMA CrossStep ==
    ASSUME StrategiesInv, CascadeCross PROVE StrategiesInv'
<1>1. /\ PlanOk(plan) /\ plan.kind = "cascade" /\ PoolOk(worked, sPool) /\ yield = << >>
      /\ plan' = plan /\ yield' = yield /\ sPc' = "final" /\ plan.crossK \in Nat
  BY RequestIs DEF CascadeCross, CascadeStage, StrategiesInv, Stages
<1>2. CASE UNCHANGED <<sPool, worked>>
  <2>1. PoolOk(worked, sPool)'
    BY <1>1, <1>2, PoolSame DEF PoolOk
  <2> QED BY <1>1, <2>1, StageKeeps DEF Stages
<1>3. CASE /\ sPool' = Truncated(Reordered(Truncated(sPool, 2 * plan.crossK), CrossScore),
                                plan.crossK)
           /\ worked' = worked \cup {"cross"}
  <2>1. CrossScore \in [SChunks -> Int] /\ 2 \in Nat \ {0}
    BY StrategiesAssumption
  <2>2. /\ Once(sPool', SChunks) /\ Range(sPool') \subseteq Reachable(0)
        /\ Len(sPool') = Lesser(plan.crossK, PoolWidth(worked))
    BY <1>1, <1>3, <2>1, StagePool
  <2>3. Len(sPool') = PoolWidth(worked \cup {"cross"})
    BY <1>1, <2>2, WidthIs
  <2>4. PoolOk(worked, sPool)'
    BY <1>1, <1>3, <2>2, <2>3, PoolSame
  <2> QED BY <1>1, <2>4, StageKeeps DEF Stages
<1> QED BY <1>2, <1>3 DEF CascadeCross, CascadeStage

LEMMA FinalStep ==
    ASSUME StrategiesInv, CascadeFinal PROVE StrategiesInv'
<1>1. /\ PlanOk(plan) /\ plan.kind = "cascade" /\ PoolOk(worked, sPool) /\ plan.k \in Nat
      /\ plan' = plan /\ worked' = worked /\ sPc' = "done" /\ yield' = Truncated(sPool, plan.k)
  BY RequestIs DEF CascadeFinal, Returns, StrategiesInv, Stages
<1>2. /\ Once(sPool, SChunks) /\ Range(sPool) \subseteq Reachable(0)
      /\ Len(sPool) = PoolWidth(worked)
  BY <1>1 DEF PoolOk
<1>3. /\ Once(yield', SChunks) /\ Len(yield') = Lesser(plan.k, Len(sPool))
      /\ Range(yield') \subseteq Range(sPool)
  BY <1>1, <1>2, OnceTruncated
<1> QED BY <1>1, <1>2, <1>3, CascadeAnswer

LEMMA StutterStep ==
    ASSUME StrategiesInv, UNCHANGED stratVars PROVE StrategiesInv'
<1>1. /\ plan' = plan /\ sPc' = sPc /\ sPool' = sPool /\ worked' = worked
      /\ yield' = yield
  BY DEF stratVars, StrategiesInv
<1>0. StrategiesDegrade
  BY DEF StrategiesInv
<1>2. CASE sPc \in {"done", "failed"}
  <2>1. /\ \A t : Reachable(t)' = Reachable(t)
        /\ \A t : Answerable(t)' <=> Answerable(t)
        /\ Served' <=> Served
        /\ CascadeWidth' = CascadeWidth
    <3>1. CascadeWidth' = CascadeWidth
      BY <1>1 DEF CascadeWidth, Served
    <3> QED BY <1>1, <3>1, RequestSame
  <2>2. ASSUME sPc = "failed"
        PROVE  StrategiesDegrade'
    <3>1. \/ plan.kind = "replug" /\ (plan.scorer = "fails" \/ ~Answerable(0))
          \/ plan.kind = "multi" /\ \A t \in 0 .. plan.generated : ~Answerable(t)
          \/ /\ plan.kind = "hyde" /\ ((Served /\ plan.embedded = {}) \/ ~Answerable(0))
             /\ \A t \in 1 .. Min({plan.generated, plan.take}) : ~Answerable(t)
      BY <1>0, <2>2 DEF StrategiesDegrade
    <3>2. \/ plan'.kind = "replug" /\ (plan'.scorer = "fails" \/ ~Answerable(0)')
          \/ plan'.kind = "multi" /\ \A t \in 0 .. plan'.generated : ~Answerable(t)'
          \/ /\ plan'.kind = "hyde"
             /\ (Served' /\ plan'.embedded = {}) \/ ~Answerable(0)'
             /\ \A t \in 1 .. Min({plan'.generated, plan'.take}) : ~Answerable(t)'
      BY <1>1, <2>1, <3>1
    <3>3. sPc' = "failed"
      BY <1>1, <2>2
    <3> QED BY <3>2, <3>3 DEF StrategiesDegrade
  <2>3. ASSUME sPc = "done" /\ plan.kind = "cascade"
        PROVE  StrategiesDegrade'
    <3>1. /\ Len(yield) = CascadeWidth /\ Cardinality(Range(yield)) = Len(yield)
          /\ Range(yield) \subseteq Reachable(0)
      BY <1>0, <2>3 DEF StrategiesDegrade
    <3>2. /\ Len(yield') = CascadeWidth' /\ Cardinality(Range(yield')) = Len(yield')
          /\ Range(yield') \subseteq Reachable(0)'
      BY <1>1, <2>1, <3>1
    <3>3. sPc' = "done" /\ plan'.kind = "cascade"
      BY <1>1, <2>3
    <3> QED BY <3>2, <3>3 DEF StrategiesDegrade
  <2>4. ASSUME sPc = "done" /\ plan.kind \in {"hyde", "multi"}
        PROVE  StrategiesDegrade'
    <3>1. /\ yield # << >> /\ Len(yield) <= plan.k
          /\ Range(yield) \subseteq UNION {Reachable(t) : t \in 0 .. plan.generated}
      BY <1>0, <2>4 DEF StrategiesDegrade
    <3>2. /\ yield' # << >> /\ Len(yield') <= plan'.k
          /\ Range(yield') \subseteq UNION {Reachable(t)' : t \in 0 .. plan'.generated}
      BY <1>1, <2>1, <3>1
    <3>3. sPc' = "done" /\ plan'.kind \in {"hyde", "multi"}
      BY <1>1, <2>4
    <3> QED BY <3>2, <3>3 DEF StrategiesDegrade
  <2>5. ASSUME sPc = "done" /\ plan.kind = "retro"
        PROVE  StrategiesDegrade'
    <3>1. \A i \in DOMAIN yield : \A nb \in Range(yield[i]) :
             nb.then # 0 => SDoc[nb.then] = SDoc[nb.chunk] /\ nb.then # nb.chunk
      BY <1>0, <2>5 DEF StrategiesDegrade
    <3>2. \A i \in DOMAIN yield' : \A nb \in Range(yield'[i]) :
             nb.then # 0 => SDoc[nb.then] = SDoc[nb.chunk] /\ nb.then # nb.chunk
      BY <1>1, <3>1
    <3>3. sPc' = "done" /\ plan'.kind = "retro"
      BY <1>1, <2>5
    <3> QED BY <3>2, <3>3 DEF StrategiesDegrade
  <2>6. ASSUME sPc = "done" /\ plan.kind = "incontext"
        PROVE  StrategiesDegrade'
    <3>1. \A i, j \in DOMAIN yield :
             /\ yield[i].chunk \in Reachable(yield[i].position)
             /\ i < j => yield[j].position - yield[i].position >= plan.stride
      BY <1>0, <2>6 DEF StrategiesDegrade
    <3>2. \A i, j \in DOMAIN yield' :
             /\ yield'[i].chunk \in Reachable(yield[i].position)'
             /\ i < j => yield'[j].position - yield'[i].position >= plan'.stride
      BY <1>1, <3>1 DEF Reachable, Served
    <3>3. sPc' = "done" /\ plan'.kind = "incontext"
      BY <1>1, <2>6
    <3> QED BY <3>2, <3>3 DEF StrategiesDegrade
  <2>7. ASSUME sPc = "done" /\ plan.kind = "crag"
        PROVE  StrategiesDegrade'
    <3>1. /\ yield.knowledge = << >> /\ ~yield.external => yield.action = "incorrect"
          /\ yield.external => yield.action # "correct"
      BY <1>0, <2>7 DEF StrategiesDegrade
    <3>2. /\ yield'.knowledge = << >> /\ ~yield'.external => yield'.action = "incorrect"
          /\ yield'.external => yield'.action # "correct"
      BY <1>1, <3>1
    <3>3. sPc' = "done" /\ plan'.kind = "crag"
      BY <1>1, <2>7
    <3> QED BY <3>2, <3>3 DEF StrategiesDegrade
  <2>8. ASSUME sPc = "done",
               plan.kind \notin {"cascade", "hyde", "multi", "retro", "incontext", "crag"}
        PROVE  StrategiesDegrade'
    <3>1. /\ sPc' = "done"
          /\ plan'.kind \notin {"cascade", "hyde", "multi", "retro", "incontext", "crag"}
      BY <1>1, <2>8
    <3> QED BY <3>1 DEF StrategiesDegrade
  <2>9. StrategiesDegrade'
    BY <1>2, <2>2, <2>3, <2>4, <2>5, <2>6, <2>7, <2>8
  <2> QED BY <1>1, <1>2, <2>9, Ends
<1>3. CASE sPc \in Stages
  <2>1. plan.kind = "cascade" /\ PoolOk(worked, sPool) /\ yield = << >>
    BY <1>3 DEF StrategiesInv
  <2>2. PoolOk(worked, sPool)'
    BY <1>1, <2>1, PoolSame DEF PoolOk
  <2> QED BY <1>1, <1>3, <2>1, <2>2, StageKeeps
<1>4. CASE sPc = "start"
  <2>1. PlanOk(plan)' /\ yield = << >> /\ worked = {}
    BY <1>1, <1>4, RequestSame DEF StrategiesInv
  <2>2. StrategiesDegrade'
    BY <1>1, <1>4 DEF StrategiesDegrade
  <2> QED BY <1>1, <1>4, <2>1, <2>2 DEF StrategiesInv, Stages
<1> QED BY <1>2, <1>3, <1>4 DEF StrategiesInv

\* StrategiesDegrade: a cascade gives as many different results as the stages
\* that worked leave, HyDE and multi-query fail only when nothing finds
\* anything, continuations belong to the document they continue, strides are
\* apart, and only a correction that says "incorrect" is without knowledge.
THEOREM FailuresDegrade ==
    ASSUME NEW inputs, \A p \in inputs : PlanOk(p)
    PROVE  StrategiesInit(inputs) /\ [][StrategiesNext]_stratVars => []StrategiesDegrade
<1>1. StrategiesInit(inputs) => StrategiesInv
  BY DEF StrategiesInit, StrategiesInv, StrategiesDegrade, Stages
<1>2. StrategiesInv /\ [StrategiesNext]_stratVars => StrategiesInv'
  <2> SUFFICES ASSUME StrategiesInv, [StrategiesNext]_stratVars PROVE StrategiesInv'
    OBVIOUS
  <2>1. CASE CascadeRetrieve
    BY <2>1, RetrieveStep
  <2>2. CASE CascadeLate
    BY <2>2, LateStep
  <2>3. CASE CascadeCross
    BY <2>3, CrossStep
  <2>4. CASE CascadeFinal
    BY <2>4, FinalStep
  <2>5. CASE HydeSearch
    BY <2>5, HydeStep
  <2>6. CASE MultiQuery
    BY <2>6, MultiStep
  <2>7. CASE Replug
    BY <2>7, ReplugStep
  <2>8. CASE Retro
    BY <2>8, RetroStep
  <2>9. CASE InContext
    BY <2>9, InContextStep
  <2>10. CASE Correct
    BY <2>10, CorrectStep
  <2>11. CASE UNCHANGED stratVars
    BY <2>11, StutterStep
  <2> QED BY <2>1, <2>2, <2>3, <2>4, <2>5, <2>6, <2>7, <2>8, <2>9, <2>10, <2>11
          DEF StrategiesNext
<1>3. StrategiesInv => StrategiesDegrade
  BY DEF StrategiesInv
<1> QED BY <1>1, <1>2, <1>3, PTL

=============================================================================
