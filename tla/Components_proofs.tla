------------------------- MODULE Components_proofs --------------------------
(***************************************************************************)
(* Proofs about Pipeline, Chunking and Extraction: what a query asks for,  *)
(* and what there is to be found.                                          *)
(*                                                                         *)
(* Pipeline, for any corpus, any request and any orders the sorts may give *)
(* to equals: a query gets what it asks for where there is as much         *)
(* (KeepsWhatWasAsked), no fusion inverts an agreement of the retrievers   *)
(* (UnanimityKept), and the refinements are sound (RefinementSound).  The  *)
(* invariant, PipelineInv, says of the three lists, candidates, as         *)
(* fetched and as last scored, that they list a chunk once, which is part  *)
(* of which, and in which order (ListsOk, RefinedOk); that what was        *)
(* fetched is enough, and that what is no longer there is folded into      *)
(* what is, or was one too many (FetchedOk).  Which of it holds depends on *)
(* the stages that are past, and those follow one another as the           *)
(* compositions say (OrderOk).  Each stage has its lemma on lists.  A sort *)
(* permutes (RankedIs), a cut and a choice are parts in order (CutPart,    *)
(* ChosenPart), folding and greedy selection are recursive functions of    *)
(* the round, so they exist and keep what every round keeps (RoundsRun,    *)
(* RoundsKeep).  The scores of the fusions respect an agreement because a  *)
(* share grows with a better place or score of its list, and sums with     *)
(* their shares (FairScores).                                              *)
(*                                                                         *)
(* Chunking, for any documents and any options: ChunkingSound.  ChunkInv   *)
(* says what is so above the line where the next chunk begins: it is       *)
(* covered (CoveredTo), it was handed on only where it may be repeated     *)
(* (HandedOn), and definitions are in a chunk or the segment with their    *)
(* comments, or a full chunk took those (TravelOk).                        *)
(*                                                                         *)
(* Extraction, for any directory in the order of a recursive walk:         *)
(* FilesAccounted.  ExtractionInv adds to it that the pruned directories   *)
(* are listed ones, and all listed ones that were met (Pruning), so that a *)
(* file is passed over unread exactly when it is under a listed directory, *)
(* and that the limit is kept (Limited).                                   *)
(***************************************************************************)
EXTENDS Pipeline, Chunking, Extraction, Orders_proofs

-----------------------------------------------------------------------------
(* The pipeline.                                                           *)

\* Candidates: a chunk is listed once.
PHit == [chunk : PChunks, score : Int]
Listing(hits) ==
    /\ hits \in Seq(PHit)
    /\ \A i, j \in DOMAIN hits : hits[i].chunk = hits[j].chunk => i = j
Descends(hits) == \A i, j \in DOMAIN hits : i <= j => hits[i].score >= hits[j].score

\* hits are members of whole, in its order.
PartOf(hits, whole) ==
    \E p \in [DOMAIN hits -> DOMAIN whole] :
       /\ \A i, j \in DOMAIN hits : i < j => p[i] < p[j]
       /\ \A i \in DOMAIN hits : hits[i] = whole[p[i]]

\* What is assumed of a request: k may be anything, and so may the corpus.
AskOk(a) ==
    /\ a.composition \in DOMAIN Compositions /\ a.k \in Nat /\ a.place \in Int
    /\ a.fusion \in {"rrf", "rsf", "convex", "adaptive"}
    /\ IsFiniteSet(a.query)
    /\ \A c \in PChunks : IsFiniteSet(a.terms[c]) /\ a.at[c] \in Int

Course == Compositions[ask.composition]
Rest(n) == [i \in 1 .. Len(Course) - n + 1 |-> Course[n + i - 1]]
FlowOk == \E n \in 1 .. Len(Course) + 1 : stages = Rest(n)

Scored == Past("feature") \/ Past("custom") \/ Past("cross")
Refined == \/ Past("mmr") \/ Past("dartboard") \/ Past("dedup") \/ Past("autocut")
           \/ Past("stitch") \/ Past("topk")
FoldedInto(r, c) == \/ Has("stitch") /\ Adjoining(r, c)
                    \/ Has("dedup") /\ NearDuplicate(ask.terms, ask.at, fetched, r, c)
Enough(hits) ==
    /\ ChunksOf(hits) \subseteq Findable
    /\ Len(hits) >= Lesser(ask.k, Cardinality(Findable))

\* The lists of the candidates, and when they are the same.
ListsOk ==
    /\ Listing(cands) /\ Listing(fetched) /\ Listing(ranked)
    /\ ChunksOf(ranked) = ChunksOf(fetched) /\ ChunksOf(cands) \subseteq ChunksOf(fetched)
    /\ ~Past("hybrid") => cands = << >> /\ fetched = << >> /\ ranked = << >>
    /\ ~Scored => ranked = fetched
    /\ ~Refined => cands = ranked
    /\ Past("feature") => Descends(ranked)

\* What was fetched is enough, and what is no longer there is folded or was
\* one too many.
FetchedOk ==
    /\ Past("filter") => \A c \in ChunksOf(fetched) : Passes(c)
    /\ Past("hybrid") /\ (\A c \in PChunks : Passes(c)) => Enough(fetched)
    /\ Len(cands) < ask.k =>
         \A c \in ChunksOf(fetched) \ ChunksOf(cands) : \E r \in ChunksOf(cands) : FoldedInto(r, c)
    /\ Past("topk") => Len(cands) <= ask.k

RefinedOk ==
    /\ ranked # << >> /\ ask.k > 0 /\ ~Past("dartboard") =>
          cands # << >> /\ Head(cands).chunk = Head(ranked).chunk
    /\ ~Past("mmr") /\ ~Past("dartboard") => PartOf(cands, ranked)
    /\ \A a, b \in ChunksOf(cands) : a # b =>
          /\ Past("stitch") => ~Adjoining(a, b)
          /\ Past("dedup") /\ DupWindow = 0 => ~NearDuplicate(ask.terms, ask.at, fetched, a, b)

PipelineInv ==
    /\ AskOk(ask) /\ IsFiniteSet(words) /\ FlowOk
    /\ ListsOk /\ FetchedOk /\ RefinedOk /\ UnanimityKept
    /\ pipePc = "done" => stages = << >>

\* The greatest and the least of finitely many integers.
LEMMA ExtremesAre ==
    ASSUME NEW S \in SUBSET Int, S # {}, IsFiniteSet(S)
    PROVE  /\ Max(S) \in S /\ \A y \in S : y <= Max(S)
           /\ Min(S) \in S /\ \A y \in S : Min(S) <= y
<1> DEFINE Holds(T) == T = {} \/ \E lo, hi \in T : \A y \in T : lo <= y /\ y <= hi
           N == {n \in Nat : \A T \in SUBSET S : Cardinality(T) = n => Holds(T)}
<1>1. 0 \in N
  <2> SUFFICES ASSUME NEW T \in SUBSET S, Cardinality(T) = 0 PROVE Holds(T)
    OBVIOUS
  <2>1. T = {}
    BY FS_Subset, FS_EmptySet
  <2> QED BY <2>1
<1>2. ASSUME NEW n \in Nat, n \in N PROVE n + 1 \in N
  <2> SUFFICES ASSUME NEW T \in SUBSET S, Cardinality(T) = n + 1 PROVE Holds(T)
    <3> HIDE DEF Holds
    <3> QED OBVIOUS
  <2>1. IsFiniteSet(T)
    BY FS_Subset
  <2>2. CASE T = {}
    BY <2>2
  <2>3. CASE T # {}
    <3>1. PICK x \in T : TRUE
      BY <2>3
    <3> DEFINE U == T \ {x}
    <3>2. U \in SUBSET S /\ Cardinality(U) = n
      <4>1. Cardinality(U) = Cardinality(T) - 1
        BY <2>1, <3>1, FS_RemoveElement
      <4> QED BY <4>1
    <3>3. Holds(U)
      <4> HIDE DEF Holds, U
      <4> QED BY <1>2, <3>2
    <3>4. x \in Int /\ T = U \cup {x} /\ U \subseteq Int
      BY <3>1
    <3> HIDE DEF U
    <3>5. CASE U = {}
      BY <3>4, <3>5
    <3>6. CASE U # {}
      <4>1. PICK lo \in U, hi \in U : \A y \in U : lo <= y /\ y <= hi
        BY <3>3, <3>6
      <4>2. lo \in Int /\ hi \in Int
        BY <3>4
      <4>3. \E l \in T : \A y \in T : l <= y
        <5>1. CASE lo <= x
          BY <3>4, <4>1, <5>1
        <5>2. CASE ~(lo <= x)
          BY <3>4, <4>1, <4>2, <5>2
        <5> QED BY <5>1, <5>2
      <4>4. \E h \in T : \A y \in T : y <= h
        <5>1. CASE x <= hi
          BY <3>4, <4>1, <5>1
        <5>2. CASE ~(x <= hi)
          BY <3>4, <4>1, <4>2, <5>2
        <5> QED BY <5>1, <5>2
      <4> QED BY <4>3, <4>4
    <3> QED BY <3>5, <3>6
  <2> QED BY <2>2, <2>3
<1>3. Nat \subseteq N
  <2> HIDE DEF N
  <2> QED BY <1>1, <1>2, Induction
<1>4. Cardinality(S) \in Nat
  BY FS_CardinalityType
<1>5. PICK lo \in S, hi \in S : \A y \in S : lo <= y /\ y <= hi
  BY <1>3, <1>4
<1>6. \A y \in S : y >= lo /\ hi >= y
  BY <1>5
<1>7. Max(S) \in S /\ \A y \in S : Max(S) >= y
  BY <1>6 DEF Max
<1>8. Min(S) \in S /\ \A y \in S : y >= Min(S)
  BY <1>5 DEF Min
<1> QED BY <1>7, <1>8

\* Of two numbers.
LEMMA PairExtremes ==
    ASSUME NEW a \in Int, NEW b \in Int
    PROVE  /\ Max({a, b}) = (IF a <= b THEN b ELSE a)
           /\ Min({a, b}) = (IF a <= b THEN a ELSE b)
<1>1. IsFiniteSet({a, b})
  <2>1. IsFiniteSet({a}) /\ {a, b} = {a} \cup {b}
    BY FS_Singleton
  <2> QED BY <2>1, FS_AddElement
<1>2. /\ Max({a, b}) \in {a, b} /\ \A y \in {a, b} : y <= Max({a, b})
      /\ Min({a, b}) \in {a, b} /\ \A y \in {a, b} : Min({a, b}) <= y
  BY <1>1, ExtremesAre
<1> QED BY <1>2

\* The numbers up to n.
LEMMA NumbersUpTo ==
    ASSUME NEW n \in Nat
    PROVE  IsFiniteSet(1 .. n) /\ Cardinality(1 .. n) = n
BY FS_Interval

\* A list of candidates: its places, chunks and scores.
LEMMA ListingIs ==
    ASSUME NEW hits, Listing(hits)
    PROVE  /\ hits \in Seq(PHit) /\ Len(hits) \in Nat /\ DOMAIN hits = 1 .. Len(hits)
           /\ \A i \in 1 .. Len(hits) :
                 /\ hits[i] = [chunk |-> hits[i].chunk, score |-> hits[i].score]
                 /\ hits[i].chunk \in PChunks /\ hits[i].score \in Int
                 /\ PlaceOf(hits, hits[i].chunk) = i /\ ScoreIn(hits, hits[i].chunk) = hits[i].score
           /\ \A i, j \in 1 .. Len(hits) : hits[i].chunk = hits[j].chunk => i = j
           /\ ChunksOf(hits) \subseteq PChunks /\ IsFiniteSet(ChunksOf(hits))
           /\ Cardinality(ChunksOf(hits)) = Len(hits)
           /\ hits = << >> <=> Len(hits) = 0
<1>1. /\ hits \in Seq(PHit) /\ Len(hits) \in Nat /\ DOMAIN hits = 1 .. Len(hits)
      /\ hits \in [1 .. Len(hits) -> PHit]
  BY LenProperties DEF Listing
<1>2. \A i, j \in 1 .. Len(hits) : hits[i].chunk = hits[j].chunk => i = j
  BY <1>1 DEF Listing
<1>3. ASSUME NEW i \in 1 .. Len(hits)
      PROVE  /\ hits[i] = [chunk |-> hits[i].chunk, score |-> hits[i].score]
             /\ hits[i].chunk \in PChunks /\ hits[i].score \in Int
             /\ PlaceOf(hits, hits[i].chunk) = i /\ ScoreIn(hits, hits[i].chunk) = hits[i].score
  <2>1. hits[i] \in PHit
    BY <1>1
  <2>2. /\ hits[i] = [chunk |-> hits[i].chunk, score |-> hits[i].score]
        /\ hits[i].chunk \in PChunks /\ hits[i].score \in Int
    BY <2>1 DEF PHit
  <2>3. PlaceOf(hits, hits[i].chunk) = i
    BY <1>1, <1>2 DEF PlaceOf
  <2> QED BY <2>2, <2>3 DEF ScoreIn
<1>4. ChunksOf(hits) \subseteq PChunks
  BY <1>1, <1>3 DEF ChunksOf
<1>5. IsFiniteSet(ChunksOf(hits)) /\ Cardinality(ChunksOf(hits)) = Len(hits)
  <2> DEFINE f == [i \in 1 .. Len(hits) |-> hits[i].chunk]
  <2>1. f \in Bijection(1 .. Len(hits), ChunksOf(hits))
    <3>1. f \in [1 .. Len(hits) -> ChunksOf(hits)]
      BY <1>1 DEF ChunksOf
    <3>2. \A y \in ChunksOf(hits) : \E i \in 1 .. Len(hits) : f[i] = y
      BY <1>1 DEF ChunksOf
    <3> QED BY <1>2, <3>1, <3>2 DEF Bijection, Injection, Surjection, IsInjective
  <2>2. ExistsBijection(1 .. Len(hits), ChunksOf(hits))
    BY <2>1 DEF ExistsBijection
  <2>3. IsFiniteSet(1 .. Len(hits)) /\ Cardinality(1 .. Len(hits)) = Len(hits)
    BY <1>1, NumbersUpTo
  <2> QED BY <2>2, <2>3, FS_Bijection
<1>6. hits = << >> <=> Len(hits) = 0
  BY <1>1, EmptySeq
<1> QED BY <1>1, <1>2, <1>3, <1>4, <1>5, <1>6

\* A ranking lists each chunk once, best first, with its score.
LEMMA RankedIs ==
    ASSUME NEW S \in SUBSET PChunks, NEW score, NEW tie,
           \A x \in S : score[x] \in Int /\ tie[x] \in Int,
           \A x, y \in S : tie[x] = tie[y] => x = y
    PROVE  /\ Listing(Ranked(S, score, tie)) /\ ChunksOf(Ranked(S, score, tie)) = S
           /\ Len(Ranked(S, score, tie)) = Cardinality(S) /\ Cardinality(S) \in Nat
           /\ Descends(Ranked(S, score, tie))
           /\ \A i \in 1 .. Cardinality(S) :
                 Ranked(S, score, tie)[i].score = score[Ranked(S, score, tie)[i].chunk]
<1> DEFINE order == Sorted(S, score, tie)
           n == Cardinality(S)
           hits == Ranked(S, score, tie)
<1>1. IsFiniteSet(S) /\ S \subseteq PChunks
  BY PipelineAssumption, FS_Subset
<1>2. /\ n \in Nat /\ order \in [1 .. n -> S]
      /\ \A x \in S : \E m \in 1 .. n : order[m] = x
      /\ \A l, m \in 1 .. n : l < m <=> <<order[l], order[m]>> \in SortOrder(S, score, tie)
  BY <1>1, SortedIs
<1>3. hits = [i \in 1 .. n |-> [chunk |-> order[i], score |-> score[order[i]]]]
  <2>1. hits = [i \in DOMAIN order |-> [chunk |-> order[i], score |-> score[order[i]]]]
    BY DEF Ranked
  <2> HIDE DEF hits, order
  <2> QED BY <1>2, <2>1
<1> HIDE DEF order, n, hits
<1>4. \A i \in 1 .. n : /\ hits[i].chunk = order[i] /\ hits[i].score = score[order[i]]
                        /\ hits[i] \in PHit /\ order[i] \in S
  BY <1>1, <1>2, <1>3 DEF PHit
<1>5. hits \in Seq(PHit) /\ Len(hits) = n /\ DOMAIN hits = 1 .. n
  <2>1. hits \in [1 .. n -> PHit]
    BY <1>3, <1>4
  <2> QED BY <1>2, <2>1, FunctionIsList
<1>6. \A q \in SortOrder(S, score, tie) : score[q[1]] >= score[q[2]] /\ q[1] # q[2]
  BY DEF SortOrder
<1>7. ASSUME NEW i \in 1 .. n, NEW j \in 1 .. n, i < j
      PROVE  hits[i].score >= hits[j].score /\ hits[i].chunk # hits[j].chunk
  <2>1. <<order[i], order[j]>> \in SortOrder(S, score, tie)
    BY <1>2, <1>7
  <2>2. score[order[i]] >= score[order[j]] /\ order[i] # order[j]
    BY <1>6, <2>1
  <2> QED BY <1>4, <2>2
<1>8. Listing(hits)
  <2>1. ASSUME NEW i \in 1 .. n, NEW j \in 1 .. n, hits[i].chunk = hits[j].chunk PROVE i = j
    <3>1. ~(i < j) /\ ~(j < i)
      BY <1>7, <2>1
    <3> QED BY <1>2, <3>1
  <2> QED BY <1>5, <2>1 DEF Listing
<1>9. Descends(hits)
  <2>1. ASSUME NEW i \in 1 .. n, NEW j \in 1 .. n, i <= j PROVE hits[i].score >= hits[j].score
    <3>1. CASE i < j
      BY <1>7, <3>1
    <3>2. CASE i = j
      BY <1>4, <3>2
    <3> QED BY <1>2, <2>1, <3>1, <3>2
  <2> QED BY <1>5, <2>1 DEF Descends
<1>10. ChunksOf(hits) = S
  <2>1. ChunksOf(hits) = {order[i] : i \in 1 .. n}
    BY <1>4, <1>5 DEF ChunksOf
  <2> QED BY <1>2, <2>1
<1> QED BY <1>2, <1>4, <1>5, <1>8, <1>9, <1>10 DEF hits, n

\* A part of a list of candidates is one.
LEMMA PartIs ==
    ASSUME NEW hits, Listing(hits), NEW t \in Seq(PHit), PartOf(t, hits)
    PROVE  /\ Listing(t) /\ ChunksOf(t) \subseteq ChunksOf(hits) /\ Len(t) <= Len(hits)
           /\ Descends(hits) => Descends(t)
           /\ \A i, j \in 1 .. Len(t) : i < j =>
                 PlaceOf(hits, t[i].chunk) < PlaceOf(hits, t[j].chunk)
<1>1. /\ Len(hits) \in Nat /\ DOMAIN hits = 1 .. Len(hits)
      /\ \A i, j \in 1 .. Len(hits) : hits[i].chunk = hits[j].chunk => i = j
      /\ \A i \in 1 .. Len(hits) : PlaceOf(hits, hits[i].chunk) = i
      /\ IsFiniteSet(ChunksOf(hits)) /\ Cardinality(ChunksOf(hits)) = Len(hits)
  BY ListingIs
<1>2. Len(t) \in Nat /\ DOMAIN t = 1 .. Len(t)
  BY LenProperties
<1>3. PICK p \in [1 .. Len(t) -> 1 .. Len(hits)] :
         /\ \A i, j \in 1 .. Len(t) : i < j => p[i] < p[j]
         /\ \A i \in 1 .. Len(t) : t[i] = hits[p[i]]
  BY <1>1, <1>2 DEF PartOf
<1>4. \A i \in 1 .. Len(t) : p[i] \in 1 .. Len(hits)
  BY <1>3
<1>5. ASSUME NEW i \in 1 .. Len(t), NEW j \in 1 .. Len(t), t[i].chunk = t[j].chunk PROVE i = j
  <2>1. p[i] = p[j]
    BY <1>1, <1>3, <1>4, <1>5
  <2>2. ~(i < j) /\ ~(j < i)
    BY <1>3, <1>4, <2>1
  <2> QED BY <1>2, <2>2
<1>6. Listing(t)
  BY <1>2, <1>5 DEF Listing
<1>7. ChunksOf(t) \subseteq ChunksOf(hits)
  BY <1>1, <1>2, <1>3, <1>4 DEF ChunksOf
<1>8. Len(t) <= Len(hits)
  <2>1. Cardinality(ChunksOf(t)) = Len(t)
    BY <1>6, ListingIs
  <2>2. Cardinality(ChunksOf(t)) <= Cardinality(ChunksOf(hits))
    BY <1>1, <1>7, FS_Subset
  <2> QED BY <1>1, <2>1, <2>2
<1>9. Descends(hits) => Descends(t)
  <2> SUFFICES ASSUME Descends(hits), NEW i \in 1 .. Len(t), NEW j \in 1 .. Len(t), i <= j
               PROVE  t[i].score >= t[j].score
    BY <1>2 DEF Descends
  <2>1. p[i] <= p[j]
    <3>1. i < j \/ i = j
      BY <1>2
    <3> QED BY <1>3, <1>4, <3>1
  <2>2. hits[p[i]].score >= hits[p[j]].score
    BY <1>1, <1>4, <2>1 DEF Descends
  <2> QED BY <1>3, <2>2
<1>10. \A i, j \in 1 .. Len(t) : i < j => PlaceOf(hits, t[i].chunk) < PlaceOf(hits, t[j].chunk)
  BY <1>1, <1>3, <1>4
<1> QED BY <1>6, <1>7, <1>8, <1>9, <1>10

\* A list is a part of itself.
LEMMA PartSelf ==
    ASSUME NEW hits, Listing(hits)
    PROVE  PartOf(hits, hits)
<1> DEFINE p == [i \in DOMAIN hits |-> i]
<1>1. /\ p \in [DOMAIN hits -> DOMAIN hits]
      /\ \A i, j \in DOMAIN hits : i < j => p[i] < p[j]
      /\ \A i \in DOMAIN hits : hits[i] = hits[p[i]]
  OBVIOUS
<1> HIDE DEF p
<1> QED BY <1>1 DEF PartOf

\* A part of a part is a part.
LEMMA PartOfPart ==
    ASSUME NEW a, NEW b, NEW c, PartOf(a, b), PartOf(b, c)
    PROVE  PartOf(a, c)
<1>1. PICK p \in [DOMAIN a -> DOMAIN b] : /\ \A i, j \in DOMAIN a : i < j => p[i] < p[j]
                                          /\ \A i \in DOMAIN a : a[i] = b[p[i]]
  BY DEF PartOf
<1>2. PICK q \in [DOMAIN b -> DOMAIN c] : /\ \A i, j \in DOMAIN b : i < j => q[i] < q[j]
                                          /\ \A i \in DOMAIN b : b[i] = c[q[i]]
  BY DEF PartOf
<1> DEFINE r == [i \in DOMAIN a |-> q[p[i]]]
<1>3. \A i \in DOMAIN a : p[i] \in DOMAIN b /\ q[p[i]] \in DOMAIN c
  BY <1>1, <1>2
<1>4. /\ r \in [DOMAIN a -> DOMAIN c]
      /\ \A i, j \in DOMAIN a : i < j => r[i] < r[j]
      /\ \A i \in DOMAIN a : a[i] = c[r[i]]
  BY <1>1, <1>2, <1>3
<1> HIDE DEF r
<1> QED BY <1>4 DEF PartOf

\* The first of a list.
LEMMA PrefixPart ==
    ASSUME NEW hits, Listing(hits), NEW n \in 0 .. Len(hits)
    PROVE  /\ SubSeq(hits, 1, n) \in Seq(PHit) /\ PartOf(SubSeq(hits, 1, n), hits)
           /\ Len(SubSeq(hits, 1, n)) = n
           /\ \A i \in 1 .. n : SubSeq(hits, 1, n)[i] = hits[i]
<1> DEFINE t == SubSeq(hits, 1, n)
<1>1. hits \in Seq(PHit) /\ Len(hits) \in Nat /\ DOMAIN hits = 1 .. Len(hits)
  BY ListingIs
<1>2. 1 \in Int /\ n \in Nat /\ n <= Len(hits) /\ \A i \in 1 .. n : hits[i] \in PHit
  BY <1>1, ElementOfSeq
<1>3. /\ t \in Seq(PHit)
      /\ Len(t) = IF 1 <= n THEN n - 1 + 1 ELSE 0
      /\ \A i \in 1 .. n - 1 + 1 : t[i] = hits[1 + i - 1]
  BY <1>2, SubSeqProperties
<1> HIDE DEF t
<1>4. Len(t) = n /\ DOMAIN t = 1 .. n /\ \A i \in 1 .. n : t[i] = hits[i]
  <2>1. Len(t) = n
    BY <1>2, <1>3
  <2>2. \A i \in 1 .. n : i \in 1 .. n - 1 + 1 /\ 1 + i - 1 = i
    BY <1>2
  <2> QED BY <1>3, <2>1, <2>2, LenProperties
<1>5. PartOf(t, hits)
  <2> DEFINE p == [i \in DOMAIN t |-> i]
  <2>1. /\ p \in [DOMAIN t -> DOMAIN hits]
        /\ \A i, j \in DOMAIN t : i < j => p[i] < p[j]
        /\ \A i \in DOMAIN t : t[i] = hits[p[i]]
    BY <1>1, <1>2, <1>4
  <2> HIDE DEF p
  <2> QED BY <2>1 DEF PartOf
<1> QED BY <1>3, <1>4, <1>5 DEF t

\* Cutting at k leaves a part, the first k or all there is.
LEMMA CutPart ==
    ASSUME NEW hits, Listing(hits), NEW k \in Nat
    PROVE  /\ Truncated(hits, k) \in Seq(PHit) /\ PartOf(Truncated(hits, k), hits)
           /\ Len(Truncated(hits, k)) = Lesser(k, Len(hits))
           /\ \A i \in 1 .. Lesser(k, Len(hits)) : Truncated(hits, k)[i] = hits[i]
           /\ Len(hits) <= k => Truncated(hits, k) = hits
<1>1. Len(hits) \in Nat /\ hits \in Seq(PHit)
  BY ListingIs
<1> DEFINE n == Lesser(k, Len(hits))
<1>2. n \in 0 .. Len(hits)
  BY <1>1 DEF Lesser
<1>3. Truncated(hits, k) = SubSeq(hits, 1, n)
  BY <1>1, LesserIs DEF Truncated
<1>4. Len(hits) <= k => n = Len(hits)
  BY <1>1 DEF Lesser
<1> HIDE DEF n
<1>5. Len(hits) <= k => SubSeq(hits, 1, n) = hits
  BY <1>1, <1>4, SubSeqFull
<1> QED BY <1>2, <1>3, <1>5, PrefixPart DEF n

\* Those at some of the places.
LEMMA ChosenPart ==
    ASSUME NEW hits, Listing(hits), NEW S \in SUBSET DOMAIN hits
    PROVE  /\ Selected(hits, S) \in Seq(PHit) /\ PartOf(Selected(hits, S), hits)
           /\ ChunksOf(Selected(hits, S)) = {hits[i].chunk : i \in S}
<1> DEFINE t == Selected(hits, S)
<1>1. hits \in Seq(PHit) /\ DOMAIN hits = 1 .. Len(hits)
  BY ListingIs
<1>2. t \in Seq(PHit) /\ \E p : SelectedFrom(t, hits, S, p)
  BY <1>1, SelectedIs
<1> HIDE DEF t
<1>3. PICK p : SelectedFrom(t, hits, S, p)
  BY <1>2
<1>4. DOMAIN t = 1 .. Len(t)
  BY <1>2, LenProperties
<1>5. /\ p \in [DOMAIN t -> S]
      /\ \A i, j \in DOMAIN t : i < j => p[i] < p[j]
      /\ \A i \in DOMAIN t : t[i] = hits[p[i]]
      /\ \A i \in S : \E m \in DOMAIN t : p[m] = i
  BY <1>3, <1>4 DEF SelectedFrom
<1>6. PartOf(t, hits)
  <2>1. p \in [DOMAIN t -> DOMAIN hits]
    BY <1>5
  <2> QED BY <1>5, <2>1 DEF PartOf
<1>7. ChunksOf(t) = {hits[i].chunk : i \in S}
  <2>1. ASSUME NEW i \in S PROVE \E m \in DOMAIN t : t[m].chunk = hits[i].chunk
    <3>1. PICK m \in DOMAIN t : p[m] = i
      BY <1>5
    <3> QED BY <1>5, <3>1
  <2>2. \A m \in DOMAIN t : p[m] \in S /\ t[m].chunk = hits[p[m]].chunk
    BY <1>5
  <2> QED BY <2>1, <2>2 DEF ChunksOf
<1> QED BY <1>2, <1>6, <1>7 DEF t

-----------------------------------------------------------------------------
(* The order of the stages.                                                *)

\* The stages of each composition.
LEMMA CourseIs ==
    /\ DOMAIN Compositions = {"standard", "quality", "context", "best", "funnel", "diverse"}
    /\ Compositions["standard"] = <<"hybrid", "filter", "feature", "topk">>
    /\ Compositions["quality"] = <<"hybrid", "filter", "feature", "mmr", "topk">>
    /\ Compositions["context"] = <<"hybrid", "filter", "feature", "stitch", "topk">>
    /\ Compositions["best"] = <<"hybrid", "filter", "feature", "dedup", "autocut", "topk">>
    /\ Compositions["funnel"] = <<"prf", "hybrid", "filter", "cross", "stitch", "topk">>
    /\ Compositions["diverse"] = <<"hybrid", "filter", "custom", "dartboard", "topk">>
BY DEF Compositions

StageNames == {"prf", "hybrid", "filter", "feature", "custom", "cross",
               "mmr", "dartboard", "dedup", "autocut", "stitch", "topk"}

\* The stages still to run are those from place n on.
StageAt(s, n) == n \in 1 .. Len(s) + 1 /\ stages = [i \in 1 .. Len(s) - n + 1 |-> s[n + i - 1]]

\* At place n of a composition, its n-th stage is next, and those before n are past.
LEMMA TurnIs ==
    ASSUME NEW s \in Seq(StageNames), NEW n, StageAt(s, n), Course = s
    PROVE  /\ Len(s) \in Nat /\ n \in Nat /\ n <= Len(s) + 1
           /\ stages # << >> <=> n <= Len(s)
           /\ n <= Len(s) => /\ Head(stages) = s[n] /\ n + 1 \in 1 .. Len(s) + 1
                             /\ Tail(stages) = [i \in 1 .. Len(s) - (n + 1) + 1 |-> s[(n + 1) + i - 1]]
           /\ \A x : Has(x) <=> \E i \in 1 .. Len(s) : s[i] = x
           /\ \A x : Past(x) <=> /\ \E i \in 1 .. Len(s) : s[i] = x
                                 /\ \A i \in 1 .. Len(s) : i >= n => s[i] # x
<1>1. Len(s) \in Nat /\ s \in [1 .. Len(s) -> StageNames] /\ DOMAIN s = 1 .. Len(s)
  BY LenProperties
<1>2. n \in Nat /\ n >= 1 /\ n <= Len(s) + 1
  BY <1>1 DEF StageAt
<1> DEFINE m == Len(s) - n + 1
<1>3. m \in Nat /\ \A i \in 1 .. m : n + i - 1 \in 1 .. Len(s)
  BY <1>1, <1>2
<1>4. stages = [i \in 1 .. m |-> s[n + i - 1]]
  BY DEF StageAt
<1>5. /\ stages \in Seq(StageNames) /\ Len(stages) = m /\ DOMAIN stages = 1 .. m
  <2>1. stages \in [1 .. m -> StageNames]
    BY <1>1, <1>3, <1>4
  <2> HIDE DEF m
  <2> QED BY <1>3, <2>1, FunctionIsList
<1>6. stages # << >> <=> n <= Len(s)
  <2>1. stages = << >> <=> m = 0
    BY <1>3, <1>5, EmptySeq
  <2> QED BY <1>1, <1>2, <2>1
<1>7. ASSUME n <= Len(s)
      PROVE  /\ Head(stages) = s[n] /\ n + 1 \in 1 .. Len(s) + 1
             /\ Tail(stages) = [i \in 1 .. Len(s) - (n + 1) + 1 |-> s[(n + 1) + i - 1]]
  <2>1. m \in Nat \ {0} /\ m - 1 = Len(s) - (n + 1) + 1
    BY <1>1, <1>2, <1>7
  <2>2. stages # << >>
    BY <1>6, <1>7
  <2>3. Head(stages) = stages[1]
    BY <1>5, <2>2
  <2>4. 1 \in 1 .. m /\ n + 1 - 1 = n
    BY <1>2, <2>1
  <2>5. stages[1] = s[n]
    BY <1>4, <2>4
  <2>6. /\ Tail(stages) \in Seq(StageNames) /\ Len(Tail(stages)) = m - 1
        /\ \A i \in 1 .. m - 1 : Tail(stages)[i] = stages[i + 1]
    BY <1>5, <2>2, HeadTailProperties
  <2>7. ASSUME NEW i \in 1 .. m - 1 PROVE stages[i + 1] = s[(n + 1) + i - 1]
    <3>1. i + 1 \in 1 .. m /\ n + (i + 1) - 1 = (n + 1) + i - 1
      BY <1>2, <1>3, <2>1
    <3> QED BY <1>4, <3>1
  <2>8. DOMAIN Tail(stages) = 1 .. m - 1 /\ Tail(stages) = [i \in 1 .. m - 1 |-> Tail(stages)[i]]
    BY <2>6, LenProperties
  <2>9. Tail(stages) = [i \in 1 .. m - 1 |-> s[(n + 1) + i - 1]]
    <3> HIDE DEF m
    <3>1. \A i \in 1 .. m - 1 : Tail(stages)[i] = s[(n + 1) + i - 1]
      BY <2>6, <2>7
    <3> QED BY <2>8, <3>1
  <2> QED BY <1>2, <1>7, <1>1, <2>1, <2>3, <2>5, <2>9
<1>8. \A x : Has(x) <=> \E i \in 1 .. Len(s) : s[i] = x
  BY <1>1 DEF Has, Course
<1>9. \A x : (\A i \in DOMAIN stages : stages[i] # x) <=> (\A i \in 1 .. Len(s) : i >= n => s[i] # x)
  <2>1. ASSUME NEW x, \A i \in DOMAIN stages : stages[i] # x, NEW i \in 1 .. Len(s), i >= n
        PROVE  s[i] # x
    <3>1. i - n + 1 \in 1 .. m /\ n + (i - n + 1) - 1 = i
      BY <1>1, <1>2, <2>1
    <3>2. stages[i - n + 1] = s[i]
      BY <1>4, <3>1
    <3> QED BY <1>5, <2>1, <3>1, <3>2
  <2>2. ASSUME NEW x, \A i \in 1 .. Len(s) : i >= n => s[i] # x, NEW i \in DOMAIN stages
        PROVE  stages[i] # x
    <3>1. n + i - 1 \in 1 .. Len(s) /\ n + i - 1 >= n /\ stages[i] = s[n + i - 1]
      BY <1>2, <1>3, <1>4, <1>5, <2>2
    <3> QED BY <2>2, <3>1
  <2> QED BY <2>1, <2>2
<1> QED BY <1>1, <1>2, <1>6, <1>7, <1>8, <1>9 DEF Past

\* What the order of the stages means for those that are past.
Next(x) == stages # << >> /\ Head(stages) = x
OrderOk ==
    /\ Past("filter") => Past("hybrid")
    /\ Scored => Past("filter")
    /\ Refined => Scored
    /\ Next("prf") => ~Past("hybrid")
    /\ Next("hybrid") => ~Past("hybrid")
    /\ Next("filter") => Past("hybrid") /\ ~Past("filter")
    /\ Next("feature") \/ Next("custom") \/ Next("cross") => Past("filter") /\ ~Scored
    /\ Next("mmr") => Past("feature") /\ ~Refined
    /\ Next("mmr") \/ Next("dartboard") => ~Has("stitch") /\ ~Has("dedup")
    /\ Next("dartboard") \/ Next("dedup") \/ Next("stitch") => Scored /\ ~Refined
    /\ Next("autocut") \/ Next("topk") => Scored
    /\ Next("dedup") \/ Next("autocut") => ~Has("mmr") /\ ~Has("dartboard") /\ ~Has("stitch")
    /\ Next("stitch") => ~Has("mmr") /\ ~Has("dartboard") /\ ~Has("dedup")
    /\ Has("filter") /\ Has("topk")
    /\ \A x : Past(x) => Has(x)

\* The order in each of the compositions.
LEMMA StandardOrder ==
    ASSUME ask.composition = "standard", NEW n, StageAt(Course, n)
    PROVE  OrderOk
<1> DEFINE s == <<"hybrid", "filter", "feature", "topk">>
<1>0. Compositions["standard"] = s
  BY CourseIs
<1>1. Course = s
  BY <1>0 DEF Course
<1>2. s[1] = "hybrid" /\ s[2] = "filter" /\ s[3] = "feature" /\ s[4] = "topk"
  OBVIOUS
<1>3. \A i : i \in 1 .. 4 <=> i \in {1, 2, 3, 4}
  OBVIOUS
<1>4. s \in Seq(StageNames) /\ Len(s) = 4
  BY DEF StageNames
<1> HIDE DEF s
<1>5. StageAt(s, n) /\ n >= 1
  <2>1. StageAt(s, n)
    BY <1>1
  <2>2. n >= 1
    BY <2>1 DEF StageAt
  <2> QED BY <2>1, <2>2
<1>6. /\ Len(s) \in Nat /\ n \in Nat /\ (stages # << >> <=> n <= Len(s))
      /\ n <= Len(s) => Head(stages) = s[n]
      /\ \A x : Has(x) <=> \E i \in 1 .. Len(s) : s[i] = x
      /\ \A x : Past(x) <=> /\ \E i \in 1 .. Len(s) : s[i] = x
                            /\ \A i \in 1 .. Len(s) : i >= n => s[i] # x
  BY <1>1, <1>4, <1>5, TurnIs
<1>7. /\ n \in Nat /\ n >= 1 /\ (stages # << >> <=> n <= 4) /\ (n <= 4 => Head(stages) = s[n])
      /\ \A x : Has(x) <=> \E i \in 1 .. 4 : s[i] = x
      /\ \A x : Past(x) <=> /\ \E i \in 1 .. 4 : s[i] = x
                            /\ \A i \in 1 .. 4 : i >= n => s[i] # x
  BY <1>4, <1>5, <1>6
<1>8. \A x : Has(x) <=> x \in {"hybrid", "filter", "feature", "topk"}
  BY <1>2, <1>3, <1>7
<1>9. \A x : Past(x) <=> \/ (x = "hybrid" /\ n > 1)
                         \/ (x = "filter" /\ n > 2)
                         \/ (x = "feature" /\ n > 3)
                         \/ (x = "topk" /\ n > 4)
  BY <1>2, <1>3, <1>7
<1>10. \A x : Next(x) <=> \/ (x = "hybrid" /\ n = 1)
                         \/ (x = "filter" /\ n = 2)
                         \/ (x = "feature" /\ n = 3)
                         \/ (x = "topk" /\ n = 4)
  BY <1>2, <1>3, <1>7 DEF Next
<1> QED BY <1>7, <1>8, <1>9, <1>10 DEF OrderOk, Scored, Refined

LEMMA QualityOrder ==
    ASSUME ask.composition = "quality", NEW n, StageAt(Course, n)
    PROVE  OrderOk
<1> DEFINE s == <<"hybrid", "filter", "feature", "mmr", "topk">>
<1>0. Compositions["quality"] = s
  BY CourseIs
<1>1. Course = s
  BY <1>0 DEF Course
<1>2. s[1] = "hybrid" /\ s[2] = "filter" /\ s[3] = "feature" /\ s[4] = "mmr" /\ s[5] = "topk"
  OBVIOUS
<1>3. \A i : i \in 1 .. 5 <=> i \in {1, 2, 3, 4, 5}
  OBVIOUS
<1>4. s \in Seq(StageNames) /\ Len(s) = 5
  BY DEF StageNames
<1> HIDE DEF s
<1>5. StageAt(s, n) /\ n >= 1
  <2>1. StageAt(s, n)
    BY <1>1
  <2>2. n >= 1
    BY <2>1 DEF StageAt
  <2> QED BY <2>1, <2>2
<1>6. /\ Len(s) \in Nat /\ n \in Nat /\ (stages # << >> <=> n <= Len(s))
      /\ n <= Len(s) => Head(stages) = s[n]
      /\ \A x : Has(x) <=> \E i \in 1 .. Len(s) : s[i] = x
      /\ \A x : Past(x) <=> /\ \E i \in 1 .. Len(s) : s[i] = x
                            /\ \A i \in 1 .. Len(s) : i >= n => s[i] # x
  BY <1>1, <1>4, <1>5, TurnIs
<1>7. /\ n \in Nat /\ n >= 1 /\ (stages # << >> <=> n <= 5) /\ (n <= 5 => Head(stages) = s[n])
      /\ \A x : Has(x) <=> \E i \in 1 .. 5 : s[i] = x
      /\ \A x : Past(x) <=> /\ \E i \in 1 .. 5 : s[i] = x
                            /\ \A i \in 1 .. 5 : i >= n => s[i] # x
  BY <1>4, <1>5, <1>6
<1>8. \A x : Has(x) <=> x \in {"hybrid", "filter", "feature", "mmr", "topk"}
  BY <1>2, <1>3, <1>7
<1>9. \A x : Past(x) <=> \/ (x = "hybrid" /\ n > 1)
                         \/ (x = "filter" /\ n > 2)
                         \/ (x = "feature" /\ n > 3)
                         \/ (x = "mmr" /\ n > 4)
                         \/ (x = "topk" /\ n > 5)
  BY <1>2, <1>3, <1>7
<1>10. \A x : Next(x) <=> \/ (x = "hybrid" /\ n = 1)
                         \/ (x = "filter" /\ n = 2)
                         \/ (x = "feature" /\ n = 3)
                         \/ (x = "mmr" /\ n = 4)
                         \/ (x = "topk" /\ n = 5)
  BY <1>2, <1>3, <1>7 DEF Next
<1> QED BY <1>7, <1>8, <1>9, <1>10 DEF OrderOk, Scored, Refined

LEMMA ContextOrder ==
    ASSUME ask.composition = "context", NEW n, StageAt(Course, n)
    PROVE  OrderOk
<1> DEFINE s == <<"hybrid", "filter", "feature", "stitch", "topk">>
<1>0. Compositions["context"] = s
  BY CourseIs
<1>1. Course = s
  BY <1>0 DEF Course
<1>2. s[1] = "hybrid" /\ s[2] = "filter" /\ s[3] = "feature" /\ s[4] = "stitch" /\ s[5] = "topk"
  OBVIOUS
<1>3. \A i : i \in 1 .. 5 <=> i \in {1, 2, 3, 4, 5}
  OBVIOUS
<1>4. s \in Seq(StageNames) /\ Len(s) = 5
  BY DEF StageNames
<1> HIDE DEF s
<1>5. StageAt(s, n) /\ n >= 1
  <2>1. StageAt(s, n)
    BY <1>1
  <2>2. n >= 1
    BY <2>1 DEF StageAt
  <2> QED BY <2>1, <2>2
<1>6. /\ Len(s) \in Nat /\ n \in Nat /\ (stages # << >> <=> n <= Len(s))
      /\ n <= Len(s) => Head(stages) = s[n]
      /\ \A x : Has(x) <=> \E i \in 1 .. Len(s) : s[i] = x
      /\ \A x : Past(x) <=> /\ \E i \in 1 .. Len(s) : s[i] = x
                            /\ \A i \in 1 .. Len(s) : i >= n => s[i] # x
  BY <1>1, <1>4, <1>5, TurnIs
<1>7. /\ n \in Nat /\ n >= 1 /\ (stages # << >> <=> n <= 5) /\ (n <= 5 => Head(stages) = s[n])
      /\ \A x : Has(x) <=> \E i \in 1 .. 5 : s[i] = x
      /\ \A x : Past(x) <=> /\ \E i \in 1 .. 5 : s[i] = x
                            /\ \A i \in 1 .. 5 : i >= n => s[i] # x
  BY <1>4, <1>5, <1>6
<1>8. \A x : Has(x) <=> x \in {"hybrid", "filter", "feature", "stitch", "topk"}
  BY <1>2, <1>3, <1>7
<1>9. \A x : Past(x) <=> \/ (x = "hybrid" /\ n > 1)
                         \/ (x = "filter" /\ n > 2)
                         \/ (x = "feature" /\ n > 3)
                         \/ (x = "stitch" /\ n > 4)
                         \/ (x = "topk" /\ n > 5)
  BY <1>2, <1>3, <1>7
<1>10. \A x : Next(x) <=> \/ (x = "hybrid" /\ n = 1)
                         \/ (x = "filter" /\ n = 2)
                         \/ (x = "feature" /\ n = 3)
                         \/ (x = "stitch" /\ n = 4)
                         \/ (x = "topk" /\ n = 5)
  BY <1>2, <1>3, <1>7 DEF Next
<1> QED BY <1>7, <1>8, <1>9, <1>10 DEF OrderOk, Scored, Refined

LEMMA BestOrder ==
    ASSUME ask.composition = "best", NEW n, StageAt(Course, n)
    PROVE  OrderOk
<1> DEFINE s == <<"hybrid", "filter", "feature", "dedup", "autocut", "topk">>
<1>0. Compositions["best"] = s
  BY CourseIs
<1>1. Course = s
  BY <1>0 DEF Course
<1>2. s[1] = "hybrid" /\ s[2] = "filter" /\ s[3] = "feature" /\ s[4] = "dedup" /\ s[5] = "autocut" /\ s[6] = "topk"
  OBVIOUS
<1>3. \A i : i \in 1 .. 6 <=> i \in {1, 2, 3, 4, 5, 6}
  OBVIOUS
<1>4. s \in Seq(StageNames) /\ Len(s) = 6
  BY DEF StageNames
<1> HIDE DEF s
<1>5. StageAt(s, n) /\ n >= 1
  <2>1. StageAt(s, n)
    BY <1>1
  <2>2. n >= 1
    BY <2>1 DEF StageAt
  <2> QED BY <2>1, <2>2
<1>6. /\ Len(s) \in Nat /\ n \in Nat /\ (stages # << >> <=> n <= Len(s))
      /\ n <= Len(s) => Head(stages) = s[n]
      /\ \A x : Has(x) <=> \E i \in 1 .. Len(s) : s[i] = x
      /\ \A x : Past(x) <=> /\ \E i \in 1 .. Len(s) : s[i] = x
                            /\ \A i \in 1 .. Len(s) : i >= n => s[i] # x
  BY <1>1, <1>4, <1>5, TurnIs
<1>7. /\ n \in Nat /\ n >= 1 /\ (stages # << >> <=> n <= 6) /\ (n <= 6 => Head(stages) = s[n])
      /\ \A x : Has(x) <=> \E i \in 1 .. 6 : s[i] = x
      /\ \A x : Past(x) <=> /\ \E i \in 1 .. 6 : s[i] = x
                            /\ \A i \in 1 .. 6 : i >= n => s[i] # x
  BY <1>4, <1>5, <1>6
<1>8. \A x : Has(x) <=> x \in {"hybrid", "filter", "feature", "dedup", "autocut", "topk"}
  BY <1>2, <1>3, <1>7
<1>9. \A x : Past(x) <=> \/ (x = "hybrid" /\ n > 1)
                         \/ (x = "filter" /\ n > 2)
                         \/ (x = "feature" /\ n > 3)
                         \/ (x = "dedup" /\ n > 4)
                         \/ (x = "autocut" /\ n > 5)
                         \/ (x = "topk" /\ n > 6)
  BY <1>2, <1>3, <1>7
<1>10. \A x : Next(x) <=> \/ (x = "hybrid" /\ n = 1)
                         \/ (x = "filter" /\ n = 2)
                         \/ (x = "feature" /\ n = 3)
                         \/ (x = "dedup" /\ n = 4)
                         \/ (x = "autocut" /\ n = 5)
                         \/ (x = "topk" /\ n = 6)
  BY <1>2, <1>3, <1>7 DEF Next
<1> QED BY <1>7, <1>8, <1>9, <1>10 DEF OrderOk, Scored, Refined

LEMMA FunnelOrder ==
    ASSUME ask.composition = "funnel", NEW n, StageAt(Course, n)
    PROVE  OrderOk
<1> DEFINE s == <<"prf", "hybrid", "filter", "cross", "stitch", "topk">>
<1>0. Compositions["funnel"] = s
  BY CourseIs
<1>1. Course = s
  BY <1>0 DEF Course
<1>2. s[1] = "prf" /\ s[2] = "hybrid" /\ s[3] = "filter" /\ s[4] = "cross" /\ s[5] = "stitch" /\ s[6] = "topk"
  OBVIOUS
<1>3. \A i : i \in 1 .. 6 <=> i \in {1, 2, 3, 4, 5, 6}
  OBVIOUS
<1>4. s \in Seq(StageNames) /\ Len(s) = 6
  BY DEF StageNames
<1> HIDE DEF s
<1>5. StageAt(s, n) /\ n >= 1
  <2>1. StageAt(s, n)
    BY <1>1
  <2>2. n >= 1
    BY <2>1 DEF StageAt
  <2> QED BY <2>1, <2>2
<1>6. /\ Len(s) \in Nat /\ n \in Nat /\ (stages # << >> <=> n <= Len(s))
      /\ n <= Len(s) => Head(stages) = s[n]
      /\ \A x : Has(x) <=> \E i \in 1 .. Len(s) : s[i] = x
      /\ \A x : Past(x) <=> /\ \E i \in 1 .. Len(s) : s[i] = x
                            /\ \A i \in 1 .. Len(s) : i >= n => s[i] # x
  BY <1>1, <1>4, <1>5, TurnIs
<1>7. /\ n \in Nat /\ n >= 1 /\ (stages # << >> <=> n <= 6) /\ (n <= 6 => Head(stages) = s[n])
      /\ \A x : Has(x) <=> \E i \in 1 .. 6 : s[i] = x
      /\ \A x : Past(x) <=> /\ \E i \in 1 .. 6 : s[i] = x
                            /\ \A i \in 1 .. 6 : i >= n => s[i] # x
  BY <1>4, <1>5, <1>6
<1>8. \A x : Has(x) <=> x \in {"prf", "hybrid", "filter", "cross", "stitch", "topk"}
  BY <1>2, <1>3, <1>7
<1>9. \A x : Past(x) <=> \/ (x = "prf" /\ n > 1)
                         \/ (x = "hybrid" /\ n > 2)
                         \/ (x = "filter" /\ n > 3)
                         \/ (x = "cross" /\ n > 4)
                         \/ (x = "stitch" /\ n > 5)
                         \/ (x = "topk" /\ n > 6)
  BY <1>2, <1>3, <1>7
<1>10. \A x : Next(x) <=> \/ (x = "prf" /\ n = 1)
                         \/ (x = "hybrid" /\ n = 2)
                         \/ (x = "filter" /\ n = 3)
                         \/ (x = "cross" /\ n = 4)
                         \/ (x = "stitch" /\ n = 5)
                         \/ (x = "topk" /\ n = 6)
  BY <1>2, <1>3, <1>7 DEF Next
<1> QED BY <1>7, <1>8, <1>9, <1>10 DEF OrderOk, Scored, Refined

LEMMA DiverseOrder ==
    ASSUME ask.composition = "diverse", NEW n, StageAt(Course, n)
    PROVE  OrderOk
<1> DEFINE s == <<"hybrid", "filter", "custom", "dartboard", "topk">>
<1>0. Compositions["diverse"] = s
  BY CourseIs
<1>1. Course = s
  BY <1>0 DEF Course
<1>2. s[1] = "hybrid" /\ s[2] = "filter" /\ s[3] = "custom" /\ s[4] = "dartboard" /\ s[5] = "topk"
  OBVIOUS
<1>3. \A i : i \in 1 .. 5 <=> i \in {1, 2, 3, 4, 5}
  OBVIOUS
<1>4. s \in Seq(StageNames) /\ Len(s) = 5
  BY DEF StageNames
<1> HIDE DEF s
<1>5. StageAt(s, n) /\ n >= 1
  <2>1. StageAt(s, n)
    BY <1>1
  <2>2. n >= 1
    BY <2>1 DEF StageAt
  <2> QED BY <2>1, <2>2
<1>6. /\ Len(s) \in Nat /\ n \in Nat /\ (stages # << >> <=> n <= Len(s))
      /\ n <= Len(s) => Head(stages) = s[n]
      /\ \A x : Has(x) <=> \E i \in 1 .. Len(s) : s[i] = x
      /\ \A x : Past(x) <=> /\ \E i \in 1 .. Len(s) : s[i] = x
                            /\ \A i \in 1 .. Len(s) : i >= n => s[i] # x
  BY <1>1, <1>4, <1>5, TurnIs
<1>7. /\ n \in Nat /\ n >= 1 /\ (stages # << >> <=> n <= 5) /\ (n <= 5 => Head(stages) = s[n])
      /\ \A x : Has(x) <=> \E i \in 1 .. 5 : s[i] = x
      /\ \A x : Past(x) <=> /\ \E i \in 1 .. 5 : s[i] = x
                            /\ \A i \in 1 .. 5 : i >= n => s[i] # x
  BY <1>4, <1>5, <1>6
<1>8. \A x : Has(x) <=> x \in {"hybrid", "filter", "custom", "dartboard", "topk"}
  BY <1>2, <1>3, <1>7
<1>9. \A x : Past(x) <=> \/ (x = "hybrid" /\ n > 1)
                         \/ (x = "filter" /\ n > 2)
                         \/ (x = "custom" /\ n > 3)
                         \/ (x = "dartboard" /\ n > 4)
                         \/ (x = "topk" /\ n > 5)
  BY <1>2, <1>3, <1>7
<1>10. \A x : Next(x) <=> \/ (x = "hybrid" /\ n = 1)
                         \/ (x = "filter" /\ n = 2)
                         \/ (x = "custom" /\ n = 3)
                         \/ (x = "dartboard" /\ n = 4)
                         \/ (x = "topk" /\ n = 5)
  BY <1>2, <1>3, <1>7 DEF Next
<1> QED BY <1>7, <1>8, <1>9, <1>10 DEF OrderOk, Scored, Refined

\* So the order holds in every one.
LEMMA StageOrder ==
    ASSUME AskOk(ask), FlowOk
    PROVE  OrderOk
<1>1. PICK n : StageAt(Course, n)
  BY DEF FlowOk, Rest, StageAt
<1>2. ask.composition \in {"standard", "quality", "context", "best", "funnel", "diverse"}
  BY CourseIs DEF AskOk
<1> QED BY <1>1, <1>2, StandardOrder, QualityOrder, ContextOrder, BestOrder, FunnelOrder, DiverseOrder

\* A composition is a list of stages.
LEMMA CourseList ==
    ASSUME AskOk(ask)
    PROVE  Course \in Seq(StageNames)
<1>1. ask.composition \in {"standard", "quality", "context", "best", "funnel", "diverse"}
  BY CourseIs DEF AskOk
<1>2. ASSUME NEW c \in {"standard", "quality", "context", "best", "funnel", "diverse"}
      PROVE  Compositions[c] \in Seq(StageNames)
  <2>1. /\ <<"hybrid", "filter", "feature", "topk">> \in Seq(StageNames)
        /\ <<"hybrid", "filter", "feature", "mmr", "topk">> \in Seq(StageNames)
        /\ <<"hybrid", "filter", "feature", "stitch", "topk">> \in Seq(StageNames)
        /\ <<"hybrid", "filter", "feature", "dedup", "autocut", "topk">> \in Seq(StageNames)
        /\ <<"prf", "hybrid", "filter", "cross", "stitch", "topk">> \in Seq(StageNames)
        /\ <<"hybrid", "filter", "custom", "dartboard", "topk">> \in Seq(StageNames)
    BY DEF StageNames
  <2> QED BY <1>2, <2>1, CourseIs
<1> QED BY <1>1, <1>2 DEF Course

\* No composition has a stage twice.
LEMMA StagesOnce ==
    ASSUME AskOk(ask), NEW i \in 1 .. Len(Course), NEW j \in 1 .. Len(Course), Course[i] = Course[j]
    PROVE  i = j
<1>1. ask.composition \in {"standard", "quality", "context", "best", "funnel", "diverse"}
  BY CourseIs DEF AskOk
<1> DEFINE Plain(s) == \A m, n \in 1 .. Len(s) : s[m] = s[n] => m = n
<1>2. Plain(<<"hybrid", "filter", "feature", "topk">>)
  OBVIOUS
<1>3. Plain(<<"hybrid", "filter", "feature", "mmr", "topk">>)
  OBVIOUS
<1>4. Plain(<<"hybrid", "filter", "feature", "stitch", "topk">>)
  OBVIOUS
<1>5. Plain(<<"hybrid", "filter", "feature", "dedup", "autocut", "topk">>)
  OBVIOUS
<1>6. Plain(<<"prf", "hybrid", "filter", "cross", "stitch", "topk">>)
  OBVIOUS
<1>7. Plain(<<"hybrid", "filter", "custom", "dartboard", "topk">>)
  OBVIOUS
<1>9. Plain(Course)
  <2> HIDE DEF Plain
  <2> QED BY <1>1, <1>2, <1>3, <1>4, <1>5, <1>6, <1>7, CourseIs DEF Course
<1> QED BY <1>9

\* A stage is left once, and nothing else is.
LEMMA StageLeft ==
    ASSUME AskOk(ask), FlowOk, ask' = ask, NEW name, Leaves(name)
    PROVE  /\ FlowOk' /\ Next(name) /\ Has(name) /\ ~Past(name)
           /\ \A x : Has(x)' <=> Has(x)
           /\ \A x : Past(x)' <=> Past(x) \/ x = name
<1>1. Course \in Seq(StageNames) /\ Course' = Course
  BY CourseList DEF Course
<1>2. PICK n : StageAt(Course, n)
  BY DEF FlowOk, Rest, StageAt
<1> DEFINE s == Course
<1>3. /\ stages # << >> /\ Head(stages) = name /\ stages' = Tail(stages) /\ Next(name)
  BY DEF Leaves, AtStage, Next
<1> HIDE DEF s
<1>4. s \in Seq(StageNames) /\ Course = s /\ StageAt(s, n) /\ s' = s
  BY <1>1, <1>2 DEF s
<1>5. /\ Len(s) \in Nat /\ n \in Nat /\ n <= Len(s)
      /\ name = s[n] /\ n + 1 \in 1 .. Len(s) + 1 /\ n >= 1
      /\ stages' = [i \in 1 .. Len(s) - (n + 1) + 1 |-> s[(n + 1) + i - 1]]
      /\ \A x : Has(x) <=> \E i \in 1 .. Len(s) : s[i] = x
      /\ \A x : Past(x) <=> /\ \E i \in 1 .. Len(s) : s[i] = x
                            /\ \A i \in 1 .. Len(s) : i >= n => s[i] # x
  <2>1. n >= 1
    BY <1>2 DEF StageAt
  <2>2. /\ Len(s) \in Nat /\ n \in Nat /\ n <= Len(s)
        /\ Head(stages) = s[n] /\ n + 1 \in 1 .. Len(s) + 1
        /\ Tail(stages) = [i \in 1 .. Len(s) - (n + 1) + 1 |-> s[(n + 1) + i - 1]]
    BY <1>3, <1>4, TurnIs
  <2>3. /\ \A x : Has(x) <=> \E i \in 1 .. Len(s) : s[i] = x
        /\ \A x : Past(x) <=> /\ \E i \in 1 .. Len(s) : s[i] = x
                              /\ \A i \in 1 .. Len(s) : i >= n => s[i] # x
    BY <1>4, TurnIs
  <2> QED BY <1>3, <2>1, <2>2, <2>3
<1>6. FlowOk'
  <2>1. stages' = Rest(n + 1)'
    BY <1>1, <1>4, <1>5 DEF Rest
  <2>2. n + 1 \in 1 .. Len(Course') + 1
    BY <1>1, <1>4, <1>5
  <2> QED BY <2>1, <2>2 DEF FlowOk
<1>7. \A x : Has(x)' <=> Has(x)
  BY DEF Has
<1>8. \A i, j \in 1 .. Len(s) : s[i] = s[j] => i = j
  BY <1>4, StagesOnce
<1>9. \A x : Past(x)' <=> /\ Has(x)
                          /\ \A i \in 1 .. Len(s) : i >= n + 1 => s[i] # x
  <2>1. DOMAIN stages' = 1 .. Len(s) - (n + 1) + 1
    BY <1>5
  <2>2. ASSUME NEW x, \A i \in DOMAIN stages' : stages'[i] # x, NEW i \in 1 .. Len(s), i >= n + 1
        PROVE  s[i] # x
    <3>1. i - n \in 1 .. Len(s) - (n + 1) + 1 /\ (n + 1) + (i - n) - 1 = i
      BY <1>5, <2>2
    <3>2. stages'[i - n] = s[i]
      BY <1>5, <3>1
    <3> QED BY <2>1, <2>2, <3>1, <3>2
  <2>3. ASSUME NEW x, \A i \in 1 .. Len(s) : i >= n + 1 => s[i] # x, NEW i \in DOMAIN stages'
        PROVE  stages'[i] # x
    <3>1. (n + 1) + i - 1 \in 1 .. Len(s) /\ (n + 1) + i - 1 >= n + 1
      BY <1>5, <2>1, <2>3
    <3>2. stages'[i] = s[(n + 1) + i - 1]
      BY <1>5, <2>1, <2>3
    <3> QED BY <2>3, <3>1, <3>2
  <2>4. \A x : Past(x)' <=> Has(x) /\ \A i \in DOMAIN stages' : stages'[i] # x
    BY <1>7 DEF Past
  <2> QED BY <2>2, <2>3, <2>4
<1>10. Has(name) /\ ~Past(name)
  BY <1>5
<1>11. \A x : Past(x)' <=> Past(x) \/ x = name
  <2>1. ASSUME NEW x PROVE Past(x)' <=> Past(x) \/ x = name
    <3>1. CASE x = name
      <4>1. \A i \in 1 .. Len(s) : i >= n + 1 => s[i] # name
        BY <1>5, <1>8
      <4> QED BY <1>9, <1>10, <3>1, <4>1
    <3>2. CASE x # name
      <4>1. \A i \in 1 .. Len(s) : i >= n => i = n \/ i >= n + 1
        BY <1>5
      <4> QED BY <1>5, <1>9, <3>2, <4>1
    <3> QED BY <3>1, <3>2
  <2> QED BY <2>1
<1> QED BY <1>3, <1>6, <1>7, <1>10, <1>11

-----------------------------------------------------------------------------
(* Scores and sorts.                                                       *)

\* The place of a chunk of a list.
LEMMA PlaceIs ==
    ASSUME NEW hits, Listing(hits), NEW c \in ChunksOf(hits)
    PROVE  /\ PlaceOf(hits, c) \in 1 .. Len(hits) /\ hits[PlaceOf(hits, c)].chunk = c
           /\ ScoreIn(hits, c) = hits[PlaceOf(hits, c)].score /\ ScoreIn(hits, c) \in Int
           /\ c \in PChunks
<1>1. /\ DOMAIN hits = 1 .. Len(hits)
      /\ \A i \in 1 .. Len(hits) : /\ hits[i].chunk \in PChunks /\ hits[i].score \in Int
                                   /\ PlaceOf(hits, hits[i].chunk) = i
  BY ListingIs
<1>2. PICK i \in 1 .. Len(hits) : hits[i].chunk = c
  BY <1>1 DEF ChunksOf
<1> QED BY <1>1, <1>2 DEF ScoreIn

\* The extremes of the scores, and what is measured between them.
LEMMA ScoresAre ==
    ASSUME NEW hits, Listing(hits), Len(hits) > 0
    PROVE  /\ Max(ScoresOf(hits)) \in Int /\ Lowest(hits) \in Int
           /\ \A i \in 1 .. Len(hits) : Lowest(hits) <= hits[i].score /\ hits[i].score <= Max(ScoresOf(hits))
           /\ \E i \in 1 .. Len(hits) : hits[i].score = Max(ScoresOf(hits))
           /\ Spread(hits) \in Nat /\ Spread(hits) > 0
           /\ \A i \in 1 .. Len(hits) : Norm(hits, i) \in Nat /\ Relevance(hits, i) \in Nat
<1> DEFINE S == ScoresOf(hits)
<1>1. /\ Len(hits) \in Nat /\ DOMAIN hits = 1 .. Len(hits)
      /\ \A i \in 1 .. Len(hits) : hits[i].score \in Int
  BY ListingIs
<1>2. S \in SUBSET Int /\ \A i \in 1 .. Len(hits) : hits[i].score \in S
  BY <1>1 DEF ScoresOf
<1>3. S # {}
  BY <1>1, <1>2
<1>4. IsFiniteSet(S)
  <2> DEFINE f == [i \in 1 .. Len(hits) |-> hits[i].score]
  <2>1. IsFiniteSet(DOMAIN f)
    BY <1>1, NumbersUpTo
  <2>2. S = {f[i] : i \in DOMAIN f}
    BY <1>1 DEF ScoresOf
  <2> HIDE DEF f
  <2> QED BY <2>1, <2>2, ImageFinite
<1>5. \E i \in 1 .. Len(hits) : hits[i].score = Max(S)
  <2>1. Max(S) \in S
    BY <1>2, <1>3, <1>4, ExtremesAre
  <2> QED BY <1>1, <2>1 DEF ScoresOf
<1> HIDE DEF S
<1>6. /\ Max(S) \in Int /\ Min(S) \in Int
      /\ \A i \in 1 .. Len(hits) : Min(S) <= hits[i].score /\ hits[i].score <= Max(S)
  BY <1>2, <1>3, <1>4, ExtremesAre
<1>7. Lowest(hits) = Min(S)
  BY DEF Lowest, S
<1>8. Spread(hits) = (IF Max(S) - Min(S) > 0 THEN Max(S) - Min(S) ELSE 1)
  BY <1>7 DEF Spread, S
<1>9. \A i : Norm(hits, i) = (IF Max(S) = Min(S) THEN 1 ELSE hits[i].score - Min(S))
  BY <1>7 DEF Norm, S
<1>10. \A i : Relevance(hits, i) = (IF Max(S) = Min(S) THEN 0 ELSE hits[i].score - Min(S))
  BY <1>7 DEF Relevance, S
<1>11. \A i \in 1 .. Len(hits) : Norm(hits, i) \in Nat /\ Relevance(hits, i) \in Nat
  <2> SUFFICES ASSUME NEW i \in 1 .. Len(hits) PROVE Norm(hits, i) \in Nat /\ Relevance(hits, i) \in Nat
    OBVIOUS
  <2>1. /\ Norm(hits, i) = (IF Max(S) = Min(S) THEN 1 ELSE hits[i].score - Min(S))
        /\ Relevance(hits, i) = (IF Max(S) = Min(S) THEN 0 ELSE hits[i].score - Min(S))
    BY <1>9, <1>10
  <2>2. hits[i].score \in Int /\ Min(S) \in Int /\ Min(S) <= hits[i].score
    BY <1>1, <1>6
  <2> QED BY <2>1, <2>2
<1>12. Spread(hits) \in Nat /\ Spread(hits) > 0
  BY <1>6, <1>8
<1>13. /\ Max(S) \in Int /\ Lowest(hits) \in Int
       /\ \A i \in 1 .. Len(hits) : Lowest(hits) <= hits[i].score /\ hits[i].score <= Max(S)
  BY <1>6, <1>7
<1> QED BY <1>5, <1>11, <1>12, <1>13 DEF S

\* Resorted lists the same chunks, best first.
LEMMA ResortedIs ==
    ASSUME NEW hits, Listing(hits), NEW score, \A i \in 1 .. Len(hits) : score[i] \in Int,
           NEW tie \in TieOrders
    PROVE  /\ Listing(Resorted(hits, score, tie)) /\ Descends(Resorted(hits, score, tie))
           /\ ChunksOf(Resorted(hits, score, tie)) = ChunksOf(hits)
<1> DEFINE byChunk == [c \in ChunksOf(hits) |-> score[PlaceOf(hits, c)]]
<1>1. ChunksOf(hits) \in SUBSET PChunks
  BY ListingIs
<1>2. \A x \in ChunksOf(hits) : byChunk[x] \in Int /\ tie[x] \in Int
  BY <1>1, PlaceIs, PipelineAssumption
<1>3. \A x, y \in ChunksOf(hits) : tie[x] = tie[y] => x = y
  BY <1>1, PipelineAssumption
<1>4. Resorted(hits, score, tie) = Ranked(ChunksOf(hits), byChunk, tie)
  BY DEF Resorted
<1> DEFINE S == ChunksOf(hits)
<1> HIDE DEF byChunk, S
<1>5. S \in SUBSET PChunks /\ \A x \in S : byChunk[x] \in Int /\ tie[x] \in Int
  BY <1>1, <1>2 DEF S
<1>6. \A x, y \in S : tie[x] = tie[y] => x = y
  BY <1>3 DEF S
<1>7. Listing(Ranked(S, byChunk, tie)) /\ Descends(Ranked(S, byChunk, tie)) /\ ChunksOf(Ranked(S, byChunk, tie)) = S
  BY <1>5, <1>6, RankedIs
<1> QED BY <1>4, <1>7 DEF S

\* The feature reranker permutes, best first.
LEMMA FeatureRerankedIs ==
    ASSUME NEW hits, Listing(hits), NEW query, IsFiniteSet(query), NEW terms, NEW tie \in TieOrders
    PROVE  /\ Listing(FeatureReranked(hits, query, terms, tie))
           /\ Descends(FeatureReranked(hits, query, terms, tie))
           /\ ChunksOf(FeatureReranked(hits, query, terms, tie)) = ChunksOf(hits)
<1>1. /\ Len(hits) \in Nat /\ DOMAIN hits = 1 .. Len(hits) /\ (hits = << >> <=> Len(hits) = 0)
      /\ \A i \in 1 .. Len(hits) : hits[i].score \in Int
  BY ListingIs
<1>2. CASE hits = << >>
  <2>1. FeatureReranked(hits, query, terms, tie) = hits
    BY <1>2 DEF FeatureReranked
  <2>2. Descends(hits)
    BY <1>1, <1>2 DEF Descends
  <2> QED BY <2>1, <2>2
<1>3. CASE hits # << >>
  <2> DEFINE q == Cardinality(query)
             common(i) == Cardinality(terms[hits[i].chunk] \cap query)
             score == [i \in 1 .. Len(hits) |-> 9 * Norm(hits, i) * q + common(i) * Spread(hits)]
             plain == [i \in 1 .. Len(hits) |-> hits[i].score]
  <2>1. Len(hits) > 0
    BY <1>1, <1>3
  <2>2. q \in Nat /\ \A i \in 1 .. Len(hits) : common(i) \in Nat
    <3>1. ASSUME NEW i \in 1 .. Len(hits) PROVE common(i) \in Nat
      <4>1. IsFiniteSet(terms[hits[i].chunk] \cap query)
        BY FS_Subset
      <4> QED BY <4>1, FS_CardinalityType
    <3> QED BY <3>1, FS_CardinalityType
  <2>3. \A i \in 1 .. Len(hits) : score[i] \in Int
    <3>1. Spread(hits) \in Nat /\ \A i \in 1 .. Len(hits) : Norm(hits, i) \in Nat
      BY <2>1, ScoresAre
    <3>2. \A a, b, c, d \in Nat : 9 * a * b + c * d \in Int
      OBVIOUS
    <3> HIDE DEF q, common
    <3> QED BY <2>2, <3>1, <3>2
  <2>4. \A i \in 1 .. Len(hits) : plain[i] \in Int
    BY <1>1
  <2>5. \/ FeatureReranked(hits, query, terms, tie) = Resorted(hits, score, tie)
        \/ FeatureReranked(hits, query, terms, tie) = Resorted(hits, plain, tie)
    BY <1>1, <1>3 DEF FeatureReranked
  <2> HIDE DEF score, plain
  <2> QED BY <2>3, <2>4, <2>5, ResortedIs
<1> QED BY <1>2, <1>3

\* A list with the chunks of another in other places lists them once.
LEMMA Permuted ==
    ASSUME NEW hits, Listing(hits), NEW t \in [1 .. Len(hits) -> PHit],
           NEW q \in [1 .. Len(hits) -> 1 .. Len(hits)],
           \A i, j \in 1 .. Len(hits) : q[i] = q[j] => i = j,
           \A j \in 1 .. Len(hits) : \E i \in 1 .. Len(hits) : q[i] = j,
           \A i \in 1 .. Len(hits) : t[i].chunk = hits[q[i]].chunk
    PROVE  Listing(t) /\ ChunksOf(t) = ChunksOf(hits) /\ Len(t) = Len(hits)
<1>1. /\ Len(hits) \in Nat /\ DOMAIN hits = 1 .. Len(hits)
      /\ \A i, j \in 1 .. Len(hits) : hits[i].chunk = hits[j].chunk => i = j
  BY ListingIs
<1>2. t \in Seq(PHit) /\ Len(t) = Len(hits) /\ DOMAIN t = 1 .. Len(hits)
  BY <1>1, FunctionIsList
<1>3. \A i \in 1 .. Len(hits) : q[i] \in 1 .. Len(hits)
  OBVIOUS
<1>4. \A i, j \in DOMAIN t : t[i].chunk = t[j].chunk => i = j
  <2> SUFFICES ASSUME NEW i \in 1 .. Len(hits), NEW j \in 1 .. Len(hits), t[i].chunk = t[j].chunk
               PROVE  i = j
    BY <1>2
  <2>1. hits[q[i]].chunk = hits[q[j]].chunk
    OBVIOUS
  <2>2. q[i] = q[j]
    BY <1>1, <1>3, <2>1
  <2> QED BY <2>2
<1>5. ChunksOf(t) = ChunksOf(hits)
  <2>1. ASSUME NEW c \in ChunksOf(t) PROVE c \in ChunksOf(hits)
    <3>1. PICK i \in 1 .. Len(hits) : c = t[i].chunk
      BY <1>2 DEF ChunksOf
    <3>2. c = hits[q[i]].chunk /\ q[i] \in DOMAIN hits
      BY <1>1, <1>3, <3>1
    <3> QED BY <3>2 DEF ChunksOf
  <2>2. ASSUME NEW c \in ChunksOf(hits) PROVE c \in ChunksOf(t)
    <3>1. PICK j \in 1 .. Len(hits) : c = hits[j].chunk
      BY <1>1 DEF ChunksOf
    <3>2. PICK i \in 1 .. Len(hits) : q[i] = j
      OBVIOUS
    <3>3. c = t[i].chunk /\ i \in DOMAIN t
      BY <1>2, <3>1, <3>2
    <3> QED BY <3>3 DEF ChunksOf
  <2> QED BY <2>1, <2>2
<1> QED BY <1>2, <1>4, <1>5 DEF Listing

\* Sorting a block at the front permutes.
LEMMA BlockSortedIs ==
    ASSUME NEW hits, Listing(hits), NEW n \in 0 .. Len(hits), NEW score,
           \A i \in 1 .. n : score[i] \in Int
    PROVE  Listing(BlockSorted(hits, n, score)) /\ ChunksOf(BlockSorted(hits, n, score)) = ChunksOf(hits)
<1> DEFINE tie == [i \in 1 .. n |-> i]
           order == Sorted(1 .. n, score, tie)
           L == Len(hits)
<1>1. /\ L \in Nat /\ DOMAIN hits = 1 .. L /\ n \in Nat /\ n <= L
      /\ \A i \in 1 .. L : hits[i] \in PHit /\ hits[i].chunk \in PChunks
  <2>1. L \in Nat /\ DOMAIN hits = 1 .. L /\ hits \in Seq(PHit) /\ \A i \in 1 .. L : hits[i].chunk \in PChunks
    BY ListingIs
  <2>2. \A i \in 1 .. L : hits[i] \in PHit
    BY <2>1, ElementOfSeq
  <2> QED BY <2>1, <2>2
<1>2. /\ order \in [1 .. n -> 1 .. n]
      /\ \A x \in 1 .. n : \E m \in 1 .. n : order[m] = x
      /\ \A i, j \in 1 .. n : i < j => <<order[i], order[j]>> \in SortOrder(1 .. n, score, tie)
  <2>1. IsFiniteSet(1 .. n) /\ Cardinality(1 .. n) = n
    BY <1>1, NumbersUpTo
  <2>2. \A x \in 1 .. n : score[x] \in Int /\ tie[x] \in Int
    OBVIOUS
  <2>3. \A x, y \in 1 .. n : tie[x] = tie[y] => x = y
    OBVIOUS
  <2> DEFINE B == 1 .. n
  <2> HIDE DEF tie, B
  <2>4. IsFiniteSet(B) /\ Cardinality(B) = n
    BY <2>1 DEF B
  <2>5. IsFiniteSet(B) /\ \A x \in B : score[x] \in Int /\ tie[x] \in Int
    BY <2>2, <2>4 DEF B
  <2>7. \A x, y \in B : tie[x] = tie[y] => x = y
    BY <2>3 DEF B
  <2>6. /\ Cardinality(B) \in Nat
        /\ Sorted(B, score, tie) \in [1 .. Cardinality(B) -> B]
        /\ \A x \in B : \E m \in 1 .. Cardinality(B) : Sorted(B, score, tie)[m] = x
        /\ \A i, j \in 1 .. Cardinality(B) :
              i < j <=> <<Sorted(B, score, tie)[i], Sorted(B, score, tie)[j]>> \in SortOrder(B, score, tie)
    BY <2>5, <2>7, SortedIs
  <2> QED BY <2>4, <2>6 DEF B
<1>3. \A i, j \in 1 .. n : order[i] = order[j] => i = j
  <2>1. \A p \in SortOrder(1 .. n, score, tie) : p[1] # p[2]
    <3>1. \A x \in 1 .. n : score[x] \in Int /\ tie[x] \in Int
      OBVIOUS
    <3> HIDE DEF tie
    <3> QED BY <3>1 DEF SortOrder
  <2> HIDE DEF order, tie
  <2>2. \A i, j \in 1 .. n : i < j => order[i] # order[j]
    BY <1>2, <2>1
  <2> QED BY <1>1, <2>2
<1> DEFINE q == [i \in 1 .. L |-> IF i > n THEN i ELSE order[i]]
           t == [i \in 1 .. L |-> IF i > n THEN hits[i]
                                  ELSE [chunk |-> hits[order[i]].chunk, score |-> score[order[i]]]]
<1>4. BlockSorted(hits, n, score) = t
  BY <1>1 DEF BlockSorted
<1> HIDE DEF order, tie
<1>5. \A i \in 1 .. n : order[i] \in 1 .. n /\ order[i] \in 1 .. L
  BY <1>1, <1>2
<1>6. /\ q \in [1 .. L -> 1 .. L]
      /\ \A i, j \in 1 .. L : q[i] = q[j] => i = j
  BY <1>1, <1>3, <1>5
<1>7. \A j \in 1 .. L : \E i \in 1 .. L : q[i] = j
  <2> SUFFICES ASSUME NEW j \in 1 .. L PROVE \E i \in 1 .. L : q[i] = j
    OBVIOUS
  <2>1. CASE j > n
    BY <2>1
  <2>2. CASE j <= n
    <3>1. PICK i \in 1 .. n : order[i] = j
      BY <1>1, <1>2, <2>2
    <3>2. i \in 1 .. L /\ ~(i > n)
      BY <1>1
    <3> QED BY <3>1, <3>2
  <2> QED BY <1>1, <2>1, <2>2
<1>8. t \in [1 .. L -> PHit]
  <2>1. \A i \in 1 .. n : [chunk |-> hits[order[i]].chunk, score |-> score[order[i]]] \in PHit
    BY <1>1, <1>5 DEF PHit
  <2>2. \A i \in 1 .. L : i > n \/ i \in 1 .. n
    BY <1>1
  <2> QED BY <1>1, <2>1, <2>2
<1>9. \A i \in 1 .. L : t[i].chunk = hits[q[i]].chunk
  BY <1>1
<1> HIDE DEF q, t
<1>10. Listing(t) /\ ChunksOf(t) = ChunksOf(hits)
  BY <1>6, <1>7, <1>8, <1>9, Permuted
<1> QED BY <1>4, <1>10

\* So does the cross-encoder.
LEMMA CrossRerankedIs ==
    ASSUME NEW hits, Listing(hits), NEW n \in 0 .. Len(hits)
    PROVE  /\ Listing(CrossReranked(hits, n, JudgedBy))
           /\ ChunksOf(CrossReranked(hits, n, JudgedBy)) = ChunksOf(hits)
<1> DEFINE block == SubSeq(hits, 1, n)
           model == [i \in 1 .. n |-> [chunk |-> hits[i].chunk, score |-> JudgedBy[hits[i].chunk]]]
           score == [i \in 1 .. n |-> BlendTenths * Norm(model, i) * Spread(block)
                                        + (10 - BlendTenths) * Norm(block, i) * Spread(model)]
<1>1. /\ Len(hits) \in Nat /\ n \in Nat /\ n <= Len(hits)
      /\ \A i \in 1 .. Len(hits) : hits[i].chunk \in PChunks
      /\ \A i, j \in 1 .. Len(hits) : hits[i].chunk = hits[j].chunk => i = j
  <2>1. Len(hits) \in Nat
    BY ListingIs
  <2>2. n \in Nat /\ n <= Len(hits)
    BY <2>1
  <2> QED BY <2>1, <2>2, ListingIs
<1>2. block \in Seq(PHit) /\ PartOf(block, hits) /\ Len(block) = n
  BY PrefixPart
<1>3. Listing(block)
  <2> HIDE DEF block
  <2> QED BY <1>2, PartIs
<1>4. Listing(model) /\ Len(model) = n
  <2>1. \A i \in 1 .. n : i \in 1 .. Len(hits)
    BY <1>1
  <2>2. model \in [1 .. n -> PHit]
    BY <1>1, <2>1, PipelineAssumption DEF PHit
  <2>3. \A i \in 1 .. n : model[i].chunk = hits[i].chunk
    OBVIOUS
  <2> HIDE DEF model
  <2>4. model \in Seq(PHit) /\ Len(model) = n /\ DOMAIN model = 1 .. n
    BY <1>1, <2>2, FunctionIsList
  <2> QED BY <1>1, <2>1, <2>3, <2>4 DEF Listing
<1>5. \A i \in 1 .. n : score[i] \in Int
  <2> SUFFICES ASSUME NEW i \in 1 .. n PROVE score[i] \in Int
    OBVIOUS
  <2> DEFINE a == Norm(model, i)
             b == Spread(block)
             c == Norm(block, i)
             d == Spread(model)
  <2>1. n > 0
    BY <1>1
  <2> HIDE DEF model, block
  <2>2. a \in Nat /\ b \in Nat /\ c \in Nat /\ d \in Nat
    BY <1>2, <1>3, <1>4, <2>1, ScoresAre
  <2>3. score[i] = BlendTenths * a * b + (10 - BlendTenths) * c * d
    OBVIOUS
  <2> HIDE DEF a, b, c, d, score
  <2>4. BlendTenths \in Int /\ 10 - BlendTenths \in Int
    BY RerankersAssumption
  <2>5. BlendTenths * a * b \in Int /\ (10 - BlendTenths) * c * d \in Int
    <3>1. \A x \in Int : \A y, z \in Nat : x * y * z \in Int
      OBVIOUS
    <3> QED BY <2>2, <2>4, <3>1
  <2> QED BY <2>3, <2>5
<1>6. \/ CrossReranked(hits, n, JudgedBy) = hits
      \/ CrossReranked(hits, n, JudgedBy) = BlockSorted(hits, n, score)
  BY DEF CrossReranked
<1> HIDE DEF score, model, block
<1> QED BY <1>5, <1>6, BlockSortedIs

-----------------------------------------------------------------------------
(* Folding: a candidate that resembles one that is kept is dropped.        *)

\* What holds of every round holds of all.
LEMMA RoundsKeep ==
    ASSUME NEW n \in Nat, NEW f, NEW Good, f[0] \in Good[0],
           \A i \in 1 .. n : f[i - 1] \in Good[i - 1] => f[i] \in Good[i]
    PROVE  \A i \in 0 .. n : f[i] \in Good[i]
<1> DEFINE N == {m \in Nat : m <= n => f[m] \in Good[m]}
<1>1. 0 \in N
  OBVIOUS
<1>2. ASSUME NEW m \in Nat, m \in N PROVE m + 1 \in N
  <2>1. m + 1 <= n => m + 1 \in 1 .. n /\ m <= n /\ (m + 1) - 1 = m
    OBVIOUS
  <2> QED BY <1>2, <2>1
<1>3. Nat \subseteq N
  <2> HIDE DEF N
  <2> QED BY <1>1, <1>2, Induction
<1> QED BY <1>3

\* Rounds that can go on each time can all be run.
Rounds(f, n, z, F) == f = [i \in 0 .. n |-> IF i = 0 THEN z ELSE F[<<i, f[i - 1]>>]]

\* The states of n rounds exist: F is what a round makes of its number and the state.
LEMMA RoundsRun ==
    ASSUME NEW n \in Nat, NEW z, NEW F
    PROVE  \E f : Rounds(f, n, z, F)
<1> DEFINE N == {m \in Nat : \E f : Rounds(f, m, z, F)}
<1>1. 0 \in N
  <2>1. Rounds([i \in 0 .. 0 |-> z], 0, z, F)
    BY DEF Rounds
  <2> QED BY <2>1
<1>2. ASSUME NEW m \in Nat, m \in N PROVE m + 1 \in N
  <2>1. PICK f : Rounds(f, m, z, F)
    BY <1>2
  <2> DEFINE g == [i \in 0 .. m + 1 |-> IF i = m + 1 THEN F[<<m + 1, f[m]>>] ELSE f[i]]
  <2>2. \A i \in 0 .. m : g[i] = f[i] /\ f[i] = IF i = 0 THEN z ELSE F[<<i, f[i - 1]>>]
    BY <2>1 DEF Rounds
  <2>3. g[m + 1] = F[<<m + 1, f[m]>>]
    OBVIOUS
  <2>4. \A i \in 0 .. m + 1 : g[i] = IF i = 0 THEN z ELSE F[<<i, g[i - 1]>>]
    <3> HIDE DEF g
    <3> SUFFICES ASSUME NEW i \in 0 .. m + 1 PROVE g[i] = IF i = 0 THEN z ELSE F[<<i, g[i - 1]>>]
      OBVIOUS
    <3>1. CASE i = m + 1
      <4>1. i - 1 = m /\ m \in 0 .. m /\ i # 0
        BY <3>1
      <4>2. g[i - 1] = f[m]
        BY <2>2, <4>1
      <4> QED BY <2>3, <3>1, <4>1, <4>2
    <3>2. CASE i = 0
      <4>1. 0 \in 0 .. m
        OBVIOUS
      <4>2. g[0] = z
        BY <2>2, <4>1
      <4> QED BY <3>2, <4>2
    <3>3. CASE i # 0 /\ i # m + 1
      <4>1. i \in 0 .. m /\ i - 1 \in 0 .. m
        BY <3>3
      <4>2. g[i] = F[<<i, f[i - 1]>>] /\ g[i - 1] = f[i - 1]
        BY <2>2, <3>3, <4>1
      <4> QED BY <3>3, <4>2
    <3> QED BY <3>1, <3>2, <3>3
  <2>5. Rounds(g, m + 1, z, F)
    <3>1. g = [i \in 0 .. m + 1 |-> g[i]]
      OBVIOUS
    <3> HIDE DEF g
    <3> QED BY <2>4, <3>1 DEF Rounds
  <2> HIDE DEF g
  <2> QED BY <2>5
<1>3. Nat \subseteq N
  <2> HIDE DEF N
  <2> QED BY <1>1, <1>2, Induction
<1> QED BY <1>3

\* Folding hits: the i-th is dropped when a kept chunk is related to it.
Folding(f, hits, A) ==
    f = [i \in 0 .. Len(hits) |->
           IF i = 0 THEN << >>
           ELSE IF \E h \in Range(f[i - 1]) : <<i, h.chunk>> \in A THEN f[i - 1]
           ELSE Append(f[i - 1], hits[i])]

\* s are those of the first i, at the places p, that are kept.
KeptOf(s, hits, A, i, p) ==
    /\ p \in [1 .. Len(s) -> 1 .. i]
    /\ \A u, v \in 1 .. Len(s) : u < v => p[u] < p[v] /\ <<p[v], s[u].chunk>> \notin A
    /\ \A u \in 1 .. Len(s) : s[u] = hits[p[u]]
    /\ \A j \in 1 .. i : \E u \in 1 .. Len(s) : p[u] = j \/ <<j, s[u].chunk>> \in A
    /\ i > 0 => Len(s) > 0 /\ p[1] = 1

\* A round folds the i-th member or keeps it.
LEMMA FoldRound ==
    ASSUME NEW hits, Listing(hits), NEW A, NEW i \in 1 .. Len(hits),
           NEW s \in Seq(PHit), NEW p, KeptOf(s, hits, A, i - 1, p)
    PROVE  /\ (\E h \in Range(s) : <<i, h.chunk>> \in A) => KeptOf(s, hits, A, i, p)
           /\ ~(\E h \in Range(s) : <<i, h.chunk>> \in A) =>
                 \E q : KeptOf(Append(s, hits[i]), hits, A, i, q)
           /\ Append(s, hits[i]) \in Seq(PHit)
<1> DEFINE n == Len(s)
<1>1. n \in Nat /\ DOMAIN s = 1 .. n /\ Len(hits) \in Nat /\ i \in Nat /\ i > 0
  <2>1. Len(hits) \in Nat
    BY ListingIs
  <2> QED BY <2>1, LenProperties
<1>2. /\ p \in [1 .. n -> 1 .. i - 1]
      /\ \A u, v \in 1 .. n : u < v => p[u] < p[v] /\ <<p[v], s[u].chunk>> \notin A
      /\ \A u \in 1 .. n : s[u] = hits[p[u]]
      /\ \A j \in 1 .. i - 1 : \E u \in 1 .. n : p[u] = j \/ <<j, s[u].chunk>> \in A
      /\ i - 1 > 0 => n > 0 /\ p[1] = 1
  BY DEF KeptOf
<1>3. \A u \in 1 .. n : p[u] \in 1 .. i - 1 /\ p[u] \in 1 .. i /\ p[u] < i
  BY <1>1, <1>2
<1>4. hits[i] \in PHit
  <2>1. hits \in Seq(PHit)
    BY ListingIs
  <2> QED BY <2>1, ElementOfSeq
<1>5. ASSUME \E h \in Range(s) : <<i, h.chunk>> \in A PROVE KeptOf(s, hits, A, i, p)
  <2>1. PICK w \in 1 .. n : <<i, s[w].chunk>> \in A
    BY <1>1, <1>5 DEF Range
  <2>2. p \in [1 .. n -> 1 .. i]
    BY <1>2, <1>3
  <2>3. \A j \in 1 .. i : j = i \/ j \in 1 .. i - 1
    BY <1>1
  <2>4. \A j \in 1 .. i : \E u \in 1 .. n : p[u] = j \/ <<j, s[u].chunk>> \in A
    BY <1>2, <2>1, <2>3
  <2>5. n > 0 /\ p[1] = 1
    <3>1. p[w] \in 1 .. i - 1
      BY <1>3, <2>1
    <3>2. i - 1 > 0
      BY <1>1, <3>1
    <3> QED BY <1>2, <3>2
  <2> QED BY <1>2, <2>2, <2>4, <2>5 DEF KeptOf
<1>6. /\ Append(s, hits[i]) \in Seq(PHit) /\ Len(Append(s, hits[i])) = n + 1
      /\ \A u \in 1 .. n : Append(s, hits[i])[u] = s[u]
      /\ Append(s, hits[i])[n + 1] = hits[i]
  BY <1>4, AppendProperties
<1>7. ASSUME ~ \E h \in Range(s) : <<i, h.chunk>> \in A
      PROVE  \E q : KeptOf(Append(s, hits[i]), hits, A, i, q)
  <2> DEFINE t == Append(s, hits[i])
             q == [u \in 1 .. n + 1 |-> IF u = n + 1 THEN i ELSE p[u]]
  <2> HIDE DEF n
  <2>1. \A u \in 1 .. n : <<i, s[u].chunk>> \notin A
    BY <1>1, <1>7 DEF Range
  <2>2. \A u \in 1 .. n + 1 : u = n + 1 \/ (u \in 1 .. n /\ u # n + 1)
    BY <1>1
  <2>3. n + 1 \in 1 .. n + 1 /\ \A u \in 1 .. n : u \in 1 .. n + 1 /\ u # n + 1 /\ u < n + 1
    BY <1>1
  <2>4. q[n + 1] = i /\ \A u \in 1 .. n : q[u] = p[u]
    BY <2>3
  <2>5. q \in [1 .. n + 1 -> 1 .. i]
    BY <1>1, <1>3, <2>2
  <2>6. \A j \in 1 .. i : j = i \/ j \in 1 .. i - 1
    BY <1>1
  <2> HIDE DEF q, t
  <2>7. \A u, v \in 1 .. n + 1 : u < v => q[u] < q[v] /\ <<q[v], t[u].chunk>> \notin A
    <3> SUFFICES ASSUME NEW u \in 1 .. n + 1, NEW v \in 1 .. n + 1, u < v
                 PROVE  q[u] < q[v] /\ <<q[v], t[u].chunk>> \notin A
      OBVIOUS
    <3>1. u \in 1 .. n /\ q[u] = p[u] /\ t[u] = s[u]
      <4>1. u \in 1 .. n
        BY <1>1
      <4> QED BY <1>6, <2>4, <4>1 DEF t
    <3>2. CASE v = n + 1
      BY <1>3, <2>1, <2>4, <3>1, <3>2
    <3>3. CASE v \in 1 .. n
      BY <1>2, <2>4, <3>1, <3>3
    <3> QED BY <2>2, <3>2, <3>3
  <2>8. \A u \in 1 .. n + 1 : t[u] = hits[q[u]]
    BY <1>2, <1>6, <2>2, <2>4 DEF t
  <2>9. \A j \in 1 .. i : \E u \in 1 .. n + 1 : q[u] = j \/ <<j, t[u].chunk>> \in A
    <3> SUFFICES ASSUME NEW j \in 1 .. i
                 PROVE  \E u \in 1 .. n + 1 : q[u] = j \/ <<j, t[u].chunk>> \in A
      OBVIOUS
    <3>1. CASE j = i
      BY <2>3, <2>4, <3>1
    <3>2. CASE j \in 1 .. i - 1
      <4>1. PICK u \in 1 .. n : p[u] = j \/ <<j, s[u].chunk>> \in A
        BY <1>2, <3>2
      <4>2. u \in 1 .. n + 1 /\ q[u] = p[u] /\ t[u] = s[u]
        BY <1>6, <2>3, <2>4 DEF t
      <4> QED BY <4>1, <4>2
    <3> QED BY <2>6, <3>1, <3>2
  <2>10. n + 1 > 0 /\ q[1] = 1
    <3>1. CASE n = 0
      <4>1. ~(i - 1 > 0)
        BY <1>2, <3>1
      <4>2. i = 1 /\ n + 1 = 1
        BY <1>1, <3>1, <4>1
      <4> QED BY <2>4, <4>2
    <3>2. CASE n > 0
      <4>1. 1 \in 1 .. n
        BY <1>1, <3>2
      <4>2. p[1] \in 1 .. i - 1
        BY <1>3, <4>1
      <4>3. i - 1 > 0
        BY <1>1, <4>2
      <4> QED BY <1>1, <1>2, <2>4, <4>1, <4>3
    <3> QED BY <1>1, <3>1, <3>2
  <2>11. Len(t) = n + 1
    BY <1>6 DEF t
  <2>12. KeptOf(t, hits, A, i, q)
    BY <2>5, <2>7, <2>8, <2>9, <2>10, <2>11 DEF KeptOf
  <2> QED BY <2>12 DEF t
<1> QED BY <1>5, <1>6, <1>7

\* The folding can be run, and of what it keeps the above is so.
LEMMA FoldingIs ==
    ASSUME NEW hits, Listing(hits), NEW A
    PROVE  /\ \E f : Folding(f, hits, A)
           /\ \A f : Folding(f, hits, A) =>
                 /\ \A i \in 0 .. Len(hits) : f[i] \in Seq(PHit)
                 /\ \E p : KeptOf(f[Len(hits)], hits, A, Len(hits), p)
<1> DEFINE n == Len(hits)
           Good == [i \in 0 .. n |-> {s \in Seq(PHit) : \E p : KeptOf(s, hits, A, i, p)}]
           Related(i, s) == \E h \in Range(s) : <<i, h.chunk>> \in A
           F == [x \in (1 .. n) \X Seq(PHit) |->
                   IF Related(x[1], x[2]) THEN x[2] ELSE Append(x[2], hits[x[1]])]
<1>1. n \in Nat /\ \A i \in 1 .. n : i \in 0 .. n /\ i - 1 \in 0 .. n /\ i # 0
  <2>1. n \in Nat
    BY ListingIs
  <2> HIDE DEF n
  <2> QED BY <2>1
<1>2. << >> \in Good[0]
  <2>1. << >> \in Seq(PHit) /\ Len(<< >>) = 0
    OBVIOUS
  <2>2. KeptOf(<< >>, hits, A, 0, [u \in 1 .. 0 |-> 0])
    BY <2>1 DEF KeptOf
  <2>3. 0 \in 0 .. n
    BY <1>1
  <2> QED BY <2>1, <2>2, <2>3
<1>3. ASSUME NEW i \in 1 .. n, NEW s \in Good[i - 1]
      PROVE  /\ s \in Seq(PHit)
             /\ Related(i, s) => s \in Good[i]
             /\ ~Related(i, s) => Append(s, hits[i]) \in Good[i]
  <2>1. s \in Seq(PHit) /\ \E p : KeptOf(s, hits, A, i - 1, p)
    BY <1>1
  <2>2. PICK p : KeptOf(s, hits, A, i - 1, p)
    BY <2>1
  <2>3. /\ Related(i, s) => KeptOf(s, hits, A, i, p)
        /\ ~Related(i, s) => \E q : KeptOf(Append(s, hits[i]), hits, A, i, q)
        /\ Append(s, hits[i]) \in Seq(PHit)
    BY <2>1, <2>2, FoldRound
  <2> HIDE DEF Related
  <2> QED BY <1>1, <2>1, <2>3
<1>4. \E f : Folding(f, hits, A)
  <2>1. PICK f : Rounds(f, n, << >>, F)
    BY <1>1, RoundsRun
  <2>2. /\ f[0] = << >> /\ \A i \in 1 .. n : f[i] = F[<<i, f[i - 1]>>]
        /\ f = [i \in 0 .. n |-> f[i]]
    <3> HIDE DEF F, n
    <3>1. 0 \in 0 .. n
      BY <1>1
    <3> QED BY <1>1, <2>1, <3>1 DEF Rounds
  <2>3. \A i \in 1 .. n : \A s \in Seq(PHit) :
            F[<<i, s>>] = IF Related(i, s) THEN s ELSE Append(s, hits[i])
    OBVIOUS
  <2> HIDE DEF F, Good, Related
  <2>4. \A i \in 1 .. n : f[i - 1] \in Good[i - 1] => f[i] \in Good[i]
    BY <1>3, <2>2, <2>3
  <2>5. \A i \in 0 .. n : f[i] \in Good[i]
    <3> HIDE DEF n
    <3> QED BY <1>1, <1>2, <2>2, <2>4, RoundsKeep
  <2>6. \A i \in 0 .. n : f[i] \in Seq(PHit)
    BY <2>5 DEF Good
  <2>7. \A i \in 0 .. n : f[i] = IF i = 0 THEN << >>
                                 ELSE IF Related(i, f[i - 1]) THEN f[i - 1]
                                 ELSE Append(f[i - 1], hits[i])
    <3> SUFFICES ASSUME NEW i \in 0 .. n
                 PROVE  f[i] = IF i = 0 THEN << >> ELSE IF Related(i, f[i - 1]) THEN f[i - 1]
                               ELSE Append(f[i - 1], hits[i])
      OBVIOUS
    <3>1. CASE i = 0
      BY <2>2, <3>1
    <3>2. CASE i # 0
      <4>1. i \in 1 .. n
        <5> HIDE DEF n
        <5> QED BY <1>1, <3>2
      <4> QED BY <1>1, <2>2, <2>3, <2>6, <3>2, <4>1
    <3> QED BY <3>1, <3>2
  <2>8. f = [i \in 0 .. n |-> IF i = 0 THEN << >>
                              ELSE IF Related(i, f[i - 1]) THEN f[i - 1]
                              ELSE Append(f[i - 1], hits[i])]
    BY <2>2, <2>7
  <2> QED BY <2>8 DEF Folding, Related
<1>5. ASSUME NEW f, Folding(f, hits, A)
      PROVE  /\ \A i \in 0 .. n : f[i] \in Seq(PHit)
             /\ \E p : KeptOf(f[n], hits, A, n, p)
  <2>1. /\ f[0] = << >>
        /\ \A i \in 1 .. n : f[i] = IF Related(i, f[i - 1]) THEN f[i - 1]
                                    ELSE Append(f[i - 1], hits[i])
    <3>1. 0 \in 0 .. n
      BY <1>1
    <3> QED BY <1>1, <1>5, <3>1 DEF Folding
  <2> HIDE DEF Good, Related
  <2>2. \A i \in 1 .. n : f[i - 1] \in Good[i - 1] => f[i] \in Good[i]
    BY <1>3, <2>1
  <2>3. \A i \in 0 .. n : f[i] \in Good[i]
    <3> HIDE DEF n
    <3> QED BY <1>1, <1>2, <2>1, <2>2, RoundsKeep
  <2>4. n \in 0 .. n
    <3> HIDE DEF n
    <3> QED BY <1>1
  <2>5. f[n] \in Good[n]
    BY <2>3, <2>4
  <2> QED BY <2>3, <2>4, <2>5 DEF Good
<1> QED BY <1>4, <1>5

\* What a folding keeps is a part that begins with the same candidate; what it
\* drops is related to one that it keeps, and no two it keeps are related.
LEMMA KeptIs ==
    ASSUME NEW hits, Listing(hits), NEW A, NEW t \in Seq(PHit), NEW p,
           KeptOf(t, hits, A, Len(hits), p)
    PROVE  /\ PartOf(t, hits) /\ Listing(t) /\ ChunksOf(t) \subseteq ChunksOf(hits)
           /\ hits # << >> => t # << >> /\ Head(t) = Head(hits)
           /\ \A c \in ChunksOf(hits) \ ChunksOf(t) : \E r \in ChunksOf(t) : <<PlaceOf(hits, c), r>> \in A
           /\ \A a, b \in ChunksOf(t) : a # b =>
                 <<PlaceOf(hits, a), b>> \notin A \/ <<PlaceOf(hits, b), a>> \notin A
<1> DEFINE n == Len(hits)
           m == Len(t)
<1>1. /\ n \in Nat /\ DOMAIN hits = 1 .. n /\ hits \in Seq(PHit) /\ (hits = << >> <=> n = 0)
      /\ \A i \in 1 .. n : PlaceOf(hits, hits[i].chunk) = i
  BY ListingIs
<1>2. m \in Nat /\ DOMAIN t = 1 .. m
  BY LenProperties
<1>3. /\ p \in [1 .. m -> 1 .. n]
      /\ \A u, v \in 1 .. m : u < v => p[u] < p[v] /\ <<p[v], t[u].chunk>> \notin A
      /\ \A u \in 1 .. m : t[u] = hits[p[u]]
      /\ \A j \in 1 .. n : \E u \in 1 .. m : p[u] = j \/ <<j, t[u].chunk>> \in A
      /\ n > 0 => m > 0 /\ p[1] = 1
  BY DEF KeptOf
<1>4. \A u \in 1 .. m : p[u] \in 1 .. n
  BY <1>3
<1>5. PartOf(t, hits)
  BY <1>1, <1>2, <1>3 DEF PartOf
<1>6. Listing(t) /\ ChunksOf(t) \subseteq ChunksOf(hits)
  BY <1>5, PartIs
<1>7. ASSUME hits # << >> PROVE t # << >> /\ Head(t) = Head(hits)
  <2>1. n > 0 /\ m > 0
    BY <1>1, <1>3, <1>7
  <2>2. 1 \in 1 .. m /\ t # << >>
    BY <1>2, <2>1, EmptySeq
  <2>3. t[1] = hits[1]
    BY <1>3, <2>1, <2>2
  <2> QED BY <1>1, <1>7, <2>2, <2>3
<1>8. ASSUME NEW c \in ChunksOf(hits) \ ChunksOf(t)
      PROVE  \E r \in ChunksOf(t) : <<PlaceOf(hits, c), r>> \in A
  <2>1. PICK j \in 1 .. n : hits[j].chunk = c
    BY <1>1 DEF ChunksOf
  <2>2. PICK u \in 1 .. m : p[u] = j \/ <<j, t[u].chunk>> \in A
    BY <1>3
  <2>3. t[u].chunk \in ChunksOf(t)
    BY <1>2 DEF ChunksOf
  <2>4. p[u] # j
    BY <1>3, <2>1, <2>3
  <2> QED BY <1>1, <2>1, <2>2, <2>3, <2>4
<1>9. ASSUME NEW a \in ChunksOf(t), NEW b \in ChunksOf(t), a # b
      PROVE  <<PlaceOf(hits, a), b>> \notin A \/ <<PlaceOf(hits, b), a>> \notin A
  <2>1. PICK u \in 1 .. m : t[u].chunk = a
    BY <1>2 DEF ChunksOf
  <2>2. PICK v \in 1 .. m : t[v].chunk = b
    BY <1>2 DEF ChunksOf
  <2>3. PlaceOf(hits, a) = p[u] /\ PlaceOf(hits, b) = p[v]
    BY <1>1, <1>3, <1>4, <2>1, <2>2
  <2>4. u < v \/ v < u
    BY <1>2, <1>9, <2>1, <2>2
  <2> QED BY <1>3, <2>1, <2>2, <2>3, <2>4
<1> QED BY <1>5, <1>6, <1>7, <1>8, <1>9

\* A list of one candidate at most has no two.
LEMMA OnlyOne ==
    ASSUME NEW hits, Listing(hits), Len(hits) <= 1, NEW a \in ChunksOf(hits), NEW b \in ChunksOf(hits)
    PROVE  a = b
<1>1. Len(hits) \in Nat /\ DOMAIN hits = 1 .. Len(hits)
  BY ListingIs
<1>2. PICK i \in 1 .. Len(hits), j \in 1 .. Len(hits) : hits[i].chunk = a /\ hits[j].chunk = b
  BY <1>1 DEF ChunksOf
<1>3. i = j
  BY <1>1
<1> QED BY <1>2, <1>3

\* Adjoining is symmetric.
LEMMA AdjoiningSame ==
    ASSUME NEW a \in PChunks, NEW b \in PChunks
    PROVE  Adjoining(a, b) <=> Adjoining(b, a)
<1>1. /\ FirstLine[a] \in Int /\ LastLine[a] \in Int /\ FirstLine[a] <= LastLine[a]
      /\ FirstLine[b] \in Int /\ LastLine[b] \in Int /\ FirstLine[b] <= LastLine[b]
  BY PipelineAssumption
<1> DEFINE gap(x, y) == IF FirstLine[y] > LastLine[x] THEN FirstLine[y] - LastLine[x]
                        ELSE IF FirstLine[x] > LastLine[y] THEN FirstLine[x] - LastLine[y] ELSE 0
<1>2. gap(a, b) = gap(b, a)
  BY <1>1
<1>3. /\ Adjoining(a, b) <=> DocOfChunk[a] = DocOfChunk[b] /\ gap(a, b) <= MaxGap
      /\ Adjoining(b, a) <=> DocOfChunk[b] = DocOfChunk[a] /\ gap(b, a) <= MaxGap
  BY DEF Adjoining
<1> HIDE DEF gap
<1> QED BY <1>2, <1>3

\* So is being a near-duplicate.
LEMMA DuplicateSame ==
    ASSUME NEW terms, NEW where, NEW hits, NEW a, NEW b
    PROVE  NearDuplicate(terms, where, hits, a, b) <=> NearDuplicate(terms, where, hits, b, a)
<1> DEFINE dense == \A c \in ChunksOf(hits) : where[c] # NotEmbedded
           far(x, y) == Clamp(SimOne - 4 * Max({where[x] - where[y], where[y] - where[x]}), 0, SimOne)
           common(x, y) == (SimOne * Cardinality(terms[x] \cap terms[y]))
                             \div Cardinality(terms[x] \cup terms[y])
<1>1. \A x, y : HitSim(terms, where, hits, x, y) =
          IF dense THEN far(x, y)
          ELSE IF terms[x] = {} \/ terms[y] = {} THEN 0 ELSE common(x, y)
  BY DEF HitSim
<1>2. far(a, b) = far(b, a)
  <2>1. {where[a] - where[b], where[b] - where[a]} = {where[b] - where[a], where[a] - where[b]}
    OBVIOUS
  <2> QED BY <2>1
<1>3. common(a, b) = common(b, a)
  <2>1. terms[a] \cap terms[b] = terms[b] \cap terms[a] /\ terms[a] \cup terms[b] = terms[b] \cup terms[a]
    OBVIOUS
  <2> QED BY <2>1
<1> HIDE DEF dense, far, common
<1>4. HitSim(terms, where, hits, a, b) = HitSim(terms, where, hits, b, a)
  BY <1>1, <1>2, <1>3
<1> QED BY <1>4 DEF NearDuplicate

\* It depends on the chunks of the list only, not on their order.
LEMMA DuplicateAmong ==
    ASSUME NEW terms, NEW where, NEW s, NEW t, ChunksOf(s) = ChunksOf(t), NEW a, NEW b
    PROVE  NearDuplicate(terms, where, s, a, b) <=> NearDuplicate(terms, where, t, a, b)
<1>1. (\A c \in ChunksOf(s) : where[c] # NotEmbedded) <=> (\A c \in ChunksOf(t) : where[c] # NotEmbedded)
  OBVIOUS
<1>2. HitSim(terms, where, s, a, b) = HitSim(terms, where, t, a, b)
  BY DEF HitSim
<1> QED BY <1>2 DEF NearDuplicate

\* The stitched list.
StitchedList(hits) == IF Len(hits) < 2 THEN hits ELSE Stitched(hits)

\* Stitching keeps a part of the list, its leader, and folds the rest; no two that are kept adjoin.
LEMMA StitchedIs ==
    ASSUME NEW hits, Listing(hits)
    PROVE  LET t == StitchedList(hits)
           IN /\ PartOf(t, hits) /\ Listing(t) /\ ChunksOf(t) \subseteq ChunksOf(hits)
              /\ hits # << >> => t # << >> /\ Head(t) = Head(hits)
              /\ \A c \in ChunksOf(hits) \ ChunksOf(t) : \E r \in ChunksOf(t) : Adjoining(r, c)
              /\ \A a, b \in ChunksOf(t) : a # b => ~Adjoining(a, b)
<1>1. Len(hits) \in Nat /\ DOMAIN hits = 1 .. Len(hits) /\ ChunksOf(hits) \subseteq PChunks
  BY ListingIs
<1>2. CASE Len(hits) < 2
  <2>1. StitchedList(hits) = hits
    BY <1>2 DEF StitchedList
  <2>2. Len(hits) <= 1
    BY <1>1, <1>2
  <2> QED BY <2>1, <2>2, PartSelf, OnlyOne
<1>3. CASE ~(Len(hits) < 2)
  <2> DEFINE A == {x \in (1 .. Len(hits)) \X PChunks : Adjoining(x[2], hits[x[1]].chunk)}
             Related(f, i) == \E h \in Range(f[i - 1]) : <<i, h.chunk>> \in A
             Step(f) == [i \in 0 .. Len(hits) |->
                           IF i = 0 THEN << >>
                           ELSE IF \E h \in Range(f[i - 1]) : Adjoining(h.chunk, hits[i].chunk)
                           THEN f[i - 1]
                           ELSE Append(f[i - 1], hits[i])]
             kept == CHOOSE f : f = Step(f)
  <2>1. StitchedList(hits) = kept[Len(hits)]
    BY <1>3 DEF StitchedList, Stitched
  <2>2. ASSUME NEW f, NEW i \in 1 .. Len(hits), f[i - 1] \in Seq(PHit)
        PROVE  (\E h \in Range(f[i - 1]) : Adjoining(h.chunk, hits[i].chunk))
                 <=> Related(f, i)
    <3>1. \A h \in Range(f[i - 1]) : h.chunk \in PChunks
      <4>1. f[i - 1] \in [1 .. Len(f[i - 1]) -> PHit]
        BY <2>2, LenProperties
      <4> QED BY <4>1 DEF Range, PHit
    <3>2. \A h \in Range(f[i - 1]) : <<i, h.chunk>> \in A <=> Adjoining(h.chunk, hits[i].chunk)
      BY <3>1
    <3> HIDE DEF A
    <3> QED BY <3>2
  <2>3. ASSUME NEW f, \A i \in 0 .. Len(hits) : f[i] \in Seq(PHit)
        PROVE  f = Step(f) <=> Folding(f, hits, A)
    <3>1. \A i \in 1 .. Len(hits) : i - 1 \in 0 .. Len(hits)
      BY <1>1
    <3>2. \A i \in 1 .. Len(hits) :
             (\E h \in Range(f[i - 1]) : Adjoining(h.chunk, hits[i].chunk))
               <=> Related(f, i)
      BY <2>2, <2>3, <3>1
    <3> DEFINE R == [i \in 0 .. Len(hits) |-> IF i = 0 THEN << >>
                                              ELSE IF Related(f, i) THEN f[i - 1]
                                              ELSE Append(f[i - 1], hits[i])]
    <3>3. Folding(f, hits, A) <=> f = R
      BY DEF Folding
    <3> HIDE DEF Related, A
    <3>4. \A i \in 0 .. Len(hits) : i # 0 => i \in 1 .. Len(hits)
      BY <1>1
    <3>5. Step(f) = R
      BY <3>2, <3>4
    <3> QED BY <3>3, <3>5
  <2> HIDE DEF A, Related
  <2>4. \E f : f = Step(f)
    <3>1. PICK f : Folding(f, hits, A)
      BY FoldingIs
    <3>2. \A i \in 0 .. Len(hits) : f[i] \in Seq(PHit)
      BY <3>1, FoldingIs
    <3>3. f = Step(f)
      BY <2>3, <3>1, <3>2
    <3> HIDE DEF Step
    <3> QED BY <3>3
  <2>5. kept = Step(kept)
    <3> HIDE DEF Step
    <3> QED BY <2>4
  <2> HIDE DEF kept
  <2>6. \A i \in 0 .. Len(hits) : kept[i] \in Seq(PHit)
    <3> DEFINE Good == [i \in 0 .. Len(hits) |-> Seq(PHit)]
    <3>1. /\ \A i \in 1 .. Len(hits) : i \in 0 .. Len(hits) /\ i - 1 \in 0 .. Len(hits) /\ i # 0
          /\ 0 \in 0 .. Len(hits)
      BY <1>1
    <3>2. kept[0] = << >> /\ << >> \in Seq(PHit)
      <4>1. kept[0] = << >>
        BY <2>5, <3>1
      <4> QED BY <4>1
    <3>3. \A i \in 1 .. Len(hits) : hits[i] \in PHit
      <4>1. hits \in Seq(PHit)
        BY ListingIs
      <4> QED BY <4>1, ElementOfSeq
    <3>4. \A i \in 1 .. Len(hits) : kept[i] = kept[i - 1] \/ kept[i] = Append(kept[i - 1], hits[i])
      BY <2>5, <3>1
    <3>5. ASSUME NEW i \in 1 .. Len(hits), kept[i - 1] \in Seq(PHit) PROVE kept[i] \in Seq(PHit)
      <4>1. Append(kept[i - 1], hits[i]) \in Seq(PHit)
        BY <3>3, <3>5, AppendProperties
      <4> QED BY <3>4, <3>5, <4>1
    <3>6. \A i \in 0 .. Len(hits) : Good[i] = Seq(PHit)
      OBVIOUS
    <3> HIDE DEF Good
    <3>7. \A i \in 0 .. Len(hits) : kept[i] \in Good[i]
      BY <1>1, <3>1, <3>2, <3>5, <3>6, RoundsKeep
    <3> QED BY <3>6, <3>7
  <2>7. Folding(kept, hits, A)
    BY <2>3, <2>5, <2>6
  <2> DEFINE t == kept[Len(hits)]
  <2>8. t \in Seq(PHit) /\ \E p : KeptOf(t, hits, A, Len(hits), p)
    <3>1. Len(hits) \in 0 .. Len(hits)
      BY <1>1
    <3> QED BY <2>6, <2>7, <3>1, FoldingIs
  <2> HIDE DEF t
  <2>9. /\ PartOf(t, hits) /\ Listing(t) /\ ChunksOf(t) \subseteq ChunksOf(hits)
        /\ hits # << >> => t # << >> /\ Head(t) = Head(hits)
        /\ \A c \in ChunksOf(hits) \ ChunksOf(t) : \E r \in ChunksOf(t) : <<PlaceOf(hits, c), r>> \in A
        /\ \A a, b \in ChunksOf(t) : a # b =>
              <<PlaceOf(hits, a), b>> \notin A \/ <<PlaceOf(hits, b), a>> \notin A
    BY <2>8, KeptIs
  <2>10. \A c \in ChunksOf(hits), r \in ChunksOf(t) :
            <<PlaceOf(hits, c), r>> \in A <=> Adjoining(r, c)
    <3> SUFFICES ASSUME NEW c \in ChunksOf(hits), NEW r \in ChunksOf(t)
                 PROVE  <<PlaceOf(hits, c), r>> \in A <=> Adjoining(r, c)
      OBVIOUS
    <3>1. PlaceOf(hits, c) \in 1 .. Len(hits) /\ hits[PlaceOf(hits, c)].chunk = c
      BY PlaceIs
    <3>2. r \in PChunks
      BY <1>1, <2>9
    <3> QED BY <3>1, <3>2 DEF A
  <2>11. \A a, b \in ChunksOf(t) : a \in ChunksOf(hits) /\ (Adjoining(a, b) <=> Adjoining(b, a))
    BY <1>1, <2>9, AdjoiningSame
  <2> QED BY <2>1, <2>9, <2>10, <2>11 DEF t
<1> QED BY <1>2, <1>3

\* Dropping near-duplicates does the same with them.
LEMMA DedupIs ==
    ASSUME NEW hits, Listing(hits), NEW terms, NEW where
    PROVE  LET t == Dedup(hits, terms, where)
           IN /\ PartOf(t, hits) /\ Listing(t) /\ ChunksOf(t) \subseteq ChunksOf(hits)
              /\ hits # << >> => t # << >> /\ Head(t) = Head(hits)
              /\ \A c \in ChunksOf(hits) \ ChunksOf(t) :
                    \E r \in ChunksOf(t) : NearDuplicate(terms, where, hits, r, c)
              /\ DupWindow = 0 =>
                    \A a, b \in ChunksOf(t) : a # b => ~NearDuplicate(terms, where, hits, a, b)
<1> DEFINE win == IF DupWindow = 0 THEN Len(hits) ELSE Min({DupWindow, Len(hits)})
<1>1. Len(hits) \in Nat /\ DOMAIN hits = 1 .. Len(hits) /\ ChunksOf(hits) \subseteq PChunks
  BY ListingIs
<1>2. CASE Len(hits) <= 1
  <2>1. Dedup(hits, terms, where) = hits
    BY <1>2 DEF Dedup
  <2> QED BY <1>2, <2>1, PartSelf, OnlyOne
<1>3. CASE ~(Len(hits) <= 1)
  <2> DEFINE A == {x \in (1 .. Len(hits)) \X PChunks : x[1] <= win /\ NearDuplicate(terms, where, hits, hits[x[1]].chunk, x[2])}
             Related(f, i) == \E h \in Range(f[i - 1]) : <<i, h.chunk>> \in A
             Step(f) == [i \in 0 .. Len(hits) |->
                           IF i = 0 THEN << >>
                           ELSE IF i <= win /\ \E h \in Range(f[i - 1]) : NearDuplicate(terms, where, hits, hits[i].chunk, h.chunk)
                           THEN f[i - 1]
                           ELSE Append(f[i - 1], hits[i])]
             kept == CHOOSE f : f = Step(f)
  <2>1. Dedup(hits, terms, where) = kept[Len(hits)]
    BY <1>3 DEF Dedup
  <2>2. ASSUME NEW f, NEW i \in 1 .. Len(hits), f[i - 1] \in Seq(PHit)
        PROVE  (i <= win /\ \E h \in Range(f[i - 1]) : NearDuplicate(terms, where, hits, hits[i].chunk, h.chunk))
                 <=> Related(f, i)
    <3>1. \A h \in Range(f[i - 1]) : h.chunk \in PChunks
      <4>1. f[i - 1] \in [1 .. Len(f[i - 1]) -> PHit]
        BY <2>2, LenProperties
      <4> QED BY <4>1 DEF Range, PHit
    <3>2. \A h \in Range(f[i - 1]) : <<i, h.chunk>> \in A <=> i <= win /\ NearDuplicate(terms, where, hits, hits[i].chunk, h.chunk)
      BY <3>1
    <3> HIDE DEF A
    <3> QED BY <3>2
  <2>3. ASSUME NEW f, \A i \in 0 .. Len(hits) : f[i] \in Seq(PHit)
        PROVE  f = Step(f) <=> Folding(f, hits, A)
    <3>1. \A i \in 1 .. Len(hits) : i - 1 \in 0 .. Len(hits)
      BY <1>1
    <3>2. \A i \in 1 .. Len(hits) :
             (i <= win /\ \E h \in Range(f[i - 1]) : NearDuplicate(terms, where, hits, hits[i].chunk, h.chunk))
               <=> Related(f, i)
      BY <2>2, <2>3, <3>1
    <3> DEFINE R == [i \in 0 .. Len(hits) |-> IF i = 0 THEN << >>
                                              ELSE IF Related(f, i) THEN f[i - 1]
                                              ELSE Append(f[i - 1], hits[i])]
    <3>3. Folding(f, hits, A) <=> f = R
      BY DEF Folding
    <3> HIDE DEF Related, A
    <3>4. \A i \in 0 .. Len(hits) : i # 0 => i \in 1 .. Len(hits)
      BY <1>1
    <3>5. Step(f) = R
      BY <3>2, <3>4
    <3> QED BY <3>3, <3>5
  <2> HIDE DEF A, Related
  <2>4. \E f : f = Step(f)
    <3>1. PICK f : Folding(f, hits, A)
      BY FoldingIs
    <3>2. \A i \in 0 .. Len(hits) : f[i] \in Seq(PHit)
      BY <3>1, FoldingIs
    <3>3. f = Step(f)
      BY <2>3, <3>1, <3>2
    <3> HIDE DEF Step
    <3> QED BY <3>3
  <2>5. kept = Step(kept)
    <3> HIDE DEF Step
    <3> QED BY <2>4
  <2> HIDE DEF kept
  <2>6. \A i \in 0 .. Len(hits) : kept[i] \in Seq(PHit)
    <3> DEFINE Good == [i \in 0 .. Len(hits) |-> Seq(PHit)]
    <3>1. /\ \A i \in 1 .. Len(hits) : i \in 0 .. Len(hits) /\ i - 1 \in 0 .. Len(hits) /\ i # 0
          /\ 0 \in 0 .. Len(hits)
      BY <1>1
    <3>2. kept[0] = << >> /\ << >> \in Seq(PHit)
      <4>1. kept[0] = << >>
        BY <2>5, <3>1
      <4> QED BY <4>1
    <3>3. \A i \in 1 .. Len(hits) : hits[i] \in PHit
      <4>1. hits \in Seq(PHit)
        BY ListingIs
      <4> QED BY <4>1, ElementOfSeq
    <3>4. \A i \in 1 .. Len(hits) : kept[i] = kept[i - 1] \/ kept[i] = Append(kept[i - 1], hits[i])
      BY <2>5, <3>1
    <3>5. ASSUME NEW i \in 1 .. Len(hits), kept[i - 1] \in Seq(PHit) PROVE kept[i] \in Seq(PHit)
      <4>1. Append(kept[i - 1], hits[i]) \in Seq(PHit)
        BY <3>3, <3>5, AppendProperties
      <4> QED BY <3>4, <3>5, <4>1
    <3>6. \A i \in 0 .. Len(hits) : Good[i] = Seq(PHit)
      OBVIOUS
    <3> HIDE DEF Good
    <3>7. \A i \in 0 .. Len(hits) : kept[i] \in Good[i]
      BY <1>1, <3>1, <3>2, <3>5, <3>6, RoundsKeep
    <3> QED BY <3>6, <3>7
  <2>7. Folding(kept, hits, A)
    BY <2>3, <2>5, <2>6
  <2> DEFINE t == kept[Len(hits)]
  <2>8. t \in Seq(PHit) /\ \E p : KeptOf(t, hits, A, Len(hits), p)
    <3>1. Len(hits) \in 0 .. Len(hits)
      BY <1>1
    <3> QED BY <2>6, <2>7, <3>1, FoldingIs
  <2> HIDE DEF t
  <2>9. /\ PartOf(t, hits) /\ Listing(t) /\ ChunksOf(t) \subseteq ChunksOf(hits)
        /\ hits # << >> => t # << >> /\ Head(t) = Head(hits)
        /\ \A c \in ChunksOf(hits) \ ChunksOf(t) : \E r \in ChunksOf(t) : <<PlaceOf(hits, c), r>> \in A
        /\ \A a, b \in ChunksOf(t) : a # b =>
              <<PlaceOf(hits, a), b>> \notin A \/ <<PlaceOf(hits, b), a>> \notin A
    BY <2>8, KeptIs
  <2>10. \A c \in ChunksOf(hits), r \in ChunksOf(t) :
            <<PlaceOf(hits, c), r>> \in A <=> PlaceOf(hits, c) <= win /\ NearDuplicate(terms, where, hits, c, r)
    <3> SUFFICES ASSUME NEW c \in ChunksOf(hits), NEW r \in ChunksOf(t)
                 PROVE  <<PlaceOf(hits, c), r>> \in A
                          <=> PlaceOf(hits, c) <= win /\ NearDuplicate(terms, where, hits, c, r)
      OBVIOUS
    <3>1. PlaceOf(hits, c) \in 1 .. Len(hits) /\ hits[PlaceOf(hits, c)].chunk = c
      BY PlaceIs
    <3>2. r \in PChunks
      BY <1>1, <2>9
    <3> HIDE DEF win
    <3> QED BY <3>1, <3>2 DEF A
  <2>11. DupWindow = 0 => \A c \in ChunksOf(hits) : PlaceOf(hits, c) <= win
    <3>1. \A c \in ChunksOf(hits) : PlaceOf(hits, c) \in 1 .. Len(hits)
      BY PlaceIs
    <3> QED BY <1>1, <3>1
  <2>12. \A a, b : NearDuplicate(terms, where, hits, a, b) <=> NearDuplicate(terms, where, hits, b, a)
    BY DuplicateSame
  <2> HIDE DEF win
  <2>13. \A c \in ChunksOf(hits) \ ChunksOf(t) : \E r \in ChunksOf(t) : NearDuplicate(terms, where, hits, r, c)
    BY <2>9, <2>10, <2>12
  <2>14. ASSUME DupWindow = 0, NEW a \in ChunksOf(t), NEW b \in ChunksOf(t), a # b
         PROVE  ~NearDuplicate(terms, where, hits, a, b)
    <3>1. a \in ChunksOf(hits) /\ b \in ChunksOf(hits)
      BY <2>9
    <3>2. <<PlaceOf(hits, a), b>> \notin A \/ <<PlaceOf(hits, b), a>> \notin A
      BY <2>9, <2>14
    <3> QED BY <2>10, <2>11, <2>12, <2>14, <3>1, <3>2
  <2> QED BY <2>1, <2>9, <2>13, <2>14 DEF t
<1> QED BY <1>2, <1>3

-----------------------------------------------------------------------------
(* Greedy choices, and cuts.                                               *)

\* Of finitely many places with a number each, the first of the best.
LEMMA BestIs ==
    ASSUME NEW n \in Nat, NEW R \in SUBSET (1 .. n), R # {}, NEW g, \A j \in R : g[j] \in Int
    PROVE  \E i \in R : \A j \in R : g[i] > g[j] \/ (g[i] = g[j] /\ i <= j)
<1> DEFINE V == {g[j] : j \in R}
           f == [j \in R |-> g[j]]
<1>1. IsFiniteSet(R)
  <2>1. IsFiniteSet(1 .. n)
    BY NumbersUpTo
  <2> QED BY <2>1, FS_Subset
<1>2. V \in SUBSET Int /\ V # {}
  OBVIOUS
<1>3. IsFiniteSet(V)
  <2>1. IsFiniteSet(DOMAIN f) /\ V = {f[j] : j \in DOMAIN f}
    BY <1>1
  <2> HIDE DEF f, V
  <2> QED BY <2>1, ImageFinite
<1>4. \A y \in V : y <= Max(V)
  <2> HIDE DEF V
  <2> QED BY <1>2, <1>3, ExtremesAre
<1>5. Max(V) \in V /\ Max(V) \in Int
  <2> HIDE DEF V
  <2> QED BY <1>2, <1>3, ExtremesAre
<1> DEFINE top == Max(V)
           B == {j \in R : g[j] = top}
<1> HIDE DEF top
<1>6. B \in SUBSET Nat /\ B # {}
  <2>1. \E j \in R : g[j] = top
    BY <1>5 DEF top
  <2>2. \A j \in R : j \in Nat
    OBVIOUS
  <2>3. B # {}
    BY <2>1
  <2>4. \A j \in B : j \in Nat
    BY <2>2
  <2> HIDE DEF B
  <2> QED BY <2>3, <2>4
<1>7. PICK i \in B : \A j \in B : i <= j
  <2> HIDE DEF B
  <2> QED BY <1>6, LeastNumber
<1>8. \A j \in R : g[j] <= top /\ g[j] \in Int
  BY <1>4 DEF top
<1>9. i \in R /\ g[i] = top /\ top \in Int
  BY <1>5 DEF top
<1>10. ASSUME NEW j \in R PROVE g[i] > g[j] \/ (g[i] = g[j] /\ i <= j)
  <2>1. CASE g[j] = top
    BY <1>7, <1>9, <2>1
  <2>2. CASE g[j] # top
    BY <1>8, <1>9, <2>2
  <2> QED BY <2>1, <2>2
<1> QED BY <1>9, <1>10

\* The choice of one round: the first of the best that are left.
BestOf(n, gain, S) == CHOOSE i \in 1 .. n \ S : \A j \in 1 .. n \ S :
                         \/ gain[S][i] > gain[S][j]
                         \/ gain[S][i] = gain[S][j] /\ i <= j

\* The best of what is left is one of it, and no other is better.
LEMMA BestOfIs ==
    ASSUME NEW n \in Nat, NEW gain \in [SUBSET (1 .. n) -> [1 .. n -> Int]],
           NEW S \in SUBSET (1 .. n), S # 1 .. n
    PROVE  /\ BestOf(n, gain, S) \in 1 .. n \ S
           /\ \A j \in 1 .. n \ S : \/ gain[S][BestOf(n, gain, S)] > gain[S][j]
                                    \/ gain[S][BestOf(n, gain, S)] = gain[S][j] /\ BestOf(n, gain, S) <= j
<1> DEFINE R == 1 .. n \ S
           Is(i) == \A j \in R : gain[S][i] > gain[S][j] \/ (gain[S][i] = gain[S][j] /\ i <= j)
<1>1. R \in SUBSET (1 .. n) /\ R # {} /\ \A j \in R : gain[S][j] \in Int
  OBVIOUS
<1>2. \E i \in R : Is(i)
  <2> HIDE DEF R
  <2> QED BY <1>1, BestIs
<1>3. BestOf(n, gain, S) = CHOOSE i \in R : Is(i)
  BY DEF BestOf
<1>4. BestOf(n, gain, S) \in R /\ Is(BestOf(n, gain, S))
  <2> HIDE DEF Is, R
  <2> QED BY <1>2, <1>3
<1> QED BY <1>4

\* The choices of i rounds.
Chosen(n, gain, i) ==
    {s \in Seq(1 .. n) : /\ Len(s) = i /\ Once(s, 1 .. n)
                         /\ i > 0 => s[1] = BestOf(n, gain, {})}

\* A round of the greedy choice takes what it did not have.
LEMMA GreedyRound ==
    ASSUME NEW n \in Nat, NEW gain \in [SUBSET (1 .. n) -> [1 .. n -> Int]],
           NEW i \in 1 .. n, NEW s \in Chosen(n, gain, i - 1)
    PROVE  Append(s, BestOf(n, gain, Range(s))) \in Chosen(n, gain, i)
<1> DEFINE b == BestOf(n, gain, Range(s))
           t == Append(s, b)
<1>1. /\ s \in Seq(1 .. n) /\ Len(s) = i - 1 /\ Once(s, 1 .. n)
      /\ i - 1 > 0 => s[1] = BestOf(n, gain, {})
  BY DEF Chosen
<1>2. /\ DOMAIN s = 1 .. Len(s) /\ Len(s) \in Nat
      /\ \A u, v \in 1 .. Len(s) : s[u] = s[v] => u = v
      /\ Range(s) \subseteq 1 .. n /\ Cardinality(Range(s)) = Len(s)
  BY <1>1, OnceIs
<1>3. Range(s) # 1 .. n
  <2>1. Cardinality(1 .. n) = n
    BY NumbersUpTo
  <2>2. i - 1 < n
    OBVIOUS
  <2> QED BY <1>1, <1>2, <2>1, <2>2
<1>4. b \in 1 .. n \ Range(s)
  BY <1>2, <1>3, BestOfIs
<1> HIDE DEF b
<1>5. /\ t \in Seq(1 .. n) /\ Len(t) = Len(s) + 1
      /\ \A u \in 1 .. Len(s) : t[u] = s[u]
      /\ t[Len(s) + 1] = b
  BY <1>1, <1>4, AppendProperties
<1>6. Len(t) = i /\ DOMAIN t = 1 .. i
  <2>1. Len(t) = i
    BY <1>1, <1>5
  <2> HIDE DEF t
  <2> QED BY <1>5, <2>1, LenProperties
<1> HIDE DEF t
<1>7. \A u \in 1 .. Len(s) : s[u] \in Range(s)
  BY <1>2 DEF Range
<1>8. ASSUME NEW u \in 1 .. i, NEW v \in 1 .. i, t[u] = t[v] PROVE u = v
  <2>1. \A w \in 1 .. i : w = i \/ w \in 1 .. Len(s)
    BY <1>1
  <2>2. t[i] = b
    BY <1>1, <1>5
  <2> QED BY <1>2, <1>4, <1>5, <1>7, <1>8, <2>1, <2>2
<1>9. t[1] = BestOf(n, gain, {})
  <2>1. CASE i = 1
    <3>1. Len(s) = 0
      BY <1>1, <2>1
    <3>2. Range(s) = {}
      BY <1>2, <3>1 DEF Range
    <3>3. t[1] = b
      BY <1>5, <3>1
    <3> QED BY <3>2, <3>3 DEF b
  <2>2. CASE i # 1
    <3>1. i - 1 > 0 /\ 1 \in 1 .. Len(s)
      BY <1>1, <2>2
    <3> QED BY <1>1, <1>5, <3>1
  <2> QED BY <2>1, <2>2
<1>10. Once(t, 1 .. n)
  BY <1>5, <1>6, <1>8 DEF Once
<1>11. t \in Chosen(n, gain, i)
  BY <1>5, <1>6, <1>9, <1>10 DEF Chosen
<1> QED BY <1>11 DEF t, b

\* Greedy takes k different ones, the best of all first.
LEMMA GreedyIs ==
    ASSUME NEW n \in Nat, NEW k \in 0 .. n, NEW gain \in [SUBSET (1 .. n) -> [1 .. n -> Int]]
    PROVE  Greedy(n, k, gain) \in Chosen(n, gain, k)
<1> DEFINE Step(f) == [step \in 0 .. k |-> IF step = 0 THEN << >>
                                           ELSE Append(f[step - 1], BestOf(n, gain, Range(f[step - 1])))]
           picked == CHOOSE f : f = Step(f)
           F == [x \in (1 .. k) \X Seq(1 .. n) |-> Append(x[2], BestOf(n, gain, Range(x[2])))]
           Good == [i \in 0 .. k |-> Chosen(n, gain, i)]
<1>1. Greedy(n, k, gain) = picked[k]
  BY DEF Greedy, BestOf
<1>2. /\ k \in Nat /\ 0 \in 0 .. k /\ k \in 0 .. k
      /\ \A i \in 1 .. k : i \in 0 .. k /\ i - 1 \in 0 .. k /\ i # 0 /\ i \in 1 .. n
  OBVIOUS
<1>3. << >> \in Good[0]
  <2>1. << >> \in Seq(1 .. n) /\ Len(<< >>) = 0 /\ DOMAIN << >> = {}
    OBVIOUS
  <2>2. << >> \in Chosen(n, gain, 0)
    BY <2>1 DEF Chosen, Once
  <2> QED BY <1>2, <2>2
<1>4. ASSUME NEW i \in 1 .. k, NEW s \in Good[i - 1]
      PROVE  s \in Seq(1 .. n) /\ Append(s, BestOf(n, gain, Range(s))) \in Good[i]
  <2>1. s \in Chosen(n, gain, i - 1)
    BY <1>2
  <2>2. Append(s, BestOf(n, gain, Range(s))) \in Chosen(n, gain, i)
    BY <1>2, <2>1, GreedyRound
  <2> QED BY <1>2, <2>1, <2>2 DEF Chosen
<1>5. \E f : f = Step(f)
  <2>1. PICK f : Rounds(f, k, << >>, F)
    BY <1>2, RoundsRun
  <2>2. /\ f[0] = << >> /\ \A i \in 1 .. k : f[i] = F[<<i, f[i - 1]>>]
        /\ f = [i \in 0 .. k |-> f[i]]
    <3> HIDE DEF F
    <3> QED BY <1>2, <2>1 DEF Rounds
  <2>3. \A i \in 1 .. k : \A s \in Seq(1 .. n) : F[<<i, s>>] = Append(s, BestOf(n, gain, Range(s)))
    OBVIOUS
  <2> HIDE DEF F, Good
  <2>4. ASSUME NEW i \in 1 .. k, f[i - 1] \in Good[i - 1] PROVE f[i] \in Good[i]
    <3>1. /\ f[i - 1] \in Seq(1 .. n)
          /\ Append(f[i - 1], BestOf(n, gain, Range(f[i - 1]))) \in Good[i]
      BY <1>4, <2>4
    <3>2. f[i] = F[<<i, f[i - 1]>>]
      BY <2>2
    <3> QED BY <2>3, <3>1, <3>2
  <2>5. \A i \in 0 .. k : f[i] \in Good[i]
    BY <1>2, <1>3, <2>2, <2>4, RoundsKeep
  <2>6. \A i \in 1 .. k : f[i - 1] \in Seq(1 .. n)
    BY <1>2, <1>4, <2>5
  <2>7. \A i \in 0 .. k : f[i] = IF i = 0 THEN << >>
                                 ELSE Append(f[i - 1], BestOf(n, gain, Range(f[i - 1])))
    <3> SUFFICES ASSUME NEW i \in 0 .. k
                 PROVE  f[i] = IF i = 0 THEN << >>
                               ELSE Append(f[i - 1], BestOf(n, gain, Range(f[i - 1])))
      OBVIOUS
    <3>1. CASE i = 0
      BY <2>2, <3>1
    <3>2. CASE i # 0
      <4>1. i \in 1 .. k
        BY <3>2
      <4> QED BY <2>2, <2>3, <2>6, <3>2, <4>1
    <3> QED BY <3>1, <3>2
  <2>8. f = Step(f)
    BY <2>2, <2>7
  <2> HIDE DEF Step
  <2> QED BY <2>8
<1>6. picked = Step(picked)
  <2> HIDE DEF Step
  <2> QED BY <1>5
<1> HIDE DEF picked
<1>7. /\ picked[0] = << >>
      /\ \A i \in 1 .. k : picked[i] = Append(picked[i - 1], BestOf(n, gain, Range(picked[i - 1])))
  BY <1>2, <1>6
<1>8. \A i \in 0 .. k : Good[i] = Chosen(n, gain, i)
  OBVIOUS
<1> HIDE DEF Good, Step
<1>9. \A i \in 1 .. k : picked[i - 1] \in Good[i - 1] => picked[i] \in Good[i]
  BY <1>4, <1>7
<1>10. \A i \in 0 .. k : picked[i] \in Good[i]
  BY <1>2, <1>3, <1>7, <1>9, RoundsKeep
<1> QED BY <1>1, <1>2, <1>8, <1>10

\* The candidates at places chosen once each.
LEMMA PlacesTaken ==
    ASSUME NEW hits, Listing(hits), NEW order, Once(order, 1 .. Len(hits))
    PROVE  LET t == [i \in DOMAIN order |-> hits[order[i]]]
           IN /\ Listing(t) /\ Len(t) = Len(order) /\ ChunksOf(t) \subseteq ChunksOf(hits)
              /\ Len(order) = Len(hits) => ChunksOf(t) = ChunksOf(hits)
              /\ Len(order) > 0 => t # << >> /\ Head(t) = hits[order[1]]
<1> DEFINE t == [i \in DOMAIN order |-> hits[order[i]]]
           m == Len(order)
<1>1. /\ m \in Nat /\ DOMAIN order = 1 .. m /\ order \in Seq(1 .. Len(hits))
      /\ \A i, j \in 1 .. m : order[i] = order[j] => i = j
  BY OnceIs
<1>2. \A i \in 1 .. m : order[i] \in 1 .. Len(hits)
  BY <1>1, ElementOfSeq
<1>3. /\ Len(hits) \in Nat /\ DOMAIN hits = 1 .. Len(hits) /\ hits \in Seq(PHit)
      /\ \A i, j \in 1 .. Len(hits) : hits[i].chunk = hits[j].chunk => i = j
      /\ IsFiniteSet(ChunksOf(hits)) /\ Cardinality(ChunksOf(hits)) = Len(hits)
  BY ListingIs
<1>4. \A i \in 1 .. Len(hits) : hits[i] \in PHit
  BY <1>3, ElementOfSeq
<1>5. t \in [1 .. m -> PHit] /\ \A i \in 1 .. m : t[i] = hits[order[i]]
  BY <1>1, <1>2, <1>4
<1> HIDE DEF t, m
<1>6. t \in Seq(PHit) /\ Len(t) = m /\ DOMAIN t = 1 .. m
  BY <1>1, <1>5, FunctionIsList
<1>7. Listing(t)
  <2> SUFFICES ASSUME NEW i \in 1 .. m, NEW j \in 1 .. m, t[i].chunk = t[j].chunk PROVE i = j
    BY <1>6 DEF Listing
  <2>1. hits[order[i]].chunk = hits[order[j]].chunk
    BY <1>5
  <2>2. order[i] = order[j]
    BY <1>2, <1>3, <2>1
  <2> QED BY <1>1, <2>2
<1>8. ChunksOf(t) \subseteq ChunksOf(hits)
  BY <1>2, <1>3, <1>5, <1>6 DEF ChunksOf
<1>9. m = Len(hits) => ChunksOf(t) = ChunksOf(hits)
  <2>1. Cardinality(ChunksOf(t)) = m
    BY <1>6, <1>7, ListingIs
  <2> QED BY <1>3, <1>8, <2>1, FS_Subset
<1>10. m > 0 => t # << >> /\ Head(t) = hits[order[1]]
  <2> SUFFICES ASSUME m > 0 PROVE t # << >> /\ Head(t) = hits[order[1]]
    OBVIOUS
  <2>1. 1 \in 1 .. m /\ t # << >>
    BY <1>1, <1>6, EmptySeq
  <2> QED BY <1>5, <1>6, <2>1
<1> QED BY <1>6, <1>7, <1>8, <1>9, <1>10 DEF t, m

\* What a cut may do: a first part, all of it when less than k would be left.
LEMMA AutocutIs ==
    ASSUME NEW hits, Listing(hits), NEW k \in Nat, Len(hits) > 1
    PROVE  LET t == Autocut(hits, Max({MinKeep, k}))
           IN /\ t \in Seq(PHit) /\ PartOf(t, hits) /\ t # << >> /\ Head(t) = Head(hits)
              /\ Len(t) < k => t = hits
<1> DEFINE t == Autocut(hits, Max({MinKeep, k}))
           n == Len(hits)
           keep == Max({1, Max({MinKeep, k})})
           scan == IF Scan = 0 THEN n ELSE Min({Scan, n})
<1>1. /\ n \in Nat /\ n > 1 /\ hits \in Seq(PHit) /\ DOMAIN hits = 1 .. n
      /\ (hits = << >> <=> n = 0)
  BY ListingIs
<1>2. keep \in Nat /\ keep >= 1 /\ keep >= k
  <2>1. MinKeep \in Nat
    BY RerankersAssumption
  <2>2. Max({MinKeep, k}) = (IF MinKeep <= k THEN k ELSE MinKeep)
    BY <2>1, PairExtremes
  <2>3. Max({MinKeep, k}) \in Nat /\ Max({MinKeep, k}) >= k
    BY <2>1, <2>2
  <2> DEFINE top == Max({MinKeep, k})
  <2>4. keep = (IF 1 <= top THEN top ELSE 1)
    <3>1. top \in Int /\ 1 \in Int
      BY <2>3
    <3>2. keep = Max({1, top})
      OBVIOUS
    <3> HIDE DEF top, keep
    <3>3. Max({1, top}) = (IF 1 <= top THEN top ELSE 1)
      BY <3>1, PairExtremes
    <3> QED BY <3>2, <3>3
  <2> QED BY <2>3, <2>4
<1>3. scan \in Nat /\ scan <= n
  <2>1. Scan \in Nat
    BY RerankersAssumption
  <2>2. Min({Scan, n}) = (IF Scan <= n THEN Scan ELSE n)
    <3> HIDE DEF n
    <3>1. Scan \in Int /\ n \in Int
      BY <1>1, <2>1
    <3> QED BY <3>1, PairExtremes
  <2> QED BY <1>1, <2>1, <2>2
<1>4. t = hits \/ \E m \in keep .. scan - 1 : t = SubSeq(hits, 1, m)
  <2> DEFINE gap(i) == hits[i].score - hits[i + 1].score
             drops == {i \in 1 .. scan - 1 : gap(i) > 0}
             knees == {i \in keep .. scan - 1 :
                          gap(i) * Cardinality(drops) >= SumOver(drops, gap) * Sensitivity}
  <2>1. t = IF n <= keep \/ scan < 3 \/ drops = {} \/ knees = {} THEN hits
            ELSE SubSeq(hits, 1, Min(knees))
    BY DEF Autocut, SumOver
  <2>2. knees \subseteq keep .. scan - 1
    BY DEF SumOver
  <2> HIDE DEF knees, drops, keep, scan, t, n
  <2>3. knees # {} => Min(knees) \in knees
    <3>1. knees \in SUBSET Nat
      BY <1>2, <1>3, <2>2
    <3> QED BY <3>1, LeastIs
  <2> QED BY <2>1, <2>2, <2>3
<1> HIDE DEF keep, scan, t
<1>5. CASE t = hits
  BY <1>1, <1>5, PartSelf DEF t
<1>6. ASSUME NEW m \in keep .. scan - 1, t = SubSeq(hits, 1, m)
      PROVE  t \in Seq(PHit) /\ PartOf(t, hits) /\ t # << >> /\ Head(t) = Head(hits) /\ ~(Len(t) < k)
  <2>1. m \in 0 .. n /\ m >= 1 /\ m >= k /\ m \in Nat
    BY <1>1, <1>2, <1>3
  <2>2. /\ t \in Seq(PHit) /\ PartOf(t, hits) /\ Len(t) = m
        /\ \A i \in 1 .. m : t[i] = hits[i]
    BY <1>6, <2>1, PrefixPart
  <2>3. t # << >> /\ hits # << >>
    BY <1>1, <2>1, <2>2, EmptySeq
  <2>4. Head(t) = t[1] /\ Head(hits) = hits[1] /\ 1 \in 1 .. m
    BY <1>1, <2>1, <2>2, <2>3
  <2> QED BY <2>1, <2>2, <2>3, <2>4
<1> QED BY <1>4, <1>5, <1>6 DEF t

-----------------------------------------------------------------------------
(* The two choices that weigh relevance against what was chosen before.    *)

\* Similarities are integers.
LEMMA SimIs ==
    ASSUME NEW terms, NEW where, NEW hits, NEW a, NEW b, where[a] \in Int, where[b] \in Int,
           IsFiniteSet(terms[a]), IsFiniteSet(terms[b])
    PROVE  HitSim(terms, where, hits, a, b) \in Int
<1> DEFINE dense == \A c \in ChunksOf(hits) : where[c] # NotEmbedded
           apart == Max({where[a] - where[b], where[b] - where[a]})
           union == Cardinality(terms[a] \cup terms[b])
           common == Cardinality(terms[a] \cap terms[b])
<1>1. HitSim(terms, where, hits, a, b) =
          IF dense THEN Clamp(SimOne - 4 * apart, 0, SimOne)
          ELSE IF terms[a] = {} \/ terms[b] = {} THEN 0 ELSE (SimOne * common) \div union
  BY DEF HitSim
<1>2. Clamp(SimOne - 4 * apart, 0, SimOne) \in Int
  <2> DEFINE x == where[a] - where[b]
             y == where[b] - where[a]
  <2>1. x \in Int /\ y \in Int /\ apart = Max({x, y})
    OBVIOUS
  <2> HIDE DEF x, y
  <2>2. apart \in Int
    BY <2>1, PairExtremes
  <2> HIDE DEF apart
  <2> QED BY <2>2 DEF Clamp, SimOne
<1>3. common \in Nat /\ union \in Nat
  <2>1. IsFiniteSet(terms[a] \cap terms[b]) /\ IsFiniteSet(terms[a] \cup terms[b])
    BY FS_Subset, FS_Union
  <2> QED BY <2>1, FS_CardinalityType
<1>4. terms[a] # {} => union > 0
  <2>1. IsFiniteSet(terms[a] \cup terms[b])
    BY FS_Union
  <2>2. terms[a] # {} => terms[a] \cup terms[b] # {}
    OBVIOUS
  <2> QED BY <1>3, <2>1, <2>2, FS_EmptySet
<1> HIDE DEF dense, apart, union, common
<1>5. terms[a] # {} => (SimOne * common) \div union \in Int
  BY <1>3, <1>4 DEF SimOne
<1> QED BY <1>1, <1>2, <1>5

\* What a request's corpus and a listing give a similarity.
LEMMA SimAmong ==
    ASSUME NEW hits, Listing(hits), NEW terms, NEW where,
           \A c \in PChunks : IsFiniteSet(terms[c]) /\ where[c] \in Int,
           NEW i \in 1 .. Len(hits), NEW j \in 1 .. Len(hits)
    PROVE  HitSim(terms, where, hits, hits[i].chunk, hits[j].chunk) \in Int
<1>1. hits[i].chunk \in PChunks /\ hits[j].chunk \in PChunks
  BY ListingIs
<1> QED BY <1>1, SimIs

\* The greatest of 0 and finitely many integers is a number.
LEMMA PeakIs ==
    ASSUME NEW n \in Nat, NEW S \in SUBSET (1 .. n), NEW f, \A j \in S : f[j] \in Int
    PROVE  Max({0} \cup {f[j] : j \in S}) \in Nat
<1> DEFINE g == [j \in S |-> f[j]]
           V == {0} \cup {f[j] : j \in S}
<1>1. IsFiniteSet(DOMAIN g) /\ {f[j] : j \in S} = {g[j] : j \in DOMAIN g}
  <2>1. IsFiniteSet(1 .. n)
    BY NumbersUpTo
  <2>2. IsFiniteSet(S)
    BY <2>1, FS_Subset
  <2> QED BY <2>2
<1>2. IsFiniteSet({f[j] : j \in S})
  <2> HIDE DEF g
  <2> QED BY <1>1, ImageFinite
<1>3. IsFiniteSet(V)
  <2> DEFINE W == {f[j] : j \in S}
  <2> HIDE DEF W
  <2>1. IsFiniteSet({0}) /\ IsFiniteSet(W)
    BY <1>2, FS_Singleton DEF W
  <2>2. IsFiniteSet({0} \cup W)
    BY <2>1, FS_Union
  <2> QED BY <2>2 DEF W
<1>4. V \in SUBSET Int /\ 0 \in V
  OBVIOUS
<1> HIDE DEF V
<1>5. Max(V) \in Int /\ 0 <= Max(V)
  BY <1>3, <1>4, ExtremesAre
<1> QED BY <1>5 DEF V

\* A length that was asked for, 0 standing for all.
Wanted(k, n) == Min({IF k = 0 THEN n ELSE k, n})

\* How many the greedy refinements take: k, or all there are.
LEMMA WantedIs ==
    ASSUME NEW k \in Nat, NEW n \in Nat
    PROVE  Wanted(k, n) = (IF k = 0 THEN n ELSE Lesser(k, n)) /\ Wanted(k, n) \in 0 .. n
<1> DEFINE a == IF k = 0 THEN n ELSE k
<1>1. a \in Nat
  OBVIOUS
<1>2. Wanted(k, n) = Min({a, n})
  BY DEF Wanted
<1>3. Min({a, n}) = Lesser(a, n)
  <2> HIDE DEF a
  <2> QED BY <1>1, LesserIs
<1> QED BY <1>2, <1>3 DEF Lesser

\* What a greedy choice of k of the candidates is.
TakenBy(t, hits, k) ==
    /\ Listing(t) /\ ChunksOf(t) \subseteq ChunksOf(hits)
    /\ Len(t) < k => ChunksOf(t) = ChunksOf(hits)

\* A greedy choice of the list takes k of it, or all.
LEMMA GreedyTakes ==
    ASSUME NEW hits, Listing(hits), NEW k \in Nat,
           NEW gain \in [SUBSET (1 .. Len(hits)) -> [1 .. Len(hits) -> Int]]
    PROVE  LET order == Greedy(Len(hits), Wanted(k, Len(hits)), gain)
               t == [i \in DOMAIN order |-> hits[order[i]]]
           IN /\ TakenBy(t, hits, k)
              /\ hits # << >> => t # << >> /\ Head(t) = hits[BestOf(Len(hits), gain, {})]
<1> DEFINE n == Len(hits)
           w == Wanted(k, n)
           order == Greedy(n, w, gain)
           t == [i \in DOMAIN order |-> hits[order[i]]]
<1>1. n \in Nat /\ (hits = << >> <=> n = 0)
  BY ListingIs
<1>2. w = (IF k = 0 THEN n ELSE Lesser(k, n)) /\ w \in 0 .. n
  <2> HIDE DEF n
  <2> QED BY <1>1, WantedIs
<1>3. order \in Chosen(n, gain, w)
  <2> HIDE DEF w, n
  <2>1. gain \in [SUBSET (1 .. n) -> [1 .. n -> Int]]
    BY DEF n
  <2> QED BY <1>1, <1>2, <2>1, GreedyIs
<1> HIDE DEF order, w
<1>4. /\ Len(order) = w /\ Once(order, 1 .. n)
      /\ w > 0 => order[1] = BestOf(n, gain, {})
  BY <1>3 DEF Chosen
<1>5. /\ Listing(t) /\ Len(t) = w /\ ChunksOf(t) \subseteq ChunksOf(hits)
      /\ w = n => ChunksOf(t) = ChunksOf(hits)
      /\ w > 0 => t # << >> /\ Head(t) = hits[order[1]]
  BY <1>4, PlacesTaken
<1> HIDE DEF t
<1>6. w < k => w = n
  BY <1>1, <1>2 DEF Lesser
<1>7. hits # << >> => w > 0
  BY <1>1, <1>2 DEF Lesser
<1>8. TakenBy(t, hits, k)
  BY <1>5, <1>6 DEF TakenBy
<1>9. hits # << >> => t # << >> /\ Head(t) = hits[BestOf(n, gain, {})]
  BY <1>4, <1>5, <1>7
<1> QED BY <1>8, <1>9 DEF t, order, w

\* MMR takes k or all, and of a list in order the leader first: nothing chosen yet is similar to it.
LEMMA MmrIs ==
    ASSUME NEW hits, Listing(hits), Descends(hits), NEW k \in Nat, NEW terms, NEW where,
           \A c \in PChunks : IsFiniteSet(terms[c]) /\ where[c] \in Int
    PROVE  LET t == Mmr(hits, k, terms, where)
           IN TakenBy(t, hits, k) /\ (hits # << >> => t # << >> /\ Head(t) = Head(hits))
<1> DEFINE n == Len(hits)
           sim(i, j) == HitSim(terms, where, hits, hits[i].chunk, hits[j].chunk)
           peak(S, i) == Max({0} \cup {sim(i, j) : j \in S})
           gain == [S \in SUBSET (1 .. n) |-> [i \in 1 .. n |->
                      Lambda * Relevance(hits, i) * SimOne
                        - (10 - Lambda) * peak(S, i) * Spread(hits)]]
           order == Greedy(n, Wanted(k, n), gain)
           t == [i \in DOMAIN order |-> hits[order[i]]]
<1>1. n \in Nat /\ hits \in Seq(PHit) /\ DOMAIN hits = 1 .. n /\ (hits = << >> <=> n = 0)
  BY ListingIs
<1>2. Mmr(hits, k, terms, where) = t
  BY DEF Mmr, Wanted
<1>3. ASSUME NEW S \in SUBSET (1 .. n), NEW i \in 1 .. n PROVE peak(S, i) \in Nat
  <2> DEFINE f == [j \in 1 .. n |-> sim(i, j)]
  <2>1. \A j \in S : f[j] \in Int
    BY SimAmong
  <2>2. {sim(i, j) : j \in S} = {f[j] : j \in S}
    OBVIOUS
  <2> HIDE DEF f, sim
  <2>3. Max({0} \cup {f[j] : j \in S}) \in Nat
    <3> HIDE DEF n
    <3> QED BY <1>1, <2>1, PeakIs
  <2> QED BY <2>2, <2>3
<1>4. \A i \in 1 .. n : peak({}, i) = 0
  <2>1. ASSUME NEW i PROVE {0} \cup {sim(i, j) : j \in {}} = {0, 0}
    OBVIOUS
  <2>2. Max({0, 0}) = 0
    BY PairExtremes
  <2> HIDE DEF sim
  <2> QED BY <2>1, <2>2
<1>5. \A i \in 1 .. n : Relevance(hits, i) \in Nat /\ Spread(hits) \in Nat
  <2> SUFFICES ASSUME NEW i \in 1 .. n PROVE Relevance(hits, i) \in Nat /\ Spread(hits) \in Nat
    OBVIOUS
  <2>1. Len(hits) > 0
    BY <1>1
  <2> QED BY <2>1, ScoresAre
<1> HIDE DEF peak
<1>6. Lambda \in Nat /\ 10 - Lambda \in Nat
  BY RerankersAssumption
<1>7. gain \in [SUBSET (1 .. n) -> [1 .. n -> Int]]
  <2>1. ASSUME NEW S \in SUBSET (1 .. n), NEW i \in 1 .. n
        PROVE  Lambda * Relevance(hits, i) * SimOne - (10 - Lambda) * peak(S, i) * Spread(hits) \in Int
    <3>1. \A a, b, c, d, e \in Nat : a * b * 12 - c * d * e \in Int
      OBVIOUS
    <3>2. Relevance(hits, i) \in Nat /\ Spread(hits) \in Nat /\ peak(S, i) \in Nat
      BY <1>3, <1>5
    <3> QED BY <1>6, <3>1, <3>2 DEF SimOne
  <2> HIDE DEF n
  <2> QED BY <2>1
<1>8. TakenBy(t, hits, k) /\ (hits # << >> => t # << >> /\ Head(t) = hits[BestOf(n, gain, {})])
  <2> HIDE DEF gain
  <2> QED BY <1>7, GreedyTakes
<1>9. ASSUME hits # << >> PROVE BestOf(n, gain, {}) = 1
  <2> DEFINE b == BestOf(n, gain, {})
  <2>1. n > 0 /\ {} \in SUBSET (1 .. n) /\ {} # 1 .. n /\ 1 \in 1 .. n \ {} /\ 1 \in 1 .. n
    <3>1. n > 0 /\ n \in Nat
      BY <1>1, <1>9
    <3> HIDE DEF n
    <3>2. 1 \in 1 .. n
      BY <3>1
    <3> QED BY <3>1, <3>2
  <2>2. /\ b \in 1 .. n \ {}
        /\ \A j \in 1 .. n \ {} : gain[{}][b] > gain[{}][j] \/ (gain[{}][b] = gain[{}][j] /\ b <= j)
    <3> HIDE DEF gain, n
    <3> QED BY <1>1, <1>7, <2>1, BestOfIs
  <2> HIDE DEF b
  <2>3. b \in 1 .. n /\ b \in Nat /\ b >= 1
    BY <1>1, <2>2
  <2>4. ASSUME NEW i \in 1 .. n PROVE gain[{}][i] = Lambda * Relevance(hits, i) * 12
    <3>1. gain[{}][i] = Lambda * Relevance(hits, i) * SimOne - (10 - Lambda) * peak({}, i) * Spread(hits)
      OBVIOUS
    <3>2. peak({}, i) = 0 /\ Spread(hits) \in Nat /\ Relevance(hits, i) \in Nat
      BY <1>4, <1>5
    <3>3. (10 - Lambda) * peak({}, i) * Spread(hits) = 0
      BY <1>6, <3>2
    <3>4. Lambda * Relevance(hits, i) * SimOne \in Int
      BY <1>6, <3>2 DEF SimOne
    <3> HIDE DEF gain
    <3> QED BY <3>1, <3>3, <3>4 DEF SimOne
  <2>5. Relevance(hits, b) <= Relevance(hits, 1)
    <3>1. hits[b].score <= hits[1].score
      BY <1>1, <2>1, <2>3 DEF Descends
    <3>2. /\ hits[b].score \in Int /\ hits[1].score \in Int /\ Lowest(hits) \in Int
      <4>1. hits[b].score \in Int /\ hits[1].score \in Int
        BY <2>1, <2>3, ListingIs
      <4>2. Len(hits) > 0
        BY <2>1
      <4> QED BY <4>1, <4>2, ScoresAre
    <3> QED BY <3>1, <3>2 DEF Relevance
  <2>6. gain[{}][b] <= gain[{}][1] /\ gain[{}][b] \in Int /\ gain[{}][1] \in Int
    <3> DEFINE x == Relevance(hits, b)
               y == Relevance(hits, 1)
    <3>1. x \in Nat /\ y \in Nat /\ x <= y
      BY <1>5, <2>1, <2>3, <2>5
    <3>2. gain[{}][b] = Lambda * x * 12 /\ gain[{}][1] = Lambda * y * 12
      BY <2>1, <2>3, <2>4
    <3>3. \A l, u, v \in Nat : u <= v => l * u * 12 <= l * v * 12 /\ l * u * 12 \in Int /\ l * v * 12 \in Int
      OBVIOUS
    <3> HIDE DEF x, y, gain
    <3> QED BY <1>6, <3>1, <3>2, <3>3
  <2>7. b <= 1
    <3> HIDE DEF gain
    <3> QED BY <2>1, <2>2, <2>6
  <2> QED BY <2>3, <2>7 DEF b
<1>10. hits # << >> => hits[BestOf(n, gain, {})] = Head(hits)
  <2> HIDE DEF gain
  <2> QED BY <1>1, <1>9
<1> HIDE DEF t, gain
<1> QED BY <1>2, <1>8, <1>10

\* The sum of numbers is one.
LEMMA SumNat ==
    ASSUME NEW S, IsFiniteSet(S), NEW w \in [S -> Nat]
    PROVE  SumOf(w) \in Nat
<1>1. \A x \in S : w[x] = 0 \/ (x \in S /\ w[x] <= w[x])
  OBVIOUS
<1> QED BY <1>1, SumBound

\* Dartboard takes k or all.
LEMMA DartboardIs ==
    ASSUME NEW hits, Listing(hits), NEW k \in Nat, NEW terms, NEW where,
           \A c \in PChunks : IsFiniteSet(terms[c]) /\ where[c] \in Int
    PROVE  TakenBy(Dartboard(hits, k, terms, where), hits, k)
<1> DEFINE n == Len(hits)
           sim(i, j) == IF i = j THEN SimOne
                        ELSE HitSim(terms, where, hits, hits[i].chunk, hits[j].chunk)
           covered(i, S) == Max({0} \cup {sim(i, j) : j \in S})
           added(S, d) == [i \in 1 .. n |-> (1 + Relevance(hits, i)) * Max({0, sim(d, i) - covered(i, S)})]
           gain == [S \in SUBSET (1 .. n) |-> [d \in 1 .. n |->
                      Lambda * Relevance(hits, d) * SimOne + (10 - Lambda) * SumOf(added(S, d))]]
           order == Greedy(n, Wanted(k, n), gain)
           t == [i \in DOMAIN order |-> hits[order[i]]]
<1>1. n \in Nat
  BY ListingIs
<1>2. Dartboard(hits, k, terms, where) = t
  BY DEF Dartboard, Wanted, SumOver
<1>3. \A i, j \in 1 .. n : sim(i, j) \in Int
  <2> SUFFICES ASSUME NEW i \in 1 .. n, NEW j \in 1 .. n PROVE sim(i, j) \in Int
    OBVIOUS
  <2>1. HitSim(terms, where, hits, hits[i].chunk, hits[j].chunk) \in Int
    BY SimAmong
  <2> QED BY <2>1 DEF SimOne
<1>4. ASSUME NEW S \in SUBSET (1 .. n), NEW i \in 1 .. n PROVE covered(i, S) \in Nat
  <2> DEFINE f == [j \in 1 .. n |-> sim(i, j)]
  <2>1. \A j \in S : f[j] \in Int
    BY <1>3
  <2>2. {sim(i, j) : j \in S} = {f[j] : j \in S}
    OBVIOUS
  <2> HIDE DEF f, sim
  <2>3. Max({0} \cup {f[j] : j \in S}) \in Nat
    <3> HIDE DEF n
    <3> QED BY <1>1, <2>1, PeakIs
  <2> QED BY <2>2, <2>3
<1>5. \A i \in 1 .. n : Relevance(hits, i) \in Nat
  <2> SUFFICES ASSUME NEW i \in 1 .. n PROVE Relevance(hits, i) \in Nat
    OBVIOUS
  <2>1. Len(hits) > 0
    BY <1>1
  <2> QED BY <2>1, ScoresAre
<1> HIDE DEF covered, sim
<1>6. ASSUME NEW S \in SUBSET (1 .. n), NEW d \in 1 .. n PROVE SumOf(added(S, d)) \in Nat
  <2>1. ASSUME NEW i \in 1 .. n
        PROVE  (1 + Relevance(hits, i)) * Max({0, sim(d, i) - covered(i, S)}) \in Nat
    <3> DEFINE x == sim(d, i) - covered(i, S)
               y == 1 + Relevance(hits, i)
    <3>1. x \in Int /\ y \in Nat
      <4>1. sim(d, i) \in Int /\ Relevance(hits, i) \in Nat
        BY <1>3, <1>5
      <4>2. covered(i, S) \in Nat
        BY <1>4
      <4> QED BY <4>1, <4>2
    <3> HIDE DEF x, y
    <3>2. Max({0, x}) \in Nat
      <4>1. Max({0, x}) = (IF 0 <= x THEN x ELSE 0)
        BY <3>1, PairExtremes
      <4> QED BY <3>1, <4>1
    <3>3. y * Max({0, x}) \in Nat
      BY <3>1, <3>2
    <3> QED BY <3>3 DEF x, y
  <2>2. added(S, d) \in [1 .. n -> Nat]
    BY <2>1
  <2>3. IsFiniteSet(1 .. n)
    BY <1>1, NumbersUpTo
  <2> HIDE DEF added, n
  <2> QED BY <2>2, <2>3, SumNat
<1> HIDE DEF added
<1>7. Lambda \in Nat /\ 10 - Lambda \in Nat
  BY RerankersAssumption
<1>8. gain \in [SUBSET (1 .. n) -> [1 .. n -> Int]]
  <2>1. ASSUME NEW S \in SUBSET (1 .. n), NEW d \in 1 .. n
        PROVE  Lambda * Relevance(hits, d) * SimOne + (10 - Lambda) * SumOf(added(S, d)) \in Int
    <3>1. \A a, b, c, e \in Nat : a * b * 12 + c * e \in Int
      OBVIOUS
    <3> QED BY <1>5, <1>6, <1>7, <3>1 DEF SimOne
  <2> HIDE DEF n
  <2> QED BY <2>1
<1>9. TakenBy(t, hits, k)
  <2> HIDE DEF gain
  <2> QED BY <1>8, GreedyTakes
<1> HIDE DEF t
<1> QED BY <1>2, <1>9

-----------------------------------------------------------------------------
(* Fusing lists.                                                           *)

\* The sum of integers is one.
LEMMA SumInt ==
    ASSUME NEW S, IsFiniteSet(S), NEW w \in [S -> Int]
    PROVE  SumOf(w) \in Int
<1> DEFINE sum == CHOOSE g : IsSum(g, S, w)
           N == {n \in Nat : \A R \in SUBSET S : Cardinality(R) <= n => sum[R] \in Int}
<1>1. IsSum(sum, S, w)
  BY SumExists
<1>2. SumOf(w) = sum[S]
  <2>1. DOMAIN w = S
    OBVIOUS
  <2> QED BY <2>1 DEF SumOf, IsSum, SumStep, TakenOff
<1>3. \A R \in SUBSET S : sum[R] = SumStep(w, sum, R)
  <2> HIDE DEF sum
  <2> QED BY <1>1 DEF IsSum
<1> HIDE DEF sum
<1>4. \A R \in SUBSET S : IsFiniteSet(R) /\ Cardinality(R) \in Nat
  BY FS_Subset, FS_CardinalityType
<1>5. 0 \in N
  <2> SUFFICES ASSUME NEW R \in SUBSET S, Cardinality(R) <= 0 PROVE sum[R] \in Int
    OBVIOUS
  <2>1. R = {}
    BY <1>4, FS_EmptySet
  <2> QED BY <1>3, <2>1 DEF SumStep
<1>6. ASSUME NEW n \in Nat, n \in N PROVE n + 1 \in N
  <2> SUFFICES ASSUME NEW R \in SUBSET S, Cardinality(R) <= n + 1 PROVE sum[R] \in Int
    OBVIOUS
  <2>1. CASE R = {}
    BY <1>3, <2>1 DEF SumStep
  <2>2. CASE R # {}
    <3> DEFINE x == TakenOff(R)
    <3>1. x \in R
      BY <2>2 DEF TakenOff
    <3> HIDE DEF x
    <3>2. Cardinality(R \ {x}) = Cardinality(R) - 1
      BY <1>4, <3>1, FS_RemoveElement
    <3>3. Cardinality(R \ {x}) <= n /\ R \ {x} \in SUBSET S
      BY <1>4, <3>2
    <3>4. sum[R \ {x}] \in Int /\ w[x] \in Int
      BY <1>6, <3>1, <3>3
    <3>5. sum[R] = w[x] + sum[R \ {x}]
      BY <1>3, <2>2 DEF SumStep, x
    <3> QED BY <3>4, <3>5
  <2> QED BY <2>1, <2>2
<1>7. Nat \subseteq N
  <2> HIDE DEF N
  <2> QED BY <1>5, <1>6, Induction
<1>8. Cardinality(S) \in N /\ S \in SUBSET S
  BY <1>4, <1>7
<1> QED BY <1>2, <1>4, <1>8

\* A list of a retriever.
ListOf(l) ==
    /\ Listing(l.hits) /\ Descends(l.hits)
    /\ l.weight \in Nat /\ l.floor \in SUBSET Int
ListsAre(ls) == /\ IsFiniteSet(DOMAIN ls)
                /\ \A i \in DOMAIN ls : ListOf(ls[i])
AllListed(ls) == UNION {ChunksOf(ls[i].hits) : i \in DOMAIN ls}

\* Scores that no list can find fault with.
FairScores(score, ls) ==
    /\ DOMAIN score = AllListed(ls)
    /\ \A c \in AllListed(ls) : score[c] \in Int
    /\ \A a, b \in AllListed(ls) : Agreed(ls, a, b) => score[a] >= score[b]

\* What agreement means for one list.
LEMMA AgreedIs ==
    ASSUME NEW ls, ListsAre(ls), NEW a, NEW b, Agreed(ls, a, b),
           NEW i \in DOMAIN ls, b \in ChunksOf(ls[i].hits)
    PROVE  /\ a \in ChunksOf(ls[i].hits)
           /\ PlaceOf(ls[i].hits, a) <= PlaceOf(ls[i].hits, b)
           /\ ScoreIn(ls[i].hits, b) <= ScoreIn(ls[i].hits, a)
           /\ ScoreIn(ls[i].hits, b) \in Int /\ ScoreIn(ls[i].hits, a) \in Int
<1> DEFINE h == ls[i].hits
<1>1. Listing(h) /\ Descends(h)
  BY DEF ListsAre, ListOf
<1>2. a \in ChunksOf(h) /\ PlaceOf(h, a) <= PlaceOf(h, b)
  BY DEF Agreed
<1>3. b \in ChunksOf(h)
  OBVIOUS
<1> HIDE DEF h
<1>4. /\ PlaceOf(h, a) \in 1 .. Len(h) /\ PlaceOf(h, b) \in 1 .. Len(h)
      /\ ScoreIn(h, a) = h[PlaceOf(h, a)].score /\ ScoreIn(h, b) = h[PlaceOf(h, b)].score
      /\ ScoreIn(h, a) \in Int /\ ScoreIn(h, b) \in Int
  BY <1>1, <1>2, <1>3, PlaceIs
<1>5. h[PlaceOf(h, a)].score >= h[PlaceOf(h, b)].score
  <2>1. DOMAIN h = 1 .. Len(h)
    BY <1>1, ListingIs
  <2> QED BY <1>1, <1>2, <1>4, <2>1 DEF Descends
<1> QED BY <1>2, <1>4, <1>5 DEF h

\* A share that is none outside a list, and in it grows towards its head.
LEMMA SharesFair ==
    ASSUME NEW ls, ListsAre(ls), NEW S, IsFiniteSet(S), NEW score, NEW w,
           DOMAIN score = AllListed(ls),
           \A c \in AllListed(ls) : w[c] \in [S -> Nat] /\ score[c] = SumOf(w[c]),
           \A a, b \in AllListed(ls) : Agreed(ls, a, b) => \A i \in S : w[b][i] = 0 \/ w[b][i] <= w[a][i]
    PROVE  FairScores(score, ls)
<1>1. ASSUME NEW c \in AllListed(ls) PROVE score[c] \in Int
  <2>1. SumOf(w[c]) \in Nat
    BY SumNat
  <2> QED BY <2>1
<1>2. ASSUME NEW a \in AllListed(ls), NEW b \in AllListed(ls), Agreed(ls, a, b)
      PROVE  score[a] >= score[b]
  <2> DEFINE u == w[a]
             v == w[b]
  <2>1. u \in [S -> Nat] /\ v \in [S -> Nat] /\ \A i \in S : v[i] = 0 \/ (i \in S /\ v[i] <= u[i])
    BY <1>2
  <2>2. score[a] = SumOf(u) /\ score[b] = SumOf(v)
    OBVIOUS
  <2> HIDE DEF u, v
  <2>3. SumOf(u) \in Nat /\ SumOf(v) \in Nat /\ SumOf(v) <= SumOf(u)
    BY <2>1, SumBound
  <2> QED BY <2>2, <2>3
<1> QED BY <1>1, <1>2 DEF FairScores

\* Dividing by more gives no more.
LEMMA DivideMore ==
    ASSUME NEW p \in Nat, NEW a \in Nat \ {0}, NEW b \in Nat \ {0}, a <= b
    PROVE  p \div a \in Nat /\ p \div b \in Nat /\ p \div b <= p \div a
<1> DEFINE x == p \div a
           y == p \div b
<1>1. x \in Nat /\ y \in Nat
  OBVIOUS
<1>2. p < a * (x + 1)
  OBVIOUS
<1>3. b * y <= p
  OBVIOUS
<1> HIDE DEF x, y
<1>4. a * y <= b * y /\ a * y \in Nat /\ b * y \in Nat
  <2>1. \A c, d, e \in Nat : c <= d => c * e <= d * e /\ c * e \in Nat /\ d * e \in Nat
    OBVIOUS
  <2> QED BY <1>1, <2>1
<1>5. a * y < a * (x + 1) /\ a * (x + 1) \in Nat
  <2>1. a * (x + 1) \in Nat
    <3>1. \A c, d \in Nat : c * d \in Nat
      OBVIOUS
    <3> QED BY <1>1, <3>1
  <2> QED BY <1>2, <1>3, <1>4, <2>1
<1>6. y < x + 1
  <2>1. \A c, d \in Nat : \A e \in Nat \ {0} : e * c < e * d => c < d
    OBVIOUS
  <2> QED BY <1>1, <1>5, <2>1
<1> QED BY <1>1, <1>6 DEF x, y

\* Reciprocal ranks are fair: a better rank is a larger share.
LEMMA RrfFair ==
    ASSUME NEW ls, ListsAre(ls)
    PROVE  FairScores(RrfScores(ls), ls)
<1> DEFINE all == AllListed(ls)
           ranks == {RrfK + r : r \in 1 .. Cardinality(all)}
           P == ProductOf([x \in ranks |-> x])
           share(c, i) == IF c \in ChunksOf(ls[i].hits)
                          THEN ls[i].weight * (P \div (RrfK + PlaceOf(ls[i].hits, c)))
                          ELSE 0
           w == [c \in all |-> [i \in DOMAIN ls |-> share(c, i)]]
<1>1. RrfScores(ls) = [c \in all |-> SumOf([i \in DOMAIN ls |-> share(c, i)])]
  BY DEF RrfScores, SumOver, ProductOver, AllListed
<1> DEFINE score == [c \in all |-> SumOf([i \in DOMAIN ls |-> share(c, i)])]
<1>2. RrfK \in Nat
  BY FusionAssumption
<1>3. P \in Nat
  <2>1. IsFiniteSet(all) /\ Cardinality(all) \in Nat
    <3>1. all \subseteq PChunks
      <4>1. \A i \in DOMAIN ls : ChunksOf(ls[i].hits) \subseteq PChunks
        BY ListingIs DEF ListsAre, ListOf
      <4> QED BY <4>1 DEF AllListed
    <3> QED BY <3>1, PipelineAssumption, FS_Subset, FS_CardinalityType
  <2> DEFINE m == Cardinality(all)
             f == [r \in 1 .. m |-> RrfK + r]
  <2>2. IsFiniteSet(ranks)
    <3>1. IsFiniteSet(DOMAIN f) /\ ranks = {f[r] : r \in DOMAIN f}
      BY <2>1, NumbersUpTo
    <3> HIDE DEF f, ranks
    <3> QED BY <3>1, ImageFinite
  <2>3. \A x \in ranks : x \in Nat
    BY <1>2
  <2> HIDE DEF ranks
  <2>4. [x \in ranks |-> x] \in [ranks -> Nat]
    BY <2>3
  <2> QED BY <2>2, <2>4, ProductIs
<1> HIDE DEF P
<1>4. ASSUME NEW c, NEW i \in DOMAIN ls, c \in ChunksOf(ls[i].hits)
      PROVE  /\ RrfK + PlaceOf(ls[i].hits, c) \in Nat \ {0} /\ PlaceOf(ls[i].hits, c) \in Nat
             /\ P \div (RrfK + PlaceOf(ls[i].hits, c)) \in Nat /\ ls[i].weight \in Nat
  <2>1. Listing(ls[i].hits) /\ ls[i].weight \in Nat
    BY DEF ListsAre, ListOf
  <2>2. PlaceOf(ls[i].hits, c) \in 1 .. Len(ls[i].hits)
    BY <1>4, <2>1, PlaceIs
  <2>3. RrfK + PlaceOf(ls[i].hits, c) \in Nat \ {0} /\ PlaceOf(ls[i].hits, c) \in Nat
    BY <1>2, <2>2
  <2> DEFINE d == RrfK + PlaceOf(ls[i].hits, c)
  <2>4. P \div d \in Nat
    <3>1. d \in Nat \ {0}
      BY <2>3
    <3> HIDE DEF d
    <3> QED BY <1>3, <3>1
  <2> QED BY <2>1, <2>3, <2>4
<1>5. \A c : \A i \in DOMAIN ls : share(c, i) \in Nat
  <2> SUFFICES ASSUME NEW c, NEW i \in DOMAIN ls PROVE share(c, i) \in Nat
    OBVIOUS
  <2>1. CASE c \in ChunksOf(ls[i].hits)
    <3>1. \A x, y \in Nat : x * y \in Nat
      OBVIOUS
    <3> QED BY <1>4, <2>1, <3>1
  <2>2. CASE c \notin ChunksOf(ls[i].hits)
    BY <2>2
  <2> QED BY <2>1, <2>2
<1>6. ASSUME NEW a \in all, NEW b \in all, Agreed(ls, a, b), NEW i \in DOMAIN ls
      PROVE  share(b, i) = 0 \/ share(b, i) <= share(a, i)
  <2>1. CASE b \notin ChunksOf(ls[i].hits)
    BY <2>1
  <2>2. CASE b \in ChunksOf(ls[i].hits)
    <3> DEFINE x == RrfK + PlaceOf(ls[i].hits, a)
               y == RrfK + PlaceOf(ls[i].hits, b)
               g == ls[i].weight
    <3>1. a \in ChunksOf(ls[i].hits) /\ PlaceOf(ls[i].hits, a) <= PlaceOf(ls[i].hits, b)
      BY <1>6, <2>2, AgreedIs
    <3>2. x \in Nat \ {0} /\ y \in Nat \ {0} /\ x <= y /\ g \in Nat
      <4>1. x \in Nat \ {0} /\ PlaceOf(ls[i].hits, a) \in Nat
        BY <1>4, <3>1
      <4>2. y \in Nat \ {0} /\ PlaceOf(ls[i].hits, b) \in Nat /\ g \in Nat
        BY <1>4, <2>2
      <4>3. x <= y
        BY <1>2, <3>1, <4>1, <4>2
      <4> HIDE DEF x, y, g
      <4> QED BY <4>1, <4>2, <4>3
    <3>3. share(a, i) = g * (P \div x) /\ share(b, i) = g * (P \div y)
      BY <2>2, <3>1
    <3> HIDE DEF x, y, g
    <3>4. P \div x \in Nat /\ P \div y \in Nat /\ P \div y <= P \div x
      BY <1>3, <3>2, DivideMore
    <3>5. \A u, v, k \in Nat : u <= v => k * u <= k * v
      OBVIOUS
    <3>6. g * (P \div y) <= g * (P \div x)
      BY <3>2, <3>4, <3>5
    <3> QED BY <3>3, <3>6
  <2> QED BY <2>1, <2>2
<1> HIDE DEF share, all
<1>7. \A c \in all : w[c] \in [DOMAIN ls -> Nat] /\ score[c] = SumOf(w[c])
  BY <1>5
<1>8. \A a, b \in all : Agreed(ls, a, b) => \A i \in DOMAIN ls : w[b][i] = 0 \/ w[b][i] <= w[a][i]
  BY <1>6
<1>9. DOMAIN score = all /\ IsFiniteSet(DOMAIN ls)
  BY DEF ListsAre
<1> HIDE DEF w, score
<1>10. FairScores(score, ls)
  BY <1>7, <1>8, <1>9, SharesFair DEF all
<1> QED BY <1>1, <1>10 DEF score

\* The observed and the trimmed ceiling are scores of the list.
LEMMA CeilingIs ==
    ASSUME NEW hits, Listing(hits), Len(hits) > 0
    PROVE  RobustCeiling(hits) \in Int /\ Observed(hits) \in Int
<1> DEFINE n == Len(hits)
           score == [i \in 1 .. n |-> hits[i].score]
           tie == [i \in 1 .. n |-> i]
           desc == Sorted(1 .. n, score, tie)
           share == (TrimPercent * n) \div 100
           index == Min({n - 1, Max({1, share})})
<1>1. n \in Nat /\ n > 0 /\ DOMAIN hits = 1 .. n /\ \A i \in 1 .. n : hits[i].score \in Int
  BY ListingIs
<1>2. Max(ScoresOf(hits)) \in Int /\ Lowest(hits) \in Int
  BY ScoresAre
<1>3. RobustCeiling(hits) = IF n < RobustFrom THEN Max(ScoresOf(hits)) ELSE hits[desc[index + 1]].score
  BY <1>1 DEF RobustCeiling
<1>4. desc \in [1 .. n -> 1 .. n]
  <2> DEFINE B == 1 .. n
  <2>1. IsFiniteSet(B) /\ Cardinality(B) = n
    <3> HIDE DEF n
    <3> QED BY <1>1, NumbersUpTo
  <2>2. IsFiniteSet(B) /\ \A x \in B : score[x] \in Int /\ tie[x] \in Int
    BY <1>1, <2>1
  <2>3. \A x, y \in B : tie[x] = tie[y] => x = y
    OBVIOUS
  <2> HIDE DEF B, score, tie
  <2>4. Sorted(B, score, tie) \in [1 .. Cardinality(B) -> B]
    BY <2>2, <2>3, SortedIs
  <2> QED BY <2>1, <2>4 DEF B
<1>5. index + 1 \in 1 .. n
  <2>1. share \in Int
    <3>1. TrimPercent * n \in Nat
      <4>1. \A a, b \in Nat : a * b \in Nat
        OBVIOUS
      <4>2. TrimPercent \in Nat
        BY FusionAssumption
      <4> QED BY <1>1, <4>1, <4>2
    <3> DEFINE x == TrimPercent * n
    <3> HIDE DEF x
    <3>2. x \in Nat => x \div 100 \in Int
      OBVIOUS
    <3> QED BY <3>1, <3>2 DEF x
  <2> HIDE DEF share
  <2>2. Max({1, share}) = (IF 1 <= share THEN share ELSE 1)
    BY <2>1, PairExtremes
  <2> DEFINE top == Max({1, share})
  <2>3. top \in Int /\ top >= 1
    BY <2>1, <2>2
  <2>4. index = (IF n - 1 <= top THEN n - 1 ELSE top)
    <3>1. n - 1 \in Int /\ index = Min({n - 1, top})
      BY <1>1
    <3> DEFINE m == n - 1
    <3> HIDE DEF top, index
    <3>2. m \in Int /\ index = Min({m, top})
      BY <3>1
    <3> HIDE DEF m
    <3>3. Min({m, top}) = (IF m <= top THEN m ELSE top)
      BY <2>3, <3>2, PairExtremes
    <3> QED BY <3>2, <3>3 DEF m
  <2> HIDE DEF top, index, n
  <2>5. index \in Int /\ index >= 0 /\ index <= n - 1
    BY <1>1, <2>3, <2>4
  <2>6. index + 1 >= 1 /\ index + 1 <= n
    BY <1>1, <2>5
  <2> QED BY <1>1, <2>5, <2>6
<1> HIDE DEF desc, index
<1>6. hits[desc[index + 1]].score \in Int
  BY <1>1, <1>4, <1>5
<1>7. Observed(hits) = Lowest(hits)
  BY DEF Observed, Lowest
<1> QED BY <1>2, <1>3, <1>6, <1>7

\* The confidence is a fraction, its denominator positive.
LEMMA ConfidenceIs ==
    ASSUME NEW hits, Listing(hits)
    PROVE  Confidence(hits).num \in Int /\ Confidence(hits).den \in Nat
<1> DEFINE n == Len(hits)
           top == Max(ScoresOf(hits))
           span == top - Min(ScoresOf(hits))
           score == [i \in DOMAIN hits |-> hits[i].score]
<1>1. n \in Nat /\ DOMAIN hits = 1 .. n /\ \A i \in 1 .. n : hits[i].score \in Int
  BY ListingIs
<1>2. Confidence(hits) = IF n < 2 \/ span <= 0 THEN [num |-> 1, den |-> 2]
                         ELSE [num |-> n * top - SumOf(score), den |-> n * span]
  BY DEF Confidence, SumOver
<1>3. CASE n < 2 \/ span <= 0
  BY <1>2, <1>3
<1>4. CASE ~(n < 2 \/ span <= 0)
  <2>1. Confidence(hits).num = n * top - SumOf(score) /\ Confidence(hits).den = n * span
    BY <1>2, <1>4
  <2>2. top \in Int /\ Min(ScoresOf(hits)) \in Int
    <3>1. Len(hits) > 0
      BY <1>1, <1>4
    <3> QED BY <3>1, ScoresAre DEF Lowest
  <2>3. span \in Nat
    BY <1>4, <2>2
  <2>4. SumOf(score) \in Int
    <3>1. IsFiniteSet(DOMAIN hits)
      <4> HIDE DEF n
      <4> QED BY <1>1, NumbersUpTo
    <3>2. score \in [DOMAIN hits -> Int]
      BY <1>1
    <3> HIDE DEF score
    <3> QED BY <3>1, <3>2, SumInt
  <2>5. \A a \in Nat : \A b \in Int : a * b \in Int
    OBVIOUS
  <2>6. \A a, b \in Nat : a * b \in Nat
    OBVIOUS
  <2> HIDE DEF n, top, span, score
  <2>7. n * top \in Int /\ n * span \in Nat
    BY <1>1, <2>2, <2>3, <2>5, <2>6
  <2> QED BY <2>1, <2>4, <2>7
<1> QED BY <1>3, <1>4

\* The weights are never negative.
LEMMA AlphaFair ==
    ASSUME NEW ls, ListsAre(ls), NEW n \in Nat, DOMAIN ls = 1 .. n, Len(ls) = n,
           NEW adaptive \in BOOLEAN
    PROVE  \A i \in DOMAIN ls : AlphaWeights(ls, adaptive)[i] \in Nat
<1>1. CASE n # 2
  <2>1. AlphaWeights(ls, adaptive) = [i \in DOMAIN ls |-> ls[i].weight]
    BY <1>1 DEF AlphaWeights
  <2> QED BY <2>1 DEF ListsAre, ListOf
<1>2. CASE n = 2
  <2> DEFINE other == Confidence(ls[1].hits)
             mine == Confidence(ls[2].hits)
             den == IF adaptive THEN 10 * mine.den * other.den ELSE 10
             pull == Clamp(AdaptivePull, 0, 5)
             num == IF adaptive THEN Alpha * mine.den * other.den
                       + pull * (mine.num * other.den - other.num * mine.den) ELSE Alpha
             a == Clamp(num, 0, den)
  <2>1. AlphaWeights(ls, adaptive) = <<den - a, a>>
    BY <1>2 DEF AlphaWeights
  <2>2. /\ mine.num \in Int /\ mine.den \in Nat /\ other.num \in Int /\ other.den \in Nat
    <3>1. 1 \in DOMAIN ls /\ 2 \in DOMAIN ls
      BY <1>2
    <3>2. Listing(ls[1].hits) /\ Listing(ls[2].hits)
      BY <3>1 DEF ListsAre, ListOf
    <3> QED BY <3>2, ConfidenceIs
  <2>3. Alpha \in Int /\ pull \in Int
    BY FusionAssumption DEF Clamp
  <2> HIDE DEF mine, other, pull
  <2>4. den \in Nat
    <3>1. \A x, y \in Nat : 10 * x * y \in Nat
      OBVIOUS
    <3> QED BY <2>2, <3>1
  <2>5. num \in Int
    <3>1. \A p, q \in Int : p * q \in Int
      OBVIOUS
    <3>2. Alpha * mine.den * other.den \in Int
      BY <2>2, <2>3, <3>1
    <3>3. mine.num * other.den \in Int /\ other.num * mine.den \in Int
      BY <2>2, <3>1
    <3> DEFINE d == mine.num * other.den - other.num * mine.den
    <3>4. d \in Int
      BY <3>3
    <3> HIDE DEF d
    <3>5. pull * d \in Int
      BY <2>3, <3>1, <3>4
    <3>6. Alpha * mine.den * other.den + pull * d \in Int
      BY <3>2, <3>5
    <3> QED BY <2>3, <3>6 DEF d
  <2> HIDE DEF den, num
  <2>6. a \in Nat /\ den - a \in Nat
    BY <2>4, <2>5 DEF Clamp
  <2> HIDE DEF a
  <2>7. \A i \in 1 .. 2 : <<den - a, a>>[i] \in Nat
    BY <2>6
  <2> QED BY <1>2, <2>1, <2>7
<1> QED BY <1>1, <1>2

\* A blend of scores over ranges is fair, whatever the lower ends, when ranges and weights are not negative.
LEMMA BlendFair ==
    ASSUME NEW ls, ListsAre(ls), NEW lo, NEW range, NEW weight,
           \A i \in DOMAIN ls : ls[i].hits # << >> =>
              lo[i] \in Int /\ range[i] \in Nat /\ weight[i] \in Nat
    PROVE  FairScores(Blend(ls, lo, range, weight), ls)
<1> DEFINE full == {i \in DOMAIN ls : ls[i].hits # << >>}
           all == UNION {ChunksOf(ls[i].hits) : i \in full}
           norm(c, i) == Clamp(ScoreIn(ls[i].hits, c) - lo[i], 0, range[i])
           rest(i) == ProductOf([j \in full \ {i} |-> range[j]])
           share(c, i) == IF c \in ChunksOf(ls[i].hits) THEN weight[i] * norm(c, i) * rest(i) ELSE 0
           score == [c \in all |-> SumOf([i \in full |-> share(c, i)])]
           w == [c \in all |-> [i \in full |-> share(c, i)]]
<1>1. Blend(ls, lo, range, weight) = score
  BY DEF Blend, SumOver, ProductOver
<1>2. IsFiniteSet(full) /\ full \subseteq DOMAIN ls
  <2>1. IsFiniteSet(DOMAIN ls) /\ full \subseteq DOMAIN ls
    BY DEF ListsAre
  <2> HIDE DEF full
  <2> QED BY <2>1, FS_Subset
<1>3. all = AllListed(ls)
  <2>1. \A i \in DOMAIN ls : i \notin full => ChunksOf(ls[i].hits) = {}
    BY DEF ChunksOf
  <2>2. all \subseteq AllListed(ls)
    BY DEF AllListed
  <2>3. ASSUME NEW c \in AllListed(ls) PROVE c \in all
    <3>1. PICK i \in DOMAIN ls : c \in ChunksOf(ls[i].hits)
      BY DEF AllListed
    <3>2. i \in full
      BY <2>1, <3>1
    <3> HIDE DEF full
    <3> QED BY <3>1, <3>2
  <2> QED BY <2>2, <2>3
<1>4. \A i \in full : lo[i] \in Int /\ range[i] \in Nat /\ weight[i] \in Nat
  OBVIOUS
<1> HIDE DEF full
<1>5. \A i \in full : rest(i) \in Nat
  <2> SUFFICES ASSUME NEW i \in full PROVE rest(i) \in Nat
    OBVIOUS
  <2>1. [j \in full \ {i} |-> range[j]] \in [full \ {i} -> Nat]
    BY <1>4
  <2>2. IsFiniteSet(full \ {i})
    BY <1>2, FS_Subset
  <2> QED BY <2>1, <2>2, ProductIs
<1> HIDE DEF rest, all
<1>6. ASSUME NEW i \in full, NEW c \in ChunksOf(ls[i].hits)
      PROVE  ScoreIn(ls[i].hits, c) \in Int /\ norm(c, i) \in Nat
  <2>1. ScoreIn(ls[i].hits, c) \in Int
    <3>1. Listing(ls[i].hits)
      BY <1>2 DEF ListsAre, ListOf
    <3> QED BY <3>1, PlaceIs
  <2> QED BY <1>4, <2>1 DEF Clamp
<1>7. ASSUME NEW c, NEW i \in full PROVE share(c, i) \in Nat
  <2>1. CASE c \in ChunksOf(ls[i].hits)
    <3> DEFINE x == norm(c, i)
    <3>1. x \in Nat /\ weight[i] \in Nat /\ rest(i) \in Nat
      BY <1>4, <1>5, <1>6, <2>1
    <3>2. share(c, i) = weight[i] * x * rest(i)
      BY <2>1
    <3>3. \A p, q, s \in Nat : p * q * s \in Nat
      OBVIOUS
    <3> HIDE DEF x, share
    <3> QED BY <3>1, <3>2, <3>3
  <2>2. CASE c \notin ChunksOf(ls[i].hits)
    BY <2>2
  <2> QED BY <2>1, <2>2
<1>8. ASSUME NEW a \in all, NEW b \in all, Agreed(ls, a, b), NEW i \in full
      PROVE  share(b, i) = 0 \/ share(b, i) <= share(a, i)
  <2>1. CASE b \notin ChunksOf(ls[i].hits)
    BY <2>1
  <2>2. CASE b \in ChunksOf(ls[i].hits)
    <3> DEFINE x == norm(a, i)
               y == norm(b, i)
    <3>1. /\ a \in ChunksOf(ls[i].hits) /\ ScoreIn(ls[i].hits, b) <= ScoreIn(ls[i].hits, a)
          /\ ScoreIn(ls[i].hits, b) \in Int /\ ScoreIn(ls[i].hits, a) \in Int
      BY <1>2, <1>8, <2>2, AgreedIs
    <3>2. y <= x
      BY <1>4, <3>1 DEF Clamp
    <3>3. x \in Nat /\ y \in Nat /\ weight[i] \in Nat /\ rest(i) \in Nat
      BY <1>4, <1>5, <1>6, <2>2, <3>1
    <3>4. share(a, i) = weight[i] * x * rest(i) /\ share(b, i) = weight[i] * y * rest(i)
      BY <2>2, <3>1
    <3>5. \A p, q, u, v \in Nat : u <= v => p * u * q <= p * v * q
      <4> SUFFICES ASSUME NEW p \in Nat, NEW q \in Nat, NEW u \in Nat, NEW v \in Nat, u <= v
                   PROVE  p * u * q <= p * v * q
        OBVIOUS
      <4>1. p * u <= p * v /\ p * u \in Nat /\ p * v \in Nat
        OBVIOUS
      <4> DEFINE s == p * u
                 t == p * v
      <4>2. s <= t /\ s \in Nat /\ t \in Nat
        BY <4>1
      <4> HIDE DEF s, t
      <4>3. s * q <= t * q
        BY <4>2
      <4> QED BY <4>3 DEF s, t
    <3> HIDE DEF x, y, share
    <3> QED BY <3>2, <3>3, <3>4, <3>5
  <2> QED BY <2>1, <2>2
<1> HIDE DEF share
<1>9. \A c \in all : w[c] \in [full -> Nat] /\ score[c] = SumOf(w[c])
  BY <1>7
<1>10. \A a, b \in all : Agreed(ls, a, b) => \A i \in full : w[b][i] = 0 \/ w[b][i] <= w[a][i]
  BY <1>8
<1>11. DOMAIN score = all
  OBVIOUS
<1> HIDE DEF w, score
<1>12. FairScores(score, ls)
  BY <1>2, <1>3, <1>9, <1>10, <1>11, SharesFair
<1> QED BY <1>1, <1>12

\* Relative scores are fair.
LEMMA RsfFair ==
    ASSUME NEW ls, ListsAre(ls)
    PROVE  FairScores(RsfScores(ls), ls)
<1> DEFINE full == {i \in DOMAIN ls : ls[i].hits # << >>}
           flat(i) == RobustCeiling(ls[i].hits) <= Observed(ls[i].hits)
           lo == [i \in full |-> Observed(ls[i].hits) - (IF flat(i) THEN 1 ELSE 0)]
           range == [i \in full |-> IF flat(i) THEN 1 ELSE RobustCeiling(ls[i].hits) - lo[i]]
           weight == [i \in full |-> ls[i].weight]
<1>1. RsfScores(ls) = Blend(ls, lo, range, weight)
  BY DEF RsfScores
<1>2. ASSUME NEW i \in full PROVE lo[i] \in Int /\ range[i] \in Nat /\ weight[i] \in Nat
  <2>1. Listing(ls[i].hits) /\ ls[i].weight \in Nat /\ ls[i].hits # << >>
    BY DEF ListsAre, ListOf
  <2>2. Len(ls[i].hits) > 0
    BY <2>1, ListingIs
  <2>3. RobustCeiling(ls[i].hits) \in Int /\ Observed(ls[i].hits) \in Int
    BY <2>1, <2>2, CeilingIs
  <2> HIDE DEF full
  <2>4. lo[i] = Observed(ls[i].hits) - (IF flat(i) THEN 1 ELSE 0)
    OBVIOUS
  <2>5. range[i] = IF flat(i) THEN 1 ELSE RobustCeiling(ls[i].hits) - lo[i]
    OBVIOUS
  <2>6. weight[i] = ls[i].weight
    OBVIOUS
  <2> HIDE DEF lo, range, weight
  <2> QED BY <2>1, <2>3, <2>4, <2>5, <2>6
<1> HIDE DEF lo, range, weight
<1>3. FairScores(Blend(ls, lo, range, weight), ls)
  BY <1>2, BlendFair
<1> QED BY <1>1, <1>3

\* Convex combinations are fair, with weights that adapt or not.
LEMMA ConvexFair ==
    ASSUME NEW ls, ListsAre(ls), NEW n \in Nat, DOMAIN ls = 1 .. n, Len(ls) = n,
           NEW adaptive \in BOOLEAN
    PROVE  FairScores(ConvexScores(ls, adaptive), ls)
<1> DEFINE full == {i \in DOMAIN ls : ls[i].hits # << >>}
           lo == [i \in full |-> IF ls[i].floor = {} THEN Observed(ls[i].hits)
                                 ELSE CHOOSE m \in ls[i].floor : TRUE]
           range == [i \in full |-> Max({1, RobustCeiling(ls[i].hits) - lo[i]})]
           weight == AlphaWeights(ls, adaptive)
<1>1. ConvexScores(ls, adaptive) = Blend(ls, lo, range, weight)
  BY DEF ConvexScores
<1>2. ASSUME NEW i \in full PROVE lo[i] \in Int /\ range[i] \in Nat /\ weight[i] \in Nat
  <2>1. Listing(ls[i].hits) /\ ls[i].floor \in SUBSET Int /\ ls[i].hits # << >>
    BY DEF ListsAre, ListOf
  <2>2. Len(ls[i].hits) > 0
    BY <2>1, ListingIs
  <2>3. RobustCeiling(ls[i].hits) \in Int /\ Observed(ls[i].hits) \in Int
    BY <2>1, <2>2, CeilingIs
  <2>4. weight[i] \in Nat
    BY AlphaFair
  <2>5. ls[i].floor # {} => (CHOOSE m \in ls[i].floor : TRUE) \in Int
    BY <2>1
  <2> HIDE DEF full, weight
  <2>6. lo[i] \in Int
    BY <2>3, <2>5
  <2>7. range[i] = Max({1, RobustCeiling(ls[i].hits) - lo[i]})
    OBVIOUS
  <2> HIDE DEF lo, range
  <2> DEFINE x == RobustCeiling(ls[i].hits) - lo[i]
  <2>8. x \in Int /\ range[i] = Max({1, x})
    BY <2>3, <2>6, <2>7
  <2> HIDE DEF x
  <2>9. Max({1, x}) = (IF 1 <= x THEN x ELSE 1)
    BY <2>8, PairExtremes
  <2> QED BY <2>4, <2>6, <2>8, <2>9
<1> HIDE DEF lo, range, weight
<1>3. FairScores(Blend(ls, lo, range, weight), ls)
  BY <1>2, BlendFair
<1> QED BY <1>1, <1>3

\* A fusion lists what the lists list, best first, as far as it is asked to;
\* what the lists agree on it does not invert.
LEMMA FusedIs ==
    ASSUME NEW ls, ListsAre(ls), NEW n \in Nat, DOMAIN ls = 1 .. n, Len(ls) = n,
           NEW fusion \in {"rrf", "rsf", "convex", "adaptive"}, NEW tie \in TieOrders, NEW k \in Nat
    PROVE  LET t == Fused(ls, fusion, tie, k)
           IN /\ Listing(t) /\ ChunksOf(t) \subseteq AllListed(ls)
              /\ Cardinality(AllListed(ls)) \in Nat /\ Len(t) = Lesser(k, Cardinality(AllListed(ls)))
              /\ \A a, b \in ChunksOf(t) : Agreed(ls, a, b) => ScoreIn(t, a) >= ScoreIn(t, b)
<1> DEFINE score == CASE fusion = "rrf" -> RrfScores(ls)
                      [] fusion = "rsf" -> RsfScores(ls)
                      [] fusion = "convex" -> ConvexScores(ls, FALSE)
                      [] fusion = "adaptive" -> ConvexScores(ls, TRUE)
           by == IF fusion \in {"rrf", "rsf"} THEN tie ELSE [c \in DOMAIN tie |-> c]
           S == AllListed(ls)
           r == Ranked(S, score, by)
           t == Truncated(r, k)
<1>1. FairScores(score, ls)
  <2>1. CASE fusion = "rrf"
    BY <2>1, RrfFair
  <2>2. CASE fusion = "rsf"
    BY <2>2, RsfFair
  <2>3. CASE fusion = "convex"
    <3>1. score = ConvexScores(ls, FALSE)
      BY <2>3
    <3>2. FairScores(ConvexScores(ls, FALSE), ls)
      BY ConvexFair
    <3> HIDE DEF score
    <3> QED BY <3>1, <3>2
  <2>4. CASE fusion = "adaptive"
    <3>1. score = ConvexScores(ls, TRUE)
      BY <2>4
    <3>2. FairScores(ConvexScores(ls, TRUE), ls)
      BY ConvexFair
    <3> HIDE DEF score
    <3> QED BY <3>1, <3>2
  <2> HIDE DEF score
  <2> QED BY <2>1, <2>2, <2>3, <2>4
<1> HIDE DEF score
<1>2. /\ DOMAIN score = S /\ \A c \in S : score[c] \in Int
      /\ \A a, b \in S : Agreed(ls, a, b) => score[a] >= score[b]
  BY <1>1 DEF FairScores
<1>3. Fused(ls, fusion, tie, k) = t
  BY <1>2 DEF Fused, score
<1>4. S \in SUBSET PChunks
  <2>1. \A i \in DOMAIN ls : ChunksOf(ls[i].hits) \subseteq PChunks
    BY ListingIs DEF ListsAre, ListOf
  <2> QED BY <2>1 DEF AllListed
<1>5. (\A x \in S : by[x] \in Int) /\ \A x, y \in S : by[x] = by[y] => x = y
  <2>1. tie \in [PChunks -> Int] /\ \A x, y \in PChunks : tie[x] = tie[y] => x = y
    BY PipelineAssumption
  <2>2. PChunks \subseteq Nat
    BY PipelineAssumption
  <2>3. CASE fusion \in {"rrf", "rsf"}
    BY <1>4, <2>1, <2>3
  <2>4. CASE fusion \notin {"rrf", "rsf"}
    <3>1. by = [c \in PChunks |-> c]
      BY <2>1, <2>4
    <3> HIDE DEF by, S
    <3> QED BY <1>4, <2>2, <3>1
  <2> QED BY <2>3, <2>4
<1> HIDE DEF S, by
<1>6. \A x \in S : score[x] \in Int /\ by[x] \in Int
  BY <1>2, <1>5
<1>7. \A x, y \in S : by[x] = by[y] => x = y
  BY <1>5
<1>8. /\ Listing(r) /\ ChunksOf(r) = S /\ Len(r) = Cardinality(S) /\ Cardinality(S) \in Nat
      /\ \A i \in 1 .. Cardinality(S) : r[i].score = score[r[i].chunk]
  BY <1>4, <1>6, <1>7, RankedIs
<1> HIDE DEF r
<1>9. /\ t \in Seq(PHit) /\ PartOf(t, r) /\ Len(t) = Lesser(k, Len(r))
      /\ \A i \in 1 .. Lesser(k, Len(r)) : t[i] = r[i]
  BY <1>8, CutPart
<1> HIDE DEF t
<1>10. Listing(t) /\ ChunksOf(t) \subseteq ChunksOf(r)
  BY <1>8, <1>9, PartIs
<1>11. ASSUME NEW a \in ChunksOf(t) PROVE ScoreIn(t, a) = score[a] /\ a \in S
  <2>1. PlaceOf(t, a) \in 1 .. Len(t) /\ t[PlaceOf(t, a)].chunk = a /\ ScoreIn(t, a) = t[PlaceOf(t, a)].score
    BY <1>10, PlaceIs
  <2>2. PlaceOf(t, a) \in 1 .. Cardinality(S)
    BY <1>8, <1>9, <2>1 DEF Lesser
  <2> QED BY <1>8, <1>9, <1>10, <2>1, <2>2
<1>12. \A a, b \in ChunksOf(t) : Agreed(ls, a, b) => ScoreIn(t, a) >= ScoreIn(t, b)
  BY <1>2, <1>11
<1> QED BY <1>3, <1>8, <1>9, <1>10, <1>12 DEF S

-----------------------------------------------------------------------------
(* The lists of the retrievers.                                            *)

\* What BM25 matches, and what the index of vectors lets through.
Matched(query) == {c \in PChunks : ask.terms[c] \cap query # {}}
Reached == {c \in Embedded : Passes(c)}

\* A list of the best k of the chunks S.
ListsBest(t, S, k) ==
    /\ Listing(t) /\ Descends(t) /\ ChunksOf(t) \subseteq S
    /\ IsFiniteSet(S) /\ Cardinality(S) \in Nat /\ Len(t) = Lesser(k, Cardinality(S))
    /\ Cardinality(S) <= k => ChunksOf(t) = S

\* Ranking the chunks S and cutting at k lists the best of them.
LEMMA BestListed ==
    ASSUME NEW S \in SUBSET PChunks, NEW score, \A x \in S : score[x] \in Int,
           NEW tie \in TieOrders, NEW k \in Nat
    PROVE  ListsBest(Truncated(Ranked(S, score, tie), k), S, k)
<1>1. tie \in [PChunks -> Int] /\ \A x, y \in PChunks : tie[x] = tie[y] => x = y
  BY PipelineAssumption
<1>2. \A x \in S : score[x] \in Int /\ tie[x] \in Int
  BY <1>1
<1>3. \A x, y \in S : tie[x] = tie[y] => x = y
  BY <1>1
<1> DEFINE r == Ranked(S, score, tie)
           t == Truncated(r, k)
<1>4. /\ Listing(r) /\ ChunksOf(r) = S /\ Len(r) = Cardinality(S) /\ Cardinality(S) \in Nat
      /\ Descends(r)
  BY <1>2, <1>3, RankedIs
<1> HIDE DEF r
<1>5. /\ t \in Seq(PHit) /\ PartOf(t, r) /\ Len(t) = Lesser(k, Len(r))
      /\ Len(r) <= k => t = r
  BY <1>4, CutPart
<1>6. IsFiniteSet(S)
  BY PipelineAssumption, FS_Subset
<1> HIDE DEF t
<1>7. Listing(t) /\ ChunksOf(t) \subseteq ChunksOf(r) /\ Descends(t)
  BY <1>4, <1>5, PartIs
<1>8. ListsBest(t, S, k)
  BY <1>4, <1>5, <1>6, <1>7 DEF ListsBest
<1> QED BY <1>8 DEF t, r

\* What BM25 lists.
LEMMA LexicalIs ==
    ASSUME AskOk(ask), NEW query, NEW k \in Nat, NEW tie \in TieOrders
    PROVE  ListsBest(LexicalHits(query, k, tie), Matched(query), k)
<1> DEFINE score == [c \in PChunks |-> Cardinality(ask.terms[c] \cap query)]
           S == {c \in PChunks : score[c] > 0}
<1>1. ASSUME NEW c \in PChunks
      PROVE  score[c] \in Nat /\ (score[c] > 0 <=> ask.terms[c] \cap query # {})
  <2> DEFINE X == ask.terms[c] \cap query
  <2>1. IsFiniteSet(X)
    BY FS_Subset DEF AskOk
  <2>2. score[c] = Cardinality(X)
    OBVIOUS
  <2> HIDE DEF X, score
  <2>3. Cardinality(X) \in Nat /\ (Cardinality(X) = 0 <=> X = {})
    BY <2>1, FS_CardinalityType, FS_EmptySet
  <2>4. score[c] \in Nat /\ (score[c] > 0 <=> X # {})
    BY <2>2, <2>3
  <2> QED BY <2>4 DEF X
<1>2. LexicalHits(query, k, tie) = Truncated(Ranked(S, score, tie), k)
  BY DEF LexicalHits
<1>3. S = Matched(query)
  BY <1>1 DEF Matched
<1> HIDE DEF score
<1>4. S \in SUBSET PChunks /\ \A x \in S : score[x] \in Int
  BY <1>1
<1> HIDE DEF S
<1>5. ListsBest(Truncated(Ranked(S, score, tie), k), S, k)
  BY <1>4, BestListed
<1> QED BY <1>2, <1>3, <1>5

\* The cosine is a number.
LEMMA CosineIs ==
    ASSUME AskOk(ask), NEW c \in PChunks
    PROVE  Cosine(c) \in Int
<1> DEFINE a == ask.at[c] - ask.place
           b == ask.place - ask.at[c]
           m == Max({a, b})
<1>1. a \in Int /\ b \in Int
  BY DEF AskOk
<1>2. Cosine(c) = Clamp(SimOne - 4 * m, -SimOne, SimOne)
  BY DEF Cosine
<1> HIDE DEF a, b
<1>3. m \in Int
  BY <1>1, PairExtremes
<1> HIDE DEF m
<1> QED BY <1>2, <1>3 DEF Clamp, SimOne

\* What the index of vectors lists.
LEMMA DenseIs ==
    ASSUME AskOk(ask), NEW k \in Nat, NEW tie \in TieOrders
    PROVE  ListsBest(DenseHits(k, tie), Reached, k)
<1> DEFINE score == [c \in Embedded |-> Cosine(c)]
           S == {c \in Embedded : Passes(c)}
<1>1. S \in SUBSET PChunks /\ \A x \in S : score[x] \in Int
  BY CosineIs DEF Embedded
<1>2. DenseHits(k, tie) = Truncated(Ranked(S, score, tie), k)
  BY DEF DenseHits
<1>3. S = Reached
  BY DEF Reached
<1> HIDE DEF S, score
<1>4. ListsBest(Truncated(Ranked(S, score, tie), k), S, k)
  BY <1>1, BestListed
<1> QED BY <1>2, <1>3, <1>4

\* The pool is never narrower than the request.
LEMMA PoolIs ==
    ASSUME NEW k \in Nat
    PROVE  PoolOf(k) \in Nat /\ PoolOf(k) >= k
<1>1. CandidateK \in Nat /\ 4 * k \in Nat
  BY PipelineAssumption
<1> DEFINE b == 4 * k
<1>2. b \in Nat /\ b >= k
  BY <1>1
<1>3. PoolOf(k) = Max({CandidateK, b})
  BY DEF PoolOf
<1> HIDE DEF b
<1>4. Max({CandidateK, b}) = (IF CandidateK <= b THEN b ELSE CandidateK)
  BY <1>1, <1>2, PairExtremes
<1> QED BY <1>1, <1>2, <1>3, <1>4

\* The lists that hybrid retrieval fuses.
LexicalList(tie) ==
    [hits |-> LexicalHits(words, PoolOf(ask.k), tie), weight |-> 1, floor |-> {0}]
DenseList(tie) ==
    [hits |-> DenseHits(PoolOf(ask.k), tie), weight |-> 1, floor |-> {-SimOne}]
Got(tie) == IF ask.embedder = "works" THEN <<LexicalList(tie), DenseList(tie)>>
            ELSE <<LexicalList(tie)>>

\* They are lists of findable chunks, and with no filter of enough of them.
LEMMA GotIs ==
    ASSUME AskOk(ask), NEW tie \in TieOrders
    PROVE  /\ ListsAre(Got(tie)) /\ \E n \in Nat : DOMAIN Got(tie) = 1 .. n /\ Len(Got(tie)) = n
           /\ AllListed(Got(tie)) \subseteq Findable /\ IsFiniteSet(Findable)
           /\ (\A c \in PChunks : Passes(c)) =>
                 Lesser(ask.k, Cardinality(Findable))
                   <= Lesser(PoolOf(ask.k), Cardinality(AllListed(Got(tie))))
<1> DEFINE pool == PoolOf(ask.k)
           lex == LexicalHits(words, pool, tie)
           dense == DenseHits(pool, tie)
           L == LexicalList(tie)
           D == DenseList(tie)
           works == ask.embedder = "works"
           U == AllListed(Got(tie))
<1>1. ask.k \in Nat /\ pool \in Nat /\ pool >= ask.k
  BY PoolIs DEF AskOk
<1>2. L.hits = lex /\ L.weight = 1 /\ L.floor = {0}
  BY DEF LexicalList
<1>3. D.hits = dense /\ D.weight = 1 /\ D.floor = {-SimOne}
  BY DEF DenseList
<1>4. Got(tie) = IF works THEN <<L, D>> ELSE <<L>>
  BY DEF Got
<1> HIDE DEF pool
<1>5. ListsBest(lex, Matched(words), pool)
  BY <1>1, LexicalIs
<1>6. ListsBest(dense, Reached, pool)
  BY <1>1, DenseIs
<1> HIDE DEF lex, dense, L, D
<1>7. ListOf(L) /\ ListOf(D)
  BY <1>2, <1>3, <1>5, <1>6 DEF ListOf, ListsBest, SimOne
<1>8. /\ works => DOMAIN Got(tie) = 1 .. 2 /\ Len(Got(tie)) = 2 /\ Got(tie)[1] = L /\ Got(tie)[2] = D
      /\ ~works => DOMAIN Got(tie) = 1 .. 1 /\ Len(Got(tie)) = 1 /\ Got(tie)[1] = L
  BY <1>4
<1>9. ListsAre(Got(tie)) /\ \E n \in Nat : DOMAIN Got(tie) = 1 .. n /\ Len(Got(tie)) = n
  <2>1. CASE works
    <3>1. IsFiniteSet(1 .. 2)
      BY 2 \in Nat, NumbersUpTo
    <3>2. \A i \in 1 .. 2 : i = 1 \/ i = 2
      OBVIOUS
    <3> QED BY <1>7, <1>8, <2>1, <3>1, <3>2 DEF ListsAre
  <2>2. CASE ~works
    <3>1. IsFiniteSet(1 .. 1)
      BY 1 \in Nat, NumbersUpTo
    <3>2. \A i \in 1 .. 1 : i = 1
      OBVIOUS
    <3> QED BY <1>7, <1>8, <2>2, <3>1, <3>2 DEF ListsAre
  <2> QED BY <2>1, <2>2
<1>10. U = ChunksOf(lex) \cup (IF works THEN ChunksOf(dense) ELSE {})
  <2>1. CASE works
    <3>1. \A i : i \in 1 .. 2 <=> i = 1 \/ i = 2
      OBVIOUS
    <3> QED BY <1>2, <1>3, <1>8, <2>1, <3>1 DEF AllListed
  <2>2. CASE ~works
    <3>1. \A i : i \in 1 .. 1 <=> i = 1
      OBVIOUS
    <3> QED BY <1>2, <1>3, <1>8, <2>2, <3>1 DEF AllListed
  <2> QED BY <2>1, <2>2
<1>11. /\ Findable = Matched(words) \cup (IF works THEN Embedded ELSE {})
       /\ Reached \subseteq Embedded /\ Embedded \subseteq PChunks
       /\ (\A c \in PChunks : Passes(c)) => Reached = Embedded
  BY DEF Findable, Matched, Reached, Embedded
<1> HIDE DEF U, works
<1>12. U \subseteq Findable /\ IsFiniteSet(Findable)
  <2>1. Findable \subseteq PChunks
    BY DEF Findable
  <2> QED BY <1>5, <1>6, <1>10, <1>11, <2>1, PipelineAssumption, FS_Subset DEF ListsBest
<1>13. /\ IsFiniteSet(U) /\ Cardinality(U) \in Nat /\ Cardinality(Findable) \in Nat
       /\ Cardinality(U) <= Cardinality(Findable)
  BY <1>12, FS_Subset, FS_CardinalityType
<1>14. ASSUME NEW t, Listing(t), ChunksOf(t) \subseteq U PROVE Len(t) <= Cardinality(U)
  BY <1>13, <1>14, ListingIs, FS_Subset
<1>15. ASSUME \A c \in PChunks : Passes(c)
       PROVE  Lesser(ask.k, Cardinality(Findable)) <= Lesser(pool, Cardinality(U))
  <2>1. CASE U = Findable
    BY <1>1, <1>13, <2>1 DEF Lesser
  <2>2. CASE U # Findable
    <3>1. ChunksOf(lex) # Matched(words) \/ (works /\ ChunksOf(dense) # Reached)
      BY <1>10, <1>11, <1>15, <2>2
    <3>2. pool <= Cardinality(U)
      <4>1. CASE ChunksOf(lex) # Matched(words)
        <5>1. Len(lex) = pool
          BY <1>1, <1>5, <4>1 DEF ListsBest, Lesser
        <5>2. Listing(lex) /\ ChunksOf(lex) \subseteq U
          BY <1>5, <1>10 DEF ListsBest
        <5> QED BY <1>14, <5>1, <5>2
      <4>2. CASE works /\ ChunksOf(dense) # Reached
        <5>1. Len(dense) = pool
          BY <1>1, <1>6, <4>2 DEF ListsBest, Lesser
        <5>2. Listing(dense) /\ ChunksOf(dense) \subseteq U
          BY <1>6, <1>10, <4>2 DEF ListsBest
        <5> QED BY <1>14, <5>1, <5>2
      <4> QED BY <3>1, <4>1, <4>2
    <3> QED BY <1>1, <1>13, <3>2 DEF Lesser
  <2> QED BY <2>1, <2>2
<1> QED BY <1>9, <1>12, <1>15 DEF U, pool

-----------------------------------------------------------------------------
(* The steps of the pipeline.                                              *)

\* What leaving a stage does to the order of the stages.
LEMMA Turned ==
    ASSUME PipelineInv, ask' = ask, NEW name \in StageNames, Leaves(name)
    PROVE  /\ AskOk(ask)' /\ FlowOk' /\ OrderOk /\ OrderOk' /\ Next(name)
           /\ Has(name) /\ ~Past(name) /\ pipePc = "running"
           /\ \A x : Has(x)' <=> Has(x)
           /\ \A x : Past(x)' <=> Past(x) \/ x = name
           /\ name # "hybrid" => UnanimityKept'
<1>1. AskOk(ask) /\ FlowOk /\ AskOk(ask')
  BY DEF PipelineInv
<1>2. /\ FlowOk' /\ Next(name) /\ Has(name) /\ ~Past(name)
      /\ \A x : Has(x)' <=> Has(x)
      /\ \A x : Past(x)' <=> Past(x) \/ x = name
  BY <1>1, StageLeft
<1>3. OrderOk
  BY <1>1, StageOrder
<1>4. OrderOk'
  <2>1. AskOk(ask)' /\ FlowOk'
    BY <1>1, <1>2
  <2> QED BY <2>1, StageOrder, PTL
<1>5. ASSUME name # "hybrid" PROVE ~Next("filter")'
  <2>1. CASE name = "prf"
    BY <1>2, <1>3, <1>4, <2>1 DEF OrderOk
  <2>2. CASE name # "prf"
    <3>1. Past("filter")'
      BY <1>2, <1>3, <1>5, <2>2 DEF OrderOk, Scored, Refined, StageNames
    <3> QED BY <1>4, <3>1 DEF OrderOk
  <2> QED BY <2>1, <2>2
<1>6. name # "hybrid" => UnanimityKept'
  BY <1>5 DEF UnanimityKept, Next
<1>7. pipePc = "running"
  BY DEF Leaves, AtStage
<1> QED BY <1>1, <1>2, <1>3, <1>4, <1>6, <1>7

\* Lists of the same chunks are of the same length, and one of fewer is not longer.
LEMMA SameChunks ==
    ASSUME NEW s, Listing(s), NEW t, Listing(t)
    PROVE  /\ ChunksOf(t) = ChunksOf(s) => Len(t) = Len(s)
           /\ ChunksOf(t) \subseteq ChunksOf(s) => Len(t) <= Len(s)
           /\ Len(s) \in Nat /\ Len(t) \in Nat
<1>1. /\ IsFiniteSet(ChunksOf(s)) /\ Cardinality(ChunksOf(s)) = Len(s) /\ Len(s) \in Nat
      /\ IsFiniteSet(ChunksOf(t)) /\ Cardinality(ChunksOf(t)) = Len(t) /\ Len(t) \in Nat
  BY ListingIs
<1> QED BY <1>1, FS_Subset

\* Scoring the candidates anew keeps who they are.
LEMMA ScoringStep ==
    ASSUME PipelineInv, ask' = ask, words' = words, fetched' = fetched, pipePc' # "done",
           NEW name \in {"feature", "custom", "cross"}, Leaves(name),
           Listing(cands'), ChunksOf(cands') = ChunksOf(cands), ranked' = cands',
           name = "feature" => Descends(cands')
    PROVE  PipelineInv'
<1>1. name \in StageNames
  BY DEF StageNames
<1>2. /\ AskOk(ask)' /\ FlowOk' /\ OrderOk /\ OrderOk' /\ Next(name) /\ UnanimityKept'
      /\ \A x : Has(x)' <=> Has(x)
      /\ \A x : Past(x)' <=> Past(x) \/ x = name
  BY <1>1, Turned
<1>3. ListsOk /\ FetchedOk /\ IsFiniteSet(words')
  BY DEF PipelineInv
<1>4. Past("filter") /\ Past("hybrid") /\ ~Scored /\ ~Refined
  BY <1>2 DEF OrderOk
<1>5. cands = ranked /\ ranked = fetched
  BY <1>3, <1>4 DEF ListsOk
<1>6. /\ Past("filter")' /\ Past("hybrid")' /\ Scored' /\ ~Refined'
      /\ Past("feature")' => name = "feature"
  BY <1>2, <1>4 DEF Scored, Refined
<1>7. ListsOk'
  BY <1>3, <1>5, <1>6 DEF ListsOk
<1>8. FetchedOk'
  <2>1. ~Past("topk")'
    BY <1>6 DEF Refined
  <2>2. ChunksOf(fetched') \ ChunksOf(cands') = {}
    BY <1>5
  <2>3. \A c : Passes(c)' <=> Passes(c)
    BY DEF Passes
  <2>4. Enough(fetched)' <=> Enough(fetched)
    BY DEF Enough, Findable, Embedded
  <2> QED BY <1>3, <1>4, <2>1, <2>2, <2>3, <2>4 DEF FetchedOk
<1>9. RefinedOk'
  <2>1. PartOf(cands', ranked')
    BY PartSelf
  <2>2. ~Past("stitch")' /\ ~Past("dedup")'
    BY <1>6 DEF Refined
  <2> QED BY <2>1, <2>2 DEF RefinedOk
<1> QED BY <1>2, <1>3, <1>7, <1>8, <1>9 DEF PipelineInv

\* A refinement keeps the leader, folds what it drops unless it keeps as many
\* as are asked for, and keeps the order unless it is there to change it.
LEMMA RefiningStep ==
    ASSUME PipelineInv, ask' = ask, words' = words, fetched' = fetched, ranked' = ranked,
           pipePc' # "done",
           NEW name \in {"mmr", "dartboard", "dedup", "autocut", "stitch", "topk"}, Leaves(name),
           NEW t, cands' = t, Listing(t), ChunksOf(t) \subseteq ChunksOf(cands),
           \/ Len(t) < ask.k => ChunksOf(t) = ChunksOf(cands)
           \/ ~Refined /\ \A c \in ChunksOf(cands) \ ChunksOf(t) : \E r \in ChunksOf(t) : FoldedInto(r, c),
           name # "dartboard" /\ cands # << >> /\ ask.k > 0 => t # << >> /\ Head(t) = Head(cands),
           name \notin {"mmr", "dartboard"} => PartOf(t, cands),
           name = "stitch" => \A a, b \in ChunksOf(t) : a # b => ~Adjoining(a, b),
           name = "dedup" /\ DupWindow = 0 => \A a, b \in ChunksOf(t) : a # b =>
                ~NearDuplicate(ask.terms, ask.at, fetched, a, b),
           name = "topk" => Len(t) <= ask.k
    PROVE  PipelineInv'
<1>1. name \in StageNames
  BY DEF StageNames
<1>2. /\ AskOk(ask)' /\ FlowOk' /\ OrderOk /\ OrderOk' /\ Next(name) /\ UnanimityKept'
      /\ \A x : Has(x)' <=> Has(x)
      /\ \A x : Past(x)' <=> Past(x) \/ x = name
  BY <1>1, Turned
<1>3. ListsOk /\ FetchedOk /\ RefinedOk /\ IsFiniteSet(words') /\ ask.k \in Nat
  BY DEF PipelineInv, AskOk
<1>4. Past("filter") /\ Past("hybrid") /\ Scored
  BY <1>2 DEF OrderOk, Scored
<1>5. /\ Past("filter")' /\ Past("hybrid")' /\ Scored' /\ Refined'
      /\ Past("feature")' <=> Past("feature")
  BY <1>2, <1>4 DEF Scored, Refined
<1>6. /\ Listing(cands) /\ Listing(fetched) /\ Listing(ranked)
      /\ ChunksOf(ranked) = ChunksOf(fetched) /\ ChunksOf(cands) \subseteq ChunksOf(fetched)
      /\ Past("feature") => Descends(ranked)
      /\ ~Refined => cands = ranked
  BY <1>3 DEF ListsOk
<1>7. ListsOk'
  BY <1>5, <1>6 DEF ListsOk
<1>8. /\ Len(cands) \in Nat /\ Len(t) \in Nat /\ Len(t) <= Len(cands)
      /\ ChunksOf(t) = ChunksOf(cands) => Len(t) = Len(cands)
  BY <1>6, SameChunks
<1>9. \A r, c : FoldedInto(r, c)' <=> FoldedInto(r, c)
  BY <1>2 DEF FoldedInto, Adjoining, NearDuplicate, HitSim, ChunksOf
<1>10. FetchedOk'
  <2>1. \A c : Passes(c)' <=> Passes(c)
    BY DEF Passes
  <2>2. Enough(fetched)' <=> Enough(fetched)
    BY DEF Enough, Findable, Embedded
  <2>3. /\ \A c \in ChunksOf(fetched) : Passes(c)
        /\ (\A c \in PChunks : Passes(c)) => Enough(fetched)
    BY <1>3, <1>4 DEF FetchedOk
  <2>4. ASSUME Len(t) < ask.k, NEW c \in ChunksOf(fetched) \ ChunksOf(t)
        PROVE  \E r \in ChunksOf(t) : FoldedInto(r, c)
    <3>1. CASE ChunksOf(t) = ChunksOf(cands)
      BY <1>3, <1>8, <2>4, <3>1 DEF FetchedOk
    <3>2. CASE ChunksOf(t) # ChunksOf(cands)
      BY <1>6, <2>4, <3>2
    <3> QED BY <3>1, <3>2
  <2>5. Past("topk")' => Len(t) <= ask.k
    <3>1. CASE name = "topk"
      BY <3>1
    <3>2. CASE Past("topk")
      BY <1>3, <1>8, <3>2 DEF FetchedOk
    <3> QED BY <1>2, <3>1, <3>2
  <2>6. Len(cands') < ask.k' => \A c \in ChunksOf(fetched') \ ChunksOf(cands') :
            \E r \in ChunksOf(cands') : FoldedInto(r, c)'
    BY <1>9, <2>4
  <2> QED BY <2>1, <2>2, <2>3, <2>5, <2>6 DEF FetchedOk
<1>11. RefinedOk'
  <2>1. ASSUME ranked # << >>, ask.k > 0, ~Past("dartboard")'
        PROVE  t # << >> /\ Head(t).chunk = Head(ranked).chunk
    <3>1. name # "dartboard" /\ ~Past("dartboard")
      BY <1>2, <2>1
    <3>2. cands # << >> /\ Head(cands).chunk = Head(ranked).chunk
      BY <1>3, <2>1, <3>1 DEF RefinedOk
    <3> QED BY <2>1, <3>1, <3>2
  <2>2. ASSUME ~Past("mmr")', ~Past("dartboard")' PROVE PartOf(t, ranked)
    <3>1. name \notin {"mmr", "dartboard"} /\ ~Past("mmr") /\ ~Past("dartboard")
      BY <1>2, <2>2
    <3>2. PartOf(t, cands) /\ PartOf(cands, ranked)
      BY <1>3, <3>1 DEF RefinedOk
    <3> QED BY <3>2, PartOfPart
  <2>3. ASSUME NEW a \in ChunksOf(t), NEW b \in ChunksOf(t), a # b
        PROVE  /\ Past("stitch")' => ~Adjoining(a, b)
               /\ Past("dedup")' /\ DupWindow = 0 => ~NearDuplicate(ask.terms, ask.at, fetched, a, b)
    <3>1. a \in ChunksOf(cands) /\ b \in ChunksOf(cands)
      BY <2>3
    <3>2. /\ Past("stitch") => ~Adjoining(a, b)
          /\ Past("dedup") /\ DupWindow = 0 => ~NearDuplicate(ask.terms, ask.at, fetched, a, b)
      BY <1>3, <2>3, <3>1 DEF RefinedOk
    <3> QED BY <1>2, <2>3, <3>2
  <2>4. \A a, b : Adjoining(a, b)' <=> Adjoining(a, b)
    BY DEF Adjoining
  <2> QED BY <2>1, <2>2, <2>3, <2>4 DEF RefinedOk
<1> QED BY <1>2, <1>3, <1>7, <1>10, <1>11 DEF PipelineInv

\* What a stage is given.
LEMMA Given ==
    ASSUME PipelineInv, NEW name \in StageNames, Next(name)
    PROVE  /\ AskOk(ask) /\ ask.k \in Nat /\ IsFiniteSet(words) /\ OrderOk
           /\ Listing(cands) /\ Listing(fetched) /\ Listing(ranked)
           /\ ChunksOf(ranked) = ChunksOf(fetched)
           /\ Past("feature") => Descends(ranked)
           /\ ~Refined => cands = ranked
           /\ \A c \in PChunks : IsFiniteSet(ask.terms[c]) /\ ask.at[c] \in Int
<1>1. AskOk(ask) /\ FlowOk /\ ListsOk /\ IsFiniteSet(words)
  BY DEF PipelineInv
<1>2. OrderOk
  BY <1>1, StageOrder
<1> QED BY <1>1, <1>2 DEF ListsOk, AskOk

\* The stages, one by one.
LEMMA FeatureStep ==
    ASSUME PipelineInv, FeatureRerank
    PROVE  PipelineInv'
<1>1. Leaves("feature") /\ Next("feature") /\ "feature" \in StageNames /\ pipePc = "running"
  BY DEF FeatureRerank, Leaves, AtStage, Next, StageNames
<1>2. Listing(cands) /\ IsFiniteSet(words)
  BY <1>1, Given
<1>3. PICK tie \in TieOrders : cands' = FeatureReranked(cands, words, ask.terms, tie)
  BY DEF FeatureRerank
<1>4. Listing(cands') /\ Descends(cands') /\ ChunksOf(cands') = ChunksOf(cands)
  BY <1>2, <1>3, FeatureRerankedIs
<1>5. /\ ask' = ask /\ words' = words /\ fetched' = fetched /\ ranked' = cands'
      /\ pipePc' # "done"
  BY <1>1 DEF FeatureRerank
<1> QED BY <1>1, <1>4, <1>5, ScoringStep

LEMMA CustomStep ==
    ASSUME PipelineInv, CustomRerank
    PROVE  PipelineInv'
<1>1. Leaves("custom") /\ Next("custom") /\ "custom" \in StageNames /\ pipePc = "running"
  BY DEF CustomRerank, Leaves, AtStage, Next, StageNames
<1>2. Listing(cands)
  BY <1>1, Given
<1>3. Listing(cands') /\ ChunksOf(cands') = ChunksOf(cands)
  <2>1. CASE cands' = cands
    BY <1>2, <2>1
  <2>2. CASE cands' # cands
    <3> DEFINE score == [i \in DOMAIN cands |-> JudgedBy[cands[i].chunk]]
    <3>1. PICK tie \in TieOrders : cands' = Resorted(cands, score, tie)
      BY <2>2 DEF CustomRerank
    <3>2. DOMAIN cands = 1 .. Len(cands) /\ \A i \in 1 .. Len(cands) : cands[i].chunk \in PChunks
      BY <1>2, ListingIs
    <3>3. JudgedBy \in [PChunks -> Int]
      BY PipelineAssumption
    <3>4. \A i \in 1 .. Len(cands) : score[i] \in Int
      BY <3>2, <3>3
    <3> HIDE DEF score
    <3> QED BY <1>2, <3>1, <3>4, ResortedIs
  <2> QED BY <2>1, <2>2
<1>4. /\ ask' = ask /\ words' = words /\ fetched' = fetched /\ ranked' = cands'
      /\ pipePc' # "done"
  BY <1>1 DEF CustomRerank
<1> QED BY <1>1, <1>3, <1>4, ScoringStep

LEMMA CrossEncodeStep ==
    ASSUME PipelineInv, CrossEncode
    PROVE  PipelineInv'
<1>1. Leaves("cross") /\ Next("cross") /\ "cross" \in StageNames /\ pipePc = "running"
  BY DEF CrossEncode, Leaves, AtStage, Next, StageNames
<1>2. Listing(cands) /\ Len(cands) \in Nat /\ CrossTopN \in Nat
  BY <1>1, Given, ListingIs, PipelineAssumption
<1>3. Listing(cands') /\ ChunksOf(cands') = ChunksOf(cands)
  <2>1. CASE cands' = cands
    BY <1>2, <2>1
  <2>2. CASE cands' # cands
    <3> DEFINE n == Min({CrossTopN, Len(cands)})
    <3>1. cands' = CrossReranked(cands, n, JudgedBy)
      BY <2>2 DEF CrossEncode
    <3>2. n = Lesser(CrossTopN, Len(cands))
      BY <1>2, LesserIs
    <3> HIDE DEF n
    <3>3. n \in 0 .. Len(cands)
      BY <1>2, <3>2 DEF Lesser
    <3> QED BY <1>2, <3>1, <3>3, CrossRerankedIs
  <2> QED BY <2>1, <2>2
<1>4. /\ ask' = ask /\ words' = words /\ fetched' = fetched /\ ranked' = cands'
      /\ pipePc' # "done"
  BY <1>1 DEF CrossEncode
<1> QED BY <1>1, <1>3, <1>4, ScoringStep

LEMMA MmrStep ==
    ASSUME PipelineInv, MmrStage
    PROVE  PipelineInv'
<1> DEFINE t == IF cands = << >> THEN cands ELSE Mmr(cands, ask.k, ask.terms, ask.at)
<1>1. Leaves("mmr") /\ Next("mmr") /\ "mmr" \in StageNames /\ pipePc = "running"
  BY DEF MmrStage, Refines, Leaves, AtStage, Next, StageNames
<1>2. /\ ask.k \in Nat /\ OrderOk /\ Listing(cands) /\ Listing(ranked)
      /\ Past("feature") => Descends(ranked)
      /\ ~Refined => cands = ranked
      /\ \A c \in PChunks : IsFiniteSet(ask.terms[c]) /\ ask.at[c] \in Int
  BY <1>1, Given
<1>3. Descends(cands)
  BY <1>1, <1>2 DEF OrderOk
<1>4. /\ TakenBy(Mmr(cands, ask.k, ask.terms, ask.at), cands, ask.k)
      /\ cands # << >> => /\ Mmr(cands, ask.k, ask.terms, ask.at) # << >>
                          /\ Head(Mmr(cands, ask.k, ask.terms, ask.at)) = Head(cands)
  BY <1>2, <1>3, MmrIs
<1>5. /\ ask' = ask /\ words' = words /\ fetched' = fetched /\ ranked' = ranked /\ cands' = t
      /\ pipePc' # "done"
  BY <1>1 DEF MmrStage, Refines
<1>6. /\ Listing(t) /\ ChunksOf(t) \subseteq ChunksOf(cands)
      /\ Len(t) < ask.k => ChunksOf(t) = ChunksOf(cands)
      /\ cands # << >> => t # << >> /\ Head(t) = Head(cands)
  BY <1>2, <1>4 DEF TakenBy
<1> HIDE DEF t
<1> QED BY <1>1, <1>5, <1>6, RefiningStep

LEMMA DartboardStep ==
    ASSUME PipelineInv, DartboardStage
    PROVE  PipelineInv'
<1> DEFINE t == IF cands = << >> THEN cands ELSE Dartboard(cands, ask.k, ask.terms, ask.at)
<1>1. Leaves("dartboard") /\ Next("dartboard") /\ "dartboard" \in StageNames /\ pipePc = "running"
  BY DEF DartboardStage, Refines, Leaves, AtStage, Next, StageNames
<1>2. /\ ask.k \in Nat /\ Listing(cands)
      /\ \A c \in PChunks : IsFiniteSet(ask.terms[c]) /\ ask.at[c] \in Int
  BY <1>1, Given
<1>3. TakenBy(Dartboard(cands, ask.k, ask.terms, ask.at), cands, ask.k)
  BY <1>2, DartboardIs
<1>4. /\ ask' = ask /\ words' = words /\ fetched' = fetched /\ ranked' = ranked /\ cands' = t
      /\ pipePc' # "done"
  BY <1>1 DEF DartboardStage, Refines
<1>5. /\ Listing(t) /\ ChunksOf(t) \subseteq ChunksOf(cands)
      /\ Len(t) < ask.k => ChunksOf(t) = ChunksOf(cands)
  BY <1>2, <1>3 DEF TakenBy
<1> HIDE DEF t
<1> QED BY <1>1, <1>4, <1>5, RefiningStep

LEMMA DedupStep ==
    ASSUME PipelineInv, DedupStage
    PROVE  PipelineInv'
<1> DEFINE t == Dedup(cands, ask.terms, ask.at)
<1>1. Leaves("dedup") /\ Next("dedup") /\ "dedup" \in StageNames /\ pipePc = "running"
  BY DEF DedupStage, Refines, Leaves, AtStage, Next, StageNames
<1>2. /\ OrderOk /\ Listing(cands) /\ ChunksOf(ranked) = ChunksOf(fetched)
      /\ ~Refined => cands = ranked
  BY <1>1, Given
<1>3. ~Refined /\ ChunksOf(cands) = ChunksOf(fetched)
  BY <1>1, <1>2 DEF OrderOk
<1>5. /\ PartOf(t, cands) /\ Listing(t) /\ ChunksOf(t) \subseteq ChunksOf(cands)
      /\ cands # << >> => t # << >> /\ Head(t) = Head(cands)
      /\ \A c \in ChunksOf(cands) \ ChunksOf(t) :
            \E r \in ChunksOf(t) : NearDuplicate(ask.terms, ask.at, cands, r, c)
      /\ DupWindow = 0 => \A a, b \in ChunksOf(t) : a # b =>
            ~NearDuplicate(ask.terms, ask.at, cands, a, b)
  BY <1>2, DedupIs
<1>6. /\ ask' = ask /\ words' = words /\ fetched' = fetched /\ ranked' = ranked /\ cands' = t
      /\ pipePc' # "done"
  BY <1>1 DEF DedupStage, Refines
<1>4. Has("dedup")
  BY <1>1, <1>6, Turned
<1> HIDE DEF t
<1>7. \A a, b : NearDuplicate(ask.terms, ask.at, cands, a, b)
                  <=> NearDuplicate(ask.terms, ask.at, fetched, a, b)
  BY <1>3, DuplicateAmong
<1>8. \A c \in ChunksOf(cands) \ ChunksOf(t) : \E r \in ChunksOf(t) : FoldedInto(r, c)
  BY <1>4, <1>5, <1>7 DEF FoldedInto
<1>9. DupWindow = 0 => \A a, b \in ChunksOf(t) : a # b =>
            ~NearDuplicate(ask.terms, ask.at, fetched, a, b)
  BY <1>5, <1>7
<1> QED BY <1>1, <1>3, <1>5, <1>6, <1>8, <1>9, RefiningStep

LEMMA AutocutStep ==
    ASSUME PipelineInv, AutocutStage
    PROVE  PipelineInv'
<1> DEFINE t == IF Len(cands) <= 1 THEN cands ELSE Autocut(cands, Max({MinKeep, ask.k}))
<1>1. Leaves("autocut") /\ Next("autocut") /\ "autocut" \in StageNames /\ pipePc = "running"
  BY DEF AutocutStage, Refines, Leaves, AtStage, Next, StageNames
<1>2. ask.k \in Nat /\ Listing(cands) /\ Len(cands) \in Nat
  BY <1>1, Given, ListingIs
<1>3. /\ ask' = ask /\ words' = words /\ fetched' = fetched /\ ranked' = ranked /\ cands' = t
      /\ pipePc' # "done"
  BY <1>1 DEF AutocutStage, Refines
<1>4. /\ t \in Seq(PHit) /\ PartOf(t, cands)
      /\ cands # << >> => t # << >> /\ Head(t) = Head(cands)
      /\ Len(t) < ask.k => t = cands
  <2>1. CASE Len(cands) <= 1
    BY <1>2, <2>1, PartSelf, ListingIs
  <2>2. CASE ~(Len(cands) <= 1)
    <3> DEFINE u == Autocut(cands, Max({MinKeep, ask.k}))
    <3>1. Len(cands) > 1
      BY <1>2, <2>2
    <3>2. /\ u \in Seq(PHit) /\ PartOf(u, cands) /\ u # << >> /\ Head(u) = Head(cands)
          /\ Len(u) < ask.k => u = cands
      BY <1>2, <3>1, AutocutIs
    <3>3. t = u
      BY <2>2
    <3> HIDE DEF u, t
    <3> QED BY <3>2, <3>3
  <2> QED BY <2>1, <2>2
<1> HIDE DEF t
<1>5. Listing(t) /\ ChunksOf(t) \subseteq ChunksOf(cands)
  BY <1>2, <1>4, PartIs
<1> QED BY <1>1, <1>3, <1>4, <1>5, RefiningStep

LEMMA StitchStep ==
    ASSUME PipelineInv, ParentStitch
    PROVE  PipelineInv'
<1> DEFINE t == StitchedList(cands)
<1>1. Leaves("stitch") /\ Next("stitch") /\ "stitch" \in StageNames /\ pipePc = "running"
  BY DEF ParentStitch, Refines, Leaves, AtStage, Next, StageNames
<1>2. OrderOk /\ Listing(cands)
  BY <1>1, Given
<1>3. ~Refined
  BY <1>1, <1>2 DEF OrderOk
<1>4. /\ ask' = ask /\ words' = words /\ fetched' = fetched /\ ranked' = ranked /\ cands' = t
      /\ pipePc' # "done"
  BY <1>1 DEF ParentStitch, Refines, StitchedList
<1>5. /\ PartOf(t, cands) /\ Listing(t) /\ ChunksOf(t) \subseteq ChunksOf(cands)
      /\ cands # << >> => t # << >> /\ Head(t) = Head(cands)
      /\ \A c \in ChunksOf(cands) \ ChunksOf(t) : \E r \in ChunksOf(t) : Adjoining(r, c)
      /\ \A a, b \in ChunksOf(t) : a # b => ~Adjoining(a, b)
  BY <1>2, StitchedIs
<1> HIDE DEF t
<1>6. Has("stitch")
  BY <1>1, <1>4, Turned
<1>7. \A c \in ChunksOf(cands) \ ChunksOf(t) : \E r \in ChunksOf(t) : FoldedInto(r, c)
  BY <1>5, <1>6 DEF FoldedInto
<1> QED BY <1>1, <1>3, <1>4, <1>5, <1>7, RefiningStep

LEMMA TopKStep ==
    ASSUME PipelineInv, TopK
    PROVE  PipelineInv'
<1> DEFINE t == Truncated(cands, ask.k)
<1>1. Leaves("topk") /\ Next("topk") /\ "topk" \in StageNames /\ pipePc = "running"
  BY DEF TopK, Refines, Leaves, AtStage, Next, StageNames
<1>2. /\ ask.k \in Nat /\ Listing(cands) /\ Len(cands) \in Nat
      /\ cands \in Seq(PHit) /\ (cands = << >> <=> Len(cands) = 0)
  BY <1>1, Given, ListingIs
<1>3. /\ ask' = ask /\ words' = words /\ fetched' = fetched /\ ranked' = ranked /\ cands' = t
      /\ pipePc' # "done"
  BY <1>1 DEF TopK, Refines
<1>4. /\ t \in Seq(PHit) /\ PartOf(t, cands) /\ Len(t) = Lesser(ask.k, Len(cands))
      /\ \A i \in 1 .. Lesser(ask.k, Len(cands)) : t[i] = cands[i]
      /\ Len(cands) <= ask.k => t = cands
  BY <1>2, CutPart
<1> HIDE DEF t
<1>5. Listing(t) /\ ChunksOf(t) \subseteq ChunksOf(cands)
  BY <1>2, <1>4, PartIs
<1>6. Len(t) <= ask.k /\ (Len(t) < ask.k => t = cands)
  BY <1>2, <1>4 DEF Lesser
<1>7. ASSUME cands # << >>, ask.k > 0 PROVE t # << >> /\ Head(t) = Head(cands)
  <2>1. Len(t) > 0 /\ 1 \in 1 .. Lesser(ask.k, Len(cands))
    BY <1>2, <1>4, <1>7 DEF Lesser
  <2>2. t # << >> /\ Head(t) = t[1] /\ Head(cands) = cands[1]
    BY <1>2, <1>4, <1>7, <2>1
  <2> QED BY <1>4, <2>1, <2>2
<1>8. Len(t) < ask.k => ChunksOf(t) = ChunksOf(cands)
  BY <1>6
<1> QED BY <1>1, <1>3, <1>4, <1>5, <1>6, <1>7, <1>8, RefiningStep

LEMMA FilterStep ==
    ASSUME PipelineInv, Filter
    PROVE  PipelineInv'
<1> DEFINE S == {i \in DOMAIN cands : Passes(cands[i].chunk)}
           t == Selected(cands, S)
<1>1. Leaves("filter") /\ Next("filter") /\ "filter" \in StageNames /\ pipePc = "running"
  BY DEF Filter, Leaves, AtStage, Next, StageNames
<1>2. /\ AskOk(ask) /\ IsFiniteSet(words) /\ OrderOk /\ Listing(cands)
      /\ ~Refined => cands = ranked
  BY <1>1, Given
<1>3. /\ ask' = ask /\ words' = words /\ cands' = t /\ fetched' = t /\ ranked' = t
      /\ pipePc' # "done"
  BY <1>1 DEF Filter
<1>4. /\ AskOk(ask)' /\ FlowOk' /\ OrderOk' /\ UnanimityKept'
      /\ \A x : Past(x)' <=> Past(x) \/ x = "filter"
  BY <1>1, <1>3, Turned
<1>5. /\ Past("hybrid") /\ ~Scored /\ ~Refined
      /\ Past("hybrid")' /\ ~Scored' /\ ~Refined'
  BY <1>1, <1>2, <1>4 DEF OrderOk, Scored, Refined
<1>6. FetchedOk /\ ListsOk
  BY DEF PipelineInv
<1>7. /\ t \in Seq(PHit) /\ PartOf(t, cands) /\ ChunksOf(t) = {cands[i].chunk : i \in S}
  BY <1>2, ChosenPart
<1>8. /\ \A c \in ChunksOf(t) : Passes(c)
      /\ (\A c \in PChunks : Passes(c)) => ChunksOf(t) = ChunksOf(cands)
  <2>1. \A i \in DOMAIN cands : cands[i].chunk \in PChunks
    BY <1>2, ListingIs
  <2> HIDE DEF t
  <2> QED BY <1>7, <2>1 DEF ChunksOf
<1> HIDE DEF t, S
<1>9. Listing(t)
  BY <1>2, <1>7, PartIs
<1>10. PartOf(t, t)
  BY <1>9, PartSelf
<1>11. ListsOk'
  BY <1>3, <1>5, <1>9 DEF ListsOk, Scored, Refined
<1>12. FetchedOk'
  <2>1. ~Past("topk")'
    BY <1>5 DEF Refined
  <2>2. \A c : Passes(c)' <=> Passes(c)
    BY <1>3 DEF Passes
  <2>3. ASSUME \A c \in PChunks : Passes(c) PROVE Enough(fetched)'
    <3>1. Enough(fetched) /\ fetched = cands
      BY <1>5, <1>6, <2>3 DEF FetchedOk, ListsOk
    <3>2. ChunksOf(t) = ChunksOf(cands) /\ Len(t) = Len(cands)
      BY <1>2, <1>8, <1>9, <2>3, SameChunks
    <3> QED BY <1>3, <3>1, <3>2 DEF Enough, Findable, Embedded
  <2> QED BY <1>3, <1>8, <2>1, <2>2, <2>3 DEF FetchedOk
<1>13. RefinedOk'
  BY <1>3, <1>5, <1>10 DEF RefinedOk, Refined
<1> QED BY <1>2, <1>3, <1>4, <1>11, <1>12, <1>13 DEF PipelineInv

LEMMA HybridStep ==
    ASSUME PipelineInv, HybridRetrieve
    PROVE  PipelineInv'
<1>1. Leaves("hybrid") /\ Next("hybrid") /\ "hybrid" \in StageNames /\ pipePc = "running"
  BY DEF HybridRetrieve, Leaves, AtStage, Next, StageNames
<1>2. AskOk(ask) /\ IsFiniteSet(words) /\ OrderOk /\ ask.k \in Nat
  BY <1>1, Given
<1>3. PICK tie \in TieOrders :
        lists' = Got(tie) /\ cands' = Fused(Got(tie), ask.fusion, tie, PoolOf(ask.k))
  BY DEF HybridRetrieve, Got, LexicalList, DenseList
<1>4. /\ ask' = ask /\ words' = words /\ fetched' = cands' /\ ranked' = cands'
      /\ pipePc' # "done"
  BY <1>1 DEF HybridRetrieve
<1>5. /\ AskOk(ask)' /\ FlowOk' /\ OrderOk'
      /\ \A x : Past(x)' <=> Past(x) \/ x = "hybrid"
  BY <1>1, <1>4, Turned
<1>6. Past("hybrid")' /\ ~Past("filter")' /\ ~Scored' /\ ~Refined'
  BY <1>1, <1>2, <1>5 DEF OrderOk, Scored, Refined
<1> DEFINE ls == Got(tie)
           pool == PoolOf(ask.k)
           t == Fused(ls, ask.fusion, tie, pool)
<1>7. /\ ListsAre(ls) /\ \E n \in Nat : DOMAIN ls = 1 .. n /\ Len(ls) = n
      /\ AllListed(ls) \subseteq Findable /\ IsFiniteSet(Findable)
      /\ (\A c \in PChunks : Passes(c)) =>
            Lesser(ask.k, Cardinality(Findable)) <= Lesser(pool, Cardinality(AllListed(ls)))
  BY <1>2, GotIs
<1>8. pool \in Nat /\ ask.fusion \in {"rrf", "rsf", "convex", "adaptive"}
  BY <1>2, PoolIs DEF AskOk
<1> HIDE DEF ls, pool
<1>9. PICK n \in Nat : DOMAIN ls = 1 .. n /\ Len(ls) = n
  BY <1>7
<1>10. /\ Listing(t) /\ ChunksOf(t) \subseteq AllListed(ls)
       /\ Len(t) = Lesser(pool, Cardinality(AllListed(ls)))
       /\ \A a, b \in ChunksOf(t) : Agreed(ls, a, b) => ScoreIn(t, a) >= ScoreIn(t, b)
  BY <1>7, <1>8, <1>9, FusedIs
<1>11. cands' = t /\ lists' = ls
  BY <1>3 DEF ls, pool
<1> HIDE DEF t
<1>12. PartOf(t, t)
  BY <1>10, PartSelf
<1>13. ListsOk'
  BY <1>4, <1>6, <1>10, <1>11 DEF ListsOk, Scored, Refined
<1>14. FetchedOk'
  <2>1. ~Past("topk")'
    BY <1>6 DEF Refined
  <2>2. \A c : Passes(c)' <=> Passes(c)
    BY <1>4 DEF Passes
  <2>3. ASSUME \A c \in PChunks : Passes(c) PROVE Enough(fetched)'
    <3>1. ChunksOf(t) \subseteq Findable /\ Len(t) >= Lesser(ask.k, Cardinality(Findable))
      BY <1>7, <1>8, <1>10, <2>3, FS_CardinalityType, FS_Subset DEF Lesser
    <3>2. Findable' = Findable
      BY <1>4 DEF Findable, Embedded
    <3> QED BY <1>4, <1>11, <3>1, <3>2 DEF Enough
  <2> QED BY <1>4, <1>6, <1>11, <2>1, <2>2, <2>3 DEF FetchedOk
<1>15. RefinedOk'
  BY <1>4, <1>6, <1>11, <1>12 DEF RefinedOk, Refined
<1>16. UnanimityKept'
  BY <1>10, <1>11 DEF UnanimityKept
<1> QED BY <1>2, <1>4, <1>5, <1>13, <1>14, <1>15, <1>16 DEF PipelineInv

LEMMA PrfStep ==
    ASSUME PipelineInv, PrfExpand
    PROVE  PipelineInv'
<1>1. Leaves("prf") /\ Next("prf") /\ "prf" \in StageNames /\ pipePc = "running"
  BY DEF PrfExpand, Leaves, AtStage, Next, StageNames
<1>2. AskOk(ask) /\ IsFiniteSet(words) /\ OrderOk
  BY <1>1, Given
<1>3. /\ ask' = ask /\ cands' = cands /\ fetched' = fetched /\ ranked' = ranked
      /\ pipePc' # "done"
  BY <1>1 DEF PrfExpand
<1>4. /\ AskOk(ask)' /\ FlowOk' /\ OrderOk' /\ UnanimityKept'
      /\ \A x : Past(x)' <=> Past(x) \/ x = "prf"
  BY <1>1, <1>3, Turned
<1>5. /\ ~Past("hybrid") /\ ~Past("hybrid")' /\ ~Past("filter")' /\ ~Scored /\ ~Scored'
      /\ ~Refined /\ ~Refined'
  BY <1>1, <1>2, <1>4 DEF OrderOk, Scored, Refined
<1>6. ListsOk /\ FetchedOk /\ RefinedOk
  BY DEF PipelineInv
<1>7. IsFiniteSet(words')
  <2>1. PICK tie \in TieOrders :
          LET probe == LexicalHits(words, ProbeK, tie)
              seed == {probe[i].chunk : i \in 1 .. Min({FbDocs, Len(probe)})}
          IN \E S \in SUBSET (UNION {ask.terms[c] : c \in seed} \ words) : words' = words \cup S
    BY DEF PrfExpand
  <2> DEFINE probe == LexicalHits(words, ProbeK, tie)
             m == Min({FbDocs, Len(probe)})
             seed == {probe[i].chunk : i \in 1 .. m}
             all == UNION {ask.terms[c] : c \in PChunks}
  <2>2. ProbeK \in Nat /\ FbDocs \in Nat
    BY PipelineAssumption
  <2>3. Listing(probe)
    BY <1>2, <2>2, LexicalIs DEF ListsBest
  <2>4. PICK S \in SUBSET (UNION {ask.terms[c] : c \in seed} \ words) : words' = words \cup S
    BY <2>1
  <2> HIDE DEF probe
  <2>5. Len(probe) \in Nat /\ \A i \in 1 .. Len(probe) : probe[i].chunk \in PChunks
    BY <2>3, ListingIs
  <2>6. m = Lesser(FbDocs, Len(probe))
    BY <2>2, <2>5, LesserIs
  <2> HIDE DEF m
  <2>7. \A i \in 1 .. m : i \in 1 .. Len(probe)
    BY <2>2, <2>5, <2>6 DEF Lesser
  <2>8. seed \subseteq PChunks
    BY <2>5, <2>7
  <2> HIDE DEF seed
  <2>9. S \subseteq all
    BY <2>4, <2>8
  <2>10. IsFiniteSet({ask.terms[c] : c \in PChunks})
    <3> DEFINE f == [c \in PChunks |-> ask.terms[c]]
               T == {ask.terms[c] : c \in PChunks}
    <3>1. f \in Surjection(PChunks, T)
      BY DEF Surjection
    <3> QED BY <3>1, PipelineAssumption, FS_Surjection
  <2>11. IsFiniteSet(all)
    BY <1>2, <2>10, FS_UNION DEF AskOk
  <2> HIDE DEF all
  <2>12. IsFiniteSet(S)
    BY <2>9, <2>11, FS_Subset
  <2> QED BY <1>2, <2>4, <2>12, FS_Union
<1>8. ListsOk'
  BY <1>3, <1>4, <1>5, <1>6 DEF ListsOk
<1>9. FetchedOk'
  <2>1. cands = << >> /\ fetched = << >> /\ ChunksOf(fetched) = {}
    BY <1>5, <1>6 DEF ListsOk, ChunksOf
  <2>2. ~Past("topk")'
    BY <1>5 DEF Refined
  <2> QED BY <1>3, <1>5, <2>1, <2>2 DEF FetchedOk
<1>10. RefinedOk'
  <2>1. \A a, b : Adjoining(a, b)' <=> Adjoining(a, b)
    BY DEF Adjoining
  <2>2. \A x : x # "prf" => (Past(x)' <=> Past(x))
    BY <1>4
  <2>3. /\ ~Past("mmr") /\ ~Past("dartboard") /\ ~Past("stitch") /\ ~Past("dedup")
        /\ ~Past("stitch")' /\ ~Past("dedup")'
    BY <1>5 DEF Refined
  <2> QED BY <1>3, <1>6, <2>1, <2>2, <2>3 DEF RefinedOk
<1> QED BY <1>3, <1>4, <1>7, <1>8, <1>9, <1>10 DEF PipelineInv

\* What neither moves a stage nor a list keeps the invariant.
LEMMA StillStep ==
    ASSUME PipelineInv,
           UNCHANGED <<ask, stages, words, cands, lists, fetched, ranked>>,
           \/ pipePc' = pipePc
           \/ pipePc' = "done" /\ stages = << >>
    PROVE  PipelineInv'
<1>1. \A x : (Has(x)' <=> Has(x)) /\ (Past(x)' <=> Past(x))
  BY DEF Past, Has
<1>2. /\ AskOk(ask) /\ IsFiniteSet(words) /\ FlowOk /\ ListsOk /\ FetchedOk /\ RefinedOk
      /\ UnanimityKept /\ (pipePc = "done" => stages = << >>)
  BY DEF PipelineInv
<1>3. FlowOk'
  BY <1>2 DEF FlowOk, Rest, Course
<1>4. ListsOk'
  BY <1>1, <1>2 DEF ListsOk, Scored, Refined
<1>5. FetchedOk'
  <2>1. \A r, c : FoldedInto(r, c)' <=> FoldedInto(r, c)
    BY <1>1 DEF FoldedInto, Adjoining, NearDuplicate, HitSim, ChunksOf
  <2>2. \A c : Passes(c)' <=> Passes(c)
    BY DEF Passes
  <2>3. Enough(fetched)' <=> Enough(fetched)
    BY DEF Enough, Findable, Embedded
  <2> QED BY <1>1, <1>2, <2>1, <2>2, <2>3 DEF FetchedOk
<1>6. RefinedOk'
  <2>1. \A a, b : Adjoining(a, b)' <=> Adjoining(a, b)
    BY DEF Adjoining
  <2> QED BY <1>1, <1>2, <2>1 DEF RefinedOk
<1>7. UnanimityKept'
  <2>1. CASE ~Next("filter")
    BY <2>1 DEF UnanimityKept, Next
  <2>2. CASE Next("filter") /\ pipePc = "done"
    BY <1>2, <2>2 DEF Next
  <2>3. CASE Next("filter") /\ pipePc # "done"
    <3>1. ~AtStage("hybrid") /\ ~AtStage("prf")
      BY <2>3 DEF AtStage, Next
    <3> DEFINE Fair(c, l) == \A a, b \in ChunksOf(c) : Agreed(l, a, b) => ScoreIn(c, a) >= ScoreIn(c, b)
    <3>2. fetched = cands /\ ranked = cands => Fair(cands, lists)
      BY <1>2, <2>3, <3>1 DEF UnanimityKept, Next
    <3>3. fetched' = cands' /\ ranked' = cands' => Fair(cands', lists')
      <4> HIDE DEF Fair
      <4> QED BY <3>2
    <3> QED BY <3>3 DEF UnanimityKept
  <2> QED BY <2>1, <2>2, <2>3
<1> QED BY <1>2, <1>3, <1>4, <1>5, <1>6, <1>7 DEF PipelineInv

\* The invariant holds at the start.
LEMMA PipelineStarts ==
    ASSUME NEW inputs, \A a \in inputs : AskOk(a), PipelineInit(inputs)
    PROVE  PipelineInv
<1>1. /\ AskOk(ask) /\ stages = Course /\ words = ask.query
      /\ cands = << >> /\ fetched = << >> /\ ranked = << >> /\ pipePc = "running"
  BY DEF PipelineInit, Course
<1>2. Course \in Seq(StageNames)
  BY <1>1, CourseList
<1>3. FlowOk /\ \A x : ~Past(x)
  <2> DEFINE s == Course
  <2>1. s \in Seq(StageNames) /\ stages = s
    BY <1>1, <1>2
  <2>2. s = Rest(1) /\ 1 \in 1 .. Len(Course) + 1
    <3> HIDE DEF s
    <3>1. Len(s) \in Nat /\ s = [i \in 1 .. Len(s) |-> s[i]]
      BY <2>1, LenProperties
    <3> DEFINE u == [i \in 1 .. Len(s) - 1 + 1 |-> s[1 + i - 1]]
    <3>2. Len(s) - 1 + 1 = Len(s) /\ \A i \in 1 .. Len(s) : 1 + i - 1 = i
      BY <3>1
    <3>3. u = s
      BY <3>1, <3>2
    <3> QED BY <3>1, <3>3 DEF s, Rest
  <2>3. \A x : ~Past(x)
    BY <1>1 DEF Past, Has, Course
  <2> QED BY <2>1, <2>2, <2>3 DEF FlowOk
<1>4. Listing(<< >>) /\ ChunksOf(<< >>) = {} /\ PartOf(<< >>, << >>)
  <2>1. << >> \in Seq(PHit) /\ DOMAIN << >> = {}
    OBVIOUS
  <2>2. Listing(<< >>) /\ ChunksOf(<< >>) = {}
    BY <2>1 DEF Listing, ChunksOf
  <2> QED BY <2>2, PartSelf
<1>5. ~Scored /\ ~Refined /\ AskOk(ask)
  BY <1>1, <1>3 DEF Scored, Refined
<1>6. ListsOk
  BY <1>1, <1>3, <1>4, <1>5 DEF ListsOk
<1>7. FetchedOk
  BY <1>1, <1>3, <1>4 DEF FetchedOk
<1>8. RefinedOk
  BY <1>1, <1>3, <1>4 DEF RefinedOk
<1>9. UnanimityKept
  BY <1>1, <1>4 DEF UnanimityKept
<1>10. IsFiniteSet(words)
  BY <1>1 DEF AskOk
<1> QED BY <1>1, <1>3, <1>6, <1>7, <1>8, <1>9, <1>10 DEF PipelineInv

\* At the end of a run all the stages are past.
LEMMA AllPast ==
    ASSUME PipelineInv, pipePc = "done"
    PROVE  Past("topk") /\ Past("filter") /\ Past("hybrid")
<1>1. AskOk(ask) /\ FlowOk /\ stages = << >>
  BY DEF PipelineInv
<1>2. OrderOk
  BY <1>1, StageOrder
<1>3. Has("topk") /\ Has("filter")
  BY <1>2 DEF OrderOk
<1>4. Past("topk") /\ Past("filter")
  BY <1>1, <1>3 DEF Past
<1> QED BY <1>2, <1>4 DEF OrderOk

\* What the invariant says at the end of a run.
LEMMA AskedKept ==
    ASSUME PipelineInv
    PROVE  KeepsWhatWasAsked
<1> SUFFICES ASSUME pipePc = "done"
             PROVE  /\ Len(cands) <= ask.k /\ \A c \in ChunksOf(cands) : Passes(c)
                    /\ Len(cands) < ask.k =>
                         \A c \in ChunksOf(fetched) \ ChunksOf(cands) :
                            \E r \in ChunksOf(cands) : FoldedInto(r, c)
                    /\ ~Has("stitch") /\ ~Has("dedup") /\ (\A c \in PChunks : Passes(c)) =>
                         Len(cands) = Min({ask.k, Cardinality(Findable)})
  BY DEF KeepsWhatWasAsked, FoldedInto
<1>1. Past("topk") /\ Past("filter") /\ Past("hybrid")
  BY AllPast
<1>2. /\ ask.k \in Nat /\ Listing(cands) /\ Listing(fetched)
      /\ ChunksOf(cands) \subseteq ChunksOf(fetched) /\ FetchedOk
  BY DEF PipelineInv, ListsOk, AskOk
<1>3. Len(cands) <= ask.k /\ \A c \in ChunksOf(cands) : Passes(c)
  BY <1>1, <1>2 DEF FetchedOk
<1>4. Len(cands) < ask.k => \A c \in ChunksOf(fetched) \ ChunksOf(cands) :
         \E r \in ChunksOf(cands) : FoldedInto(r, c)
  BY <1>2 DEF FetchedOk
<1>5. ASSUME ~Has("stitch"), ~Has("dedup"), \A c \in PChunks : Passes(c)
      PROVE  Len(cands) = Min({ask.k, Cardinality(Findable)})
  <2>1. ChunksOf(fetched) \subseteq Findable /\ Len(fetched) >= Lesser(ask.k, Cardinality(Findable))
    BY <1>1, <1>2, <1>5 DEF FetchedOk, Enough
  <2>2. IsFiniteSet(Findable) /\ Cardinality(Findable) \in Nat
    BY PipelineAssumption, FS_Subset, FS_CardinalityType DEF Findable
  <2>3. Len(cands) \in Nat /\ Len(cands) <= Cardinality(Findable)
    BY <1>2, <2>1, <2>2, ListingIs, FS_Subset
  <2>4. Len(cands) < ask.k => Len(cands) = Len(fetched)
    <3>1. Len(cands) < ask.k => ChunksOf(cands) = ChunksOf(fetched)
      BY <1>2, <1>4, <1>5 DEF FoldedInto
    <3> QED BY <1>2, <3>1, SameChunks
  <2>5. Len(cands) = Lesser(ask.k, Cardinality(Findable))
    BY <1>2, <1>3, <2>1, <2>2, <2>3, <2>4 DEF Lesser
  <2> QED BY <1>2, <2>2, <2>5, LesserIs
<1> QED BY <1>3, <1>4, <1>5

\* And at every moment.
LEMMA RefinementKept ==
    ASSUME PipelineInv
    PROVE  RefinementSound
<1>1. RefinedOk /\ Listing(cands) /\ Listing(ranked)
  BY DEF PipelineInv, ListsOk
<1>2. ASSUME ~Past("mmr"), ~Past("dartboard"),
             NEW i \in DOMAIN cands, NEW j \in DOMAIN cands, i < j
      PROVE  PlaceOf(ranked, cands[i].chunk) < PlaceOf(ranked, cands[j].chunk)
  <2>1. PartOf(cands, ranked) /\ cands \in Seq(PHit) /\ DOMAIN cands = 1 .. Len(cands)
    BY <1>1, <1>2, ListingIs DEF RefinedOk
  <2> QED BY <1>1, <1>2, <2>1, PartIs
<1> QED BY <1>1, <1>2 DEF RefinementSound, RefinedOk

\* PipelineInv is inductive.
LEMMA PipelineStep ==
    ASSUME PipelineInv, [PipelineNext]_pipeVars
    PROVE  PipelineInv'
<1>1. CASE HybridRetrieve
  BY <1>1, HybridStep
<1>2. CASE Filter
  BY <1>2, FilterStep
<1>3. CASE FeatureRerank
  BY <1>3, FeatureStep
<1>4. CASE CustomRerank
  BY <1>4, CustomStep
<1>5. CASE CrossEncode
  BY <1>5, CrossEncodeStep
<1>6. CASE MmrStage
  BY <1>6, MmrStep
<1>7. CASE DartboardStage
  BY <1>7, DartboardStep
<1>8. CASE DedupStage
  BY <1>8, DedupStep
<1>9. CASE AutocutStage
  BY <1>9, AutocutStep
<1>10. CASE ParentStitch
  BY <1>10, StitchStep
<1>11. CASE TopK
  BY <1>11, TopKStep
<1>12. CASE PrfExpand
  BY <1>12, PrfStep
<1>13. CASE RunEnds
  BY <1>13, StillStep DEF RunEnds
<1>14. CASE UNCHANGED pipeVars
  BY <1>14, StillStep DEF pipeVars
<1> QED
  BY <1>1, <1>2, <1>3, <1>4, <1>5, <1>6, <1>7, <1>8, <1>9, <1>10, <1>11, <1>12, <1>13, <1>14
  DEF PipelineNext

\* UnanimityKept: no fusion inverts what the retrievers agree on, whatever the
\* scores, the ranges and the weights that the confidences give.
THEOREM AgreementIsKept ==
    ASSUME NEW inputs, \A a \in inputs : AskOk(a)
    PROVE  PipelineInit(inputs) /\ [][PipelineNext]_pipeVars => []UnanimityKept
<1>1. PipelineInit(inputs) => PipelineInv
  BY PipelineStarts
<1>2. PipelineInv /\ [PipelineNext]_pipeVars => PipelineInv'
  BY PipelineStep
<1>3. PipelineInv => UnanimityKept
  BY DEF PipelineInv
<1> QED BY <1>1, <1>2, <1>3, PTL

\* KeepsWhatWasAsked: a finished run gives at most k results, all of which
\* pass the filter, and fewer than k only when nothing else was to be found or
\* the rest is folded into what it gives.
THEOREM AskedIsKept ==
    ASSUME NEW inputs, \A a \in inputs : AskOk(a)
    PROVE  PipelineInit(inputs) /\ [][PipelineNext]_pipeVars => []KeepsWhatWasAsked
<1>1. PipelineInit(inputs) => PipelineInv
  BY PipelineStarts
<1>2. PipelineInv /\ [PipelineNext]_pipeVars => PipelineInv'
  BY PipelineStep
<1>3. PipelineInv => KeepsWhatWasAsked
  BY AskedKept
<1> QED BY <1>1, <1>2, <1>3, PTL

\* RefinementSound: after the last scoring the leader stays, the order changes
\* only where a stage is there to change it, and what is folded is folded once
\* and for all.
THEOREM RefinementsAreSound ==
    ASSUME NEW inputs, \A a \in inputs : AskOk(a)
    PROVE  PipelineInit(inputs) /\ [][PipelineNext]_pipeVars => []RefinementSound
<1>1. PipelineInit(inputs) => PipelineInv
  BY PipelineStarts
<1>2. PipelineInv /\ [PipelineNext]_pipeVars => PipelineInv'
  BY PipelineStep
<1>3. PipelineInv => RefinementSound
  BY RefinementKept
<1> QED BY <1>1, <1>2, <1>3, PTL

-----------------------------------------------------------------------------
(* Chunking.                                                               *)

\* What is assumed of a document: lines of known kinds, any number of them.
DocOk(d) ==
    /\ d.lines \in Seq(DOMAIN KindOf) /\ d.embeds \in BOOLEAN
    /\ d.type \in {"prose", "sentences", "code", "markup", "unknown"}

Height == Len(doc.lines)
Segments == strategy \in {"code", "structure", "semantic"}
Cutting == chPc = "cut"

\* Chunks are ranges of lines.
Piece(C) == [first : Nat, last : Nat, context : C, situated : {"", "model", "document"}, full : BOOLEAN]
PiecesOk(list) ==
    /\ \E C : list \in Seq(Piece(C))
    /\ \A k \in DOMAIN list : 1 <= list[k].first /\ list[k].first <= list[k].last /\ list[k].last <= Height

\* The lines before m that are not blank are in chunks.
CoveredTo(list, m) ==
    \A i \in Lines : i < m /\ ~IsBlank(i) => \E k \in DOMAIN list : InChunk(i, list[k])

\* What chunks may have in common with what comes after them: comments
\* that a definition claims back, or the lines that a window repeats.
Spare(i) == Comment(i) \/ IsBlank(i)
SharedOk(list) ==
    \A a, b \in DOMAIN list : a < b =>
       CASE strategy = "document" -> list[b].first + Overlap >= list[a].last + 1
         [] strategy \in {"code", "structure"} ->
              \A i \in Lines : InChunk(i, list[a]) /\ InChunk(i, list[b]) => Spare(i)
         [] OTHER -> list[a].last < list[b].first
HandedOn(list, m) ==
    \A a \in DOMAIN list :
       CASE strategy = "document" -> m + Overlap >= list[a].last + 1
         [] strategy \in {"code", "structure"} ->
              \A i \in Lines : InChunk(i, list[a]) /\ i >= m => Spare(i)
         [] OTHER -> list[a].last < m

\* A definition has its comments in a chunk or a full chunk took some away.
KeptWhole(list, i) == \E k \in DOMAIN list : Claimed(i) .. i \subseteq list[k].first .. list[k].last
TakenAway(list, i) == \E k \in DOMAIN list : list[k].full /\ list[k].last \in Claimed(i) .. i - 1
Travelled(list, i) == KeptWhole(list, i) \/ TakenAway(list, i)

\* The definitions above line n are in a chunk or in the segment from m on,
\* and the comments of the ones below that are above the segment were taken.
TravelOk(list, m, n) ==
    strategy \in {"code", "structure"} =>
      \A i \in Lines : Boundary(i) =>
        /\ i < n => Travelled(list, i) \/ m <= Claimed(i)
        /\ i >= n /\ Claimed(i) < m => TakenAway(list, i)

\* Before the way to cut is decided.
Undecided == ""
Begun == strategy = Undecided <=> chPc = "choose"
Counted(list, n) == list = << >> \/ Len(list) + 1 < n

ChunkTypes ==
    /\ DocOk(doc) /\ PiecesOk(chunks)
    /\ strategy \in {Undecided, "document", "semantic", "code", "windows", "structure"}
    /\ chPc \in {"choose", "cut", "cutDone", "done"} /\ Begun
    /\ at \in 1 .. Height + 1 /\ seg \in 1 .. at /\ chars \in Nat

\* The segment of sentences has a size unless all are blank.
SegmentSize ==
    strategy = "semantic" /\ Cutting /\ chars = 0 => \A i \in seg .. at - 1 : IsBlank(i)
CutUpTo == IF Segments THEN seg ELSE at
ChunkInv ==
    /\ ChunkTypes
    /\ SharedOk(chunks) /\ Len(chunks) <= Height
    /\ chPc \in {"choose", "cut"} =>
         /\ IF strategy = Undecided \/ Segments THEN Counted(chunks, at) ELSE Len(chunks) < at
         /\ CoveredTo(chunks, CutUpTo) /\ HandedOn(chunks, CutUpTo) /\ TravelOk(chunks, seg, at)
         /\ strategy = Undecided => chunks = << >> /\ at = 1 /\ seg = 1 /\ chars = 0
         /\ ~doc.embeds /\ strategy = "semantic" => chunks = << >>
    /\ SegmentSize
    /\ CutOver => CoveredTo(chunks, Height + 1) /\ TravelOk(chunks, Height + 1, Height + 1)

\* That is not a way to cut.
LEMMA UndecidedIs == Undecided \notin {"document", "semantic", "code", "windows", "structure"}
BY Zenon DEF Undecided

\* Lines and their sizes.
LEMMA LinesAre ==
    ASSUME DocOk(doc)
    PROVE  /\ Height \in Nat /\ Lines = 1 .. Height /\ Height = Len(doc.lines)
           /\ \A i \in Lines : Kind(i).size \in Nat /\ (~IsBlank(i) => Kind(i).size > 0)
<1>1. Height \in Nat /\ Lines = 1 .. Height /\ DOMAIN doc.lines = Lines
  BY DEF DocOk, Height, Lines
<1>2. \A i \in Lines : doc.lines[i] \in DOMAIN KindOf
  BY <1>1 DEF DocOk
<1> QED BY <1>1, <1>2, ChunkingAssumption DEF Kind, IsBlank, Height

\* A flush adds the range as a chunk, or there is nothing in it.
AddsPiece(list, more, f, l, full) ==
    /\ f <= l /\ DOMAIN more = DOMAIN list \cup {Len(list) + 1} /\ Len(more) = Len(list) + 1
    /\ \A k \in DOMAIN list : more[k] = list[k] /\ k < Len(list) + 1
    /\ more[Len(list) + 1].first = f /\ more[Len(list) + 1].last = l
    /\ more[Len(list) + 1].full = full
LEMMA FlushIs ==
    ASSUME DocOk(doc), PiecesOk(chunks),
           NEW f \in Nat \ {0}, NEW l \in Int, l <= Height, NEW ctx, NEW full \in BOOLEAN
    PROVE  /\ PiecesOk(Flushed(f, l, ctx, full)) /\ Len(chunks) \in Nat
           /\ \/ Flushed(f, l, ctx, full) = chunks /\ \A i \in f .. l : IsBlank(i)
              \/ AddsPiece(chunks, Flushed(f, l, ctx, full), f, l, full)
<1>1. PICK C : chunks \in Seq(Piece(C))
  BY DEF PiecesOk
<1>2. CASE \A i \in f .. l : IsBlank(i)
  <2>1. Flushed(f, l, ctx, full) = chunks
    BY <1>2 DEF Flushed
  <2>2. Len(chunks) \in Nat
    BY <1>1
  <2> QED BY <1>2, <2>1, <2>2
<1>3. CASE ~(\A i \in f .. l : IsBlank(i))
  <2> DEFINE p == [first |-> f, last |-> l, context |-> ctx, situated |-> "", full |-> full]
             D == C \cup {ctx}
  <2>1. f <= l /\ l \in Nat
    BY <1>3
  <2>2. p \in Piece(D)
    <3>1. f \in Nat /\ l \in Nat /\ ctx \in D
      BY <2>1
    <3> HIDE DEF D
    <3> QED BY <3>1 DEF Piece
  <2>3. Piece(C) \subseteq Piece(D)
    BY DEF Piece
  <2>4. chunks \in Seq(Piece(D))
    <3> HIDE DEF D
    <3> QED BY <1>1, <2>3
  <2>5. Flushed(f, l, ctx, full) = Append(chunks, p)
    BY <1>3 DEF Flushed
  <2>6. p.first = f /\ p.last = l /\ p.full = full
    OBVIOUS
  <2> HIDE DEF p, D
  <2>7. Append(chunks, p) \in Seq(Piece(D))
    BY <2>2, <2>4
  <2>8. /\ DOMAIN Append(chunks, p) = DOMAIN chunks \cup {Len(chunks) + 1}
        /\ Len(Append(chunks, p)) = Len(chunks) + 1 /\ Len(chunks) \in Nat
        /\ \A k \in DOMAIN chunks : Append(chunks, p)[k] = chunks[k] /\ k < Len(chunks) + 1
        /\ Append(chunks, p)[Len(chunks) + 1] = p
    BY <2>2, <2>4
  <2>9. AddsPiece(chunks, Append(chunks, p), f, l, full)
    BY <2>1, <2>6, <2>8 DEF AddsPiece
  <2>10. PiecesOk(Append(chunks, p))
    BY <2>1, <2>6, <2>7, <2>8 DEF PiecesOk
  <2> QED BY <2>5, <2>8, <2>9, <2>10
<1> QED BY <1>2, <1>3

\* The lines above a flush and those of it are covered.
LEMMA FlushCovers ==
    ASSUME NEW f \in Nat \ {0}, NEW l \in Int, l <= Height, NEW ctx, NEW full \in BOOLEAN,
           DocOk(doc), PiecesOk(chunks), CoveredTo(chunks, f),
           NEW m \in Int, m <= l + 1
    PROVE  CoveredTo(Flushed(f, l, ctx, full), m)
<1> DEFINE F == Flushed(f, l, ctx, full)
<1>1. (F = chunks /\ \A i \in f .. l : IsBlank(i)) \/ AddsPiece(chunks, F, f, l, full)
  BY FlushIs
<1> HIDE DEF F
<1>2. CASE F = chunks /\ (\A i \in f .. l : IsBlank(i))
  <2> SUFFICES ASSUME NEW i \in Lines, i < m, ~IsBlank(i)
               PROVE  \E k \in DOMAIN F : InChunk(i, F[k])
    BY DEF CoveredTo, F
  <2>1. i < f
    BY <1>2, LinesAre
  <2> QED BY <1>2, <2>1 DEF CoveredTo
<1>3. CASE AddsPiece(chunks, F, f, l, full)
  <2> SUFFICES ASSUME NEW i \in Lines, i < m, ~IsBlank(i)
               PROVE  \E k \in DOMAIN F : InChunk(i, F[k])
    BY DEF CoveredTo, F
  <2>1. CASE i < f
    BY <1>3, <2>1 DEF CoveredTo, AddsPiece
  <2>2. CASE i >= f
    BY <1>3, <2>2, LinesAre DEF AddsPiece, InChunk
  <2> QED BY <2>1, <2>2, LinesAre
<1> QED BY <1>1, <1>2, <1>3 DEF F

\* What the new chunk shares with the others was handed on to it.
LEMMA FlushShares ==
    ASSUME NEW f \in Nat \ {0}, NEW l \in Int, l <= Height, NEW ctx, NEW full \in BOOLEAN,
           DocOk(doc), PiecesOk(chunks), SharedOk(chunks), HandedOn(chunks, f)
    PROVE  SharedOk(Flushed(f, l, ctx, full))
<1> DEFINE F == Flushed(f, l, ctx, full)
<1>1. F = chunks \/ AddsPiece(chunks, F, f, l, full)
  BY FlushIs
<1> HIDE DEF F
<1>2. CASE AddsPiece(chunks, F, f, l, full)
  <2>1. SUFFICES ASSUME NEW a \in DOMAIN F, NEW b \in DOMAIN F, a < b
                 PROVE  CASE strategy = "document" -> F[b].first + Overlap >= F[a].last + 1
                          [] strategy \in {"code", "structure"} ->
                               \A i \in Lines : InChunk(i, F[a]) /\ InChunk(i, F[b]) => Spare(i)
                          [] OTHER -> F[a].last < F[b].first
    BY DEF SharedOk, F
  <2>2. DOMAIN chunks \subseteq Nat /\ Len(chunks) \in Nat
    BY DEF PiecesOk
  <2>3. a \in DOMAIN chunks /\ F[a] = chunks[a]
    BY <1>2, <2>1, <2>2 DEF AddsPiece
  <2>4. CASE b \in DOMAIN chunks
    BY <1>2, <2>1, <2>3, <2>4 DEF SharedOk, AddsPiece
  <2>5. CASE b = Len(chunks) + 1
    <3>1. F[b].first = f /\ F[b].last = l
      BY <1>2, <2>5 DEF AddsPiece
    <3>2. CASE strategy = "document"
      BY <2>3, <3>1, <3>2 DEF HandedOn
    <3>3. CASE strategy \in {"code", "structure"}
      <4>1. ASSUME NEW i \in Lines, InChunk(i, F[a]), InChunk(i, F[b]) PROVE Spare(i)
        <5>1. i >= f
          BY <3>1, <4>1, LinesAre DEF InChunk
        <5> QED BY <2>3, <3>3, <4>1, <5>1 DEF HandedOn
      <4> QED BY <3>3, <4>1
    <3>4. CASE strategy \notin {"document", "code", "structure"}
      BY <2>3, <3>1, <3>4 DEF HandedOn
    <3> QED BY <3>2, <3>3, <3>4
  <2> QED BY <1>2, <2>4, <2>5 DEF AddsPiece
<1> QED BY <1>1, <1>2 DEF F

\* What a flush hands on to the line it goes on from.
LEMMA FlushHands ==
    ASSUME NEW f \in Nat \ {0}, NEW l \in Int, l <= Height, NEW ctx, NEW full \in BOOLEAN,
           DocOk(doc), PiecesOk(chunks), HandedOn(chunks, f),
           NEW m \in Int,
           CASE strategy = "document" -> f <= m /\ m + Overlap >= l + 1
             [] strategy \in {"code", "structure"} ->
                  l < m /\ \A i \in Lines : m <= i /\ i < f => Spare(i)
             [] OTHER -> f <= m /\ l < m
    PROVE  HandedOn(Flushed(f, l, ctx, full), m)
<1> DEFINE F == Flushed(f, l, ctx, full)
<1>1. F = chunks \/ AddsPiece(chunks, F, f, l, full)
  BY FlushIs
<1>2. \A k \in DOMAIN chunks : chunks[k].first \in Nat /\ chunks[k].last \in Nat
  <2>1. PICK C : chunks \in Seq(Piece(C))
    BY DEF PiecesOk
  <2>2. \A k \in DOMAIN chunks : chunks[k] \in Piece(C)
    BY <2>1
  <2> QED BY <2>2 DEF Piece
<1> HIDE DEF F
<1>3. \A a \in DOMAIN F : (a \in DOMAIN chunks /\ F[a] = chunks[a]) \/ (F[a].first = f /\ F[a].last = l)
  BY <1>1 DEF AddsPiece
<1>4. SUFFICES ASSUME NEW a \in DOMAIN F
               PROVE  CASE strategy = "document" -> m + Overlap >= F[a].last + 1
                        [] strategy \in {"code", "structure"} ->
                             \A i \in Lines : InChunk(i, F[a]) /\ i >= m => Spare(i)
                        [] OTHER -> F[a].last < m
  BY DEF HandedOn, F
<1>5. CASE strategy = "document"
  BY <1>2, <1>3, <1>5, ChunkingAssumption DEF HandedOn
<1>6. CASE strategy \in {"code", "structure"}
  <2>1. ASSUME NEW i \in Lines, InChunk(i, F[a]), i >= m PROVE Spare(i)
    <3>1. CASE a \in DOMAIN chunks /\ F[a] = chunks[a] /\ i >= f
      BY <1>6, <2>1, <3>1 DEF HandedOn
    <3>2. CASE i < f
      BY <1>6, <2>1, <3>2
    <3>3. CASE F[a].first = f /\ F[a].last = l
      BY <1>6, <2>1, <3>3, LinesAre DEF InChunk
    <3> QED BY <1>3, <3>1, <3>2, <3>3, LinesAre
  <2> QED BY <1>6, <2>1
<1>7. CASE strategy \notin {"document", "code", "structure"}
  BY <1>2, <1>3, <1>7 DEF HandedOn
<1> QED BY <1>5, <1>6, <1>7

\* The line from which a definition's comments go with it.
LEMMA ClaimedIs ==
    ASSUME DocOk(doc), strategy \in {"code", "structure"}, NEW i \in Lines
    PROVE  /\ Claimed(i) \in 1 .. i
           /\ \A j \in Claimed(i) .. i - 1 : Spare(j)
           /\ Claimed(i) < i => ~IsBlank(Claimed(i)) /\ Comment(Claimed(i))
<1> DEFINE S == {s \in 1 .. i : \A j \in s .. i - 1 : Claimable(j)}
<1>1. i \in Nat /\ i \in S
  BY LinesAre
<1>2. S \subseteq Nat
  OBVIOUS
<1>3. Claimed(i) = Min(S)
  BY DEF Claimed
<1>4. Min(S) \in S /\ \A y \in S : Min(S) <= y
  BY <1>1, <1>2, LeastIs
<1> DEFINE s == Claimed(i)
<1>5. s \in 1 .. i /\ \A j \in s .. i - 1 : Claimable(j)
  BY <1>3, <1>4
<1>6. \A y \in S : s <= y
  BY <1>3, <1>4
<1>7. \A j \in s .. i - 1 : Spare(j)
  BY <1>5 DEF Claimable, Spare
<1> HIDE DEF s
<1>8. ASSUME s < i PROVE Comment(s)
  <2>1. Claimable(s) /\ s \in Nat
    BY <1>1, <1>5, <1>8
  <2>2. SUFFICES ASSUME ~Comment(s) PROVE FALSE
    OBVIOUS
  <2>3. s > 1 /\ Comment(s - 1)
    BY <2>1, <2>2 DEF Claimable
  <2>4. Claimable(s - 1)
    BY <2>3 DEF Claimable
  <2>5. \A j \in s - 1 .. i - 1 : j = s - 1 \/ j \in s .. i - 1
    BY <1>1, <2>1
  <2>6. s - 1 \in S
    BY <1>1, <1>5, <2>1, <2>3, <2>4, <2>5
  <2> QED BY <1>6, <2>1, <2>6
<1>9. \A j : Comment(j) => ~IsBlank(j)
  BY DEF Comment, CommentIn, IsBlank
<1> QED BY <1>5, <1>7, <1>8, <1>9 DEF s

\* A definition is neither a comment nor blank, so no later one claims it.
LEMMA BoundaryStays ==
    ASSUME DocOk(doc), strategy \in {"code", "structure"}, NEW i \in Lines, NEW j \in Lines,
           Boundary(i), i < j
    PROVE  ~Spare(i) /\ i < Claimed(j)
<1>1. ~Spare(i)
  BY DEF Boundary, Spare, Comment, CommentIn, Defines, IsBlank
<1>2. i \in Nat /\ j \in Nat
  BY LinesAre
<1> QED BY <1>1, <1>2, ClaimedIs

\* A flush with more to it is a longer list.
LEMMA FlushExtends ==
    ASSUME NEW f \in Nat \ {0}, NEW l \in Int, l <= Height, NEW ctx, NEW full \in BOOLEAN,
           DocOk(doc), PiecesOk(chunks), NEW i
    PROVE  /\ Travelled(chunks, i) => Travelled(Flushed(f, l, ctx, full), i)
           /\ TakenAway(chunks, i) => TakenAway(Flushed(f, l, ctx, full), i)
<1> DEFINE F == Flushed(f, l, ctx, full)
<1>1. F = chunks \/ AddsPiece(chunks, F, f, l, full)
  BY FlushIs
<1> HIDE DEF F
<1>2. \A k \in DOMAIN chunks : k \in DOMAIN F /\ F[k] = chunks[k]
  BY <1>1 DEF AddsPiece
<1>3. TakenAway(chunks, i) => TakenAway(F, i)
  BY <1>2 DEF TakenAway
<1>4. KeptWhole(chunks, i) => KeptWhole(F, i)
  BY <1>2 DEF KeptWhole
<1> QED BY <1>3, <1>4 DEF Travelled, F

\* A definition of the segment is in its chunk, with the comments that are in
\* the segment.
LEMMA FlushTravels ==
    ASSUME DocOk(doc), PiecesOk(chunks), strategy \in {"code", "structure"},
           seg \in Nat \ {0}, TravelOk(chunks, seg, at),
           NEW l \in Int, l <= Height, NEW ctx, NEW full \in BOOLEAN,
           NEW i \in Lines, Boundary(i), i < at, i <= l
    PROVE  Travelled(Flushed(seg, l, ctx, full), i)
<1>1. CASE Travelled(chunks, i)
  BY <1>1, FlushExtends
<1>2. CASE seg <= Claimed(i)
  <2> DEFINE F == Flushed(seg, l, ctx, full)
  <2>1. ~IsBlank(i)
    BY DEF Boundary, Defines, IsBlank
  <2>2. Claimed(i) \in 1 .. i /\ i \in Nat
    BY ClaimedIs, LinesAre
  <2>3. i \in seg .. l
    BY <1>2, <2>2
  <2>4. AddsPiece(chunks, F, seg, l, full)
    BY <2>1, <2>3, FlushIs
  <2> HIDE DEF F
  <2>5. KeptWhole(F, i)
    <3>1. Claimed(i) .. i \subseteq seg .. l
      BY <1>2, <2>2, <2>3
    <3> QED BY <2>4, <3>1 DEF KeptWhole, AddsPiece
  <2> QED BY <2>5 DEF Travelled, F
<1> QED BY <1>1, <1>2 DEF TravelOk

\* The text, the way it is cut and so what is said of a list do not change.
LEMMA SameText ==
    ASSUME UNCHANGED <<doc, strategy, profile>>
    PROVE  /\ Height' = Height /\ (DocOk(doc) => DocOk(doc)')
           /\ PiecesOk(chunks') => PiecesOk(chunks)'
           /\ SharedOk(chunks') => SharedOk(chunks)'
           /\ CoveredTo(chunks', CutUpTo') => CoveredTo(chunks, CutUpTo)'
           /\ HandedOn(chunks', CutUpTo') => HandedOn(chunks, CutUpTo)'
           /\ TravelOk(chunks', seg', at') => TravelOk(chunks, seg, at)'
           /\ CoveredTo(chunks', Height + 1) => CoveredTo(chunks, Height + 1)'
           /\ TravelOk(chunks', Height + 1, Height + 1) => TravelOk(chunks, Height + 1, Height + 1)'
<1>1. Height' = Height /\ Lines' = Lines
  BY DEF Height, Lines
<1>2. \A i : /\ IsBlank(i)' = IsBlank(i) /\ Comment(i)' = Comment(i) /\ Boundary(i)' = Boundary(i)
             /\ Spare(i)' = Spare(i) /\ Claimable(i)' = Claimable(i)
  BY DEF IsBlank, Comment, Boundary, Spare, Claimable, CommentIn, Defines, Kind, Word
<1>3. \A i : Claimed(i)' = Claimed(i)
  BY <1>2 DEF Claimed
<1>4. DocOk(doc) => DocOk(doc)'
  BY DEF DocOk
<1>5. PiecesOk(chunks') => PiecesOk(chunks)'
  BY <1>1 DEF PiecesOk, Piece
<1>6. SharedOk(chunks') => SharedOk(chunks)'
  BY <1>1, <1>2 DEF SharedOk, InChunk
<1>7. CoveredTo(chunks', CutUpTo') => CoveredTo(chunks, CutUpTo)'
  BY <1>1, <1>2 DEF CoveredTo, InChunk, CutUpTo, Segments
<1>8. HandedOn(chunks', CutUpTo') => HandedOn(chunks, CutUpTo)'
  BY <1>1, <1>2 DEF HandedOn, InChunk, CutUpTo, Segments
<1>9. TravelOk(chunks', seg', at') => TravelOk(chunks, seg, at)'
  BY <1>1, <1>2, <1>3 DEF TravelOk, Travelled, TakenAway, KeptWhole
<1>10. CoveredTo(chunks', Height + 1) => CoveredTo(chunks, Height + 1)'
  BY <1>1, <1>2 DEF CoveredTo, InChunk
<1>11. TravelOk(chunks', Height + 1, Height + 1) => TravelOk(chunks, Height + 1, Height + 1)'
  BY <1>1, <1>2, <1>3 DEF TravelOk, Travelled, TakenAway, KeptWhole
<1> QED BY <1>1, <1>4, <1>5, <1>6, <1>7, <1>8, <1>9, <1>10, <1>11

\* The number of chunks after a flush.
LEMMA FlushCounts ==
    ASSUME NEW f \in Nat \ {0}, NEW l \in Int, l <= Height, NEW ctx, NEW full \in BOOLEAN,
           DocOk(doc), PiecesOk(chunks), NEW n \in Nat, l < n
    PROVE  /\ Counted(chunks, n) => Counted(Flushed(f, l, ctx, full), n + 1)
           /\ Counted(chunks, n) /\ n <= Height + 1 => Len(Flushed(f, l, ctx, full)) <= Height
           /\ Len(chunks) < f => Len(Flushed(f, l, ctx, full)) <= f /\ (l < f => Len(Flushed(f, l, ctx, full)) < f)
<1> DEFINE F == Flushed(f, l, ctx, full)
<1>1. (F = chunks \/ AddsPiece(chunks, F, f, l, full)) /\ Len(chunks) \in Nat
  BY FlushIs
<1>2. chunks = << >> => Len(chunks) = 0
  OBVIOUS
<1>3. Height \in Nat
  BY LinesAre
<1> HIDE DEF F
<1>4. CASE F = chunks
  BY <1>1, <1>2, <1>3, <1>4 DEF Counted, F
<1>5. CASE AddsPiece(chunks, F, f, l, full)
  <2>1. Len(F) = Len(chunks) + 1 /\ f <= l
    BY <1>5 DEF AddsPiece
  <2> QED BY <1>1, <1>2, <1>3, <2>1 DEF Counted, F
<1> QED BY <1>1, <1>4, <1>5

\* The invariant before the first step.
LEMMA ChunkingStarts ==
    ASSUME NEW inputs, \A d \in inputs : DocOk(d), ChunkingInit(inputs)
    PROVE  ChunkInv
<1>1. /\ DocOk(doc) /\ strategy = Undecided /\ at = 1 /\ seg = 1 /\ chars = 0
      /\ chunks = << >> /\ chPc = "choose"
  BY Zenon DEF ChunkingInit, Undecided
<1>2. Height \in Nat /\ Lines = 1 .. Height
  BY <1>1, LinesAre
<1>3. DOMAIN chunks = {} /\ Len(chunks) = 0
  BY <1>1
<1>4. PiecesOk(chunks)
  <2>1. chunks \in Seq(Piece({}))
    BY <1>1
  <2> QED BY <1>3, <2>1 DEF PiecesOk
<1>5. ChunkTypes
  BY <1>1, <1>2, <1>4 DEF ChunkTypes, Begun
<1>6. SharedOk(chunks) /\ \A m : HandedOn(chunks, m)
  BY <1>3 DEF SharedOk, HandedOn
<1>7. CutUpTo = 1 /\ CoveredTo(chunks, 1) /\ TravelOk(chunks, seg, at)
  BY UndecidedIs, <1>1, <1>2 DEF CutUpTo, Segments, CoveredTo, TravelOk
<1>8. Counted(chunks, at) /\ SegmentSize /\ ~CutOver
  BY <1>1 DEF Counted, SegmentSize, CutOver, Cutting
<1> QED BY <1>1, <1>2, <1>3, <1>5, <1>6, <1>7, <1>8 DEF ChunkInv

\* What a step that goes on with the text has to keep.
LEMMA GoesOn ==
    ASSUME ChunkInv, UNCHANGED <<doc, strategy, profile>>, chPc # "choose",
           chPc' \in {"cut", "cutDone", "done"},
           at' \in 1 .. Height + 1, seg' \in 1 .. at', chars' \in Nat,
           PiecesOk(chunks'), SharedOk(chunks'), Len(chunks') <= Height,
           chPc' = "cut" =>
             /\ IF Segments THEN Counted(chunks', at') ELSE Len(chunks') < at'
             /\ CoveredTo(chunks', CutUpTo') /\ HandedOn(chunks', CutUpTo')
             /\ TravelOk(chunks', seg', at')
             /\ ~doc.embeds /\ strategy = "semantic" => chunks' = << >>
             /\ strategy = "semantic" /\ chars' = 0 => \A i \in seg' .. at' - 1 : IsBlank(i),
           chPc' = "cut" \/ (chPc' = "done" /\ chunks' = << >>) \/
             (CoveredTo(chunks', Height + 1) /\ TravelOk(chunks', Height + 1, Height + 1))
    PROVE  ChunkInv'
<1>1. DocOk(doc) /\ strategy \in {"document", "semantic", "code", "windows", "structure"}
  BY UndecidedIs DEF ChunkInv, ChunkTypes, Begun
<1>2. Height' = Height /\ DocOk(doc)' /\ PiecesOk(chunks)' /\ SharedOk(chunks)'
  BY <1>1, SameText
<1>3. Segments' = Segments /\ \A i : IsBlank(i)' = IsBlank(i)
  BY DEF Segments, IsBlank, Kind
<1>4. ChunkTypes'
  BY UndecidedIs, <1>1, <1>2 DEF ChunkTypes, Begun
<1>5. SegmentSize'
  BY <1>3 DEF SegmentSize, Cutting
<1>6. CutOver' => CoveredTo(chunks, Height + 1)' /\ TravelOk(chunks, Height + 1, Height + 1)'
  BY SameText DEF CutOver
<1>7. chPc' = "cut" =>
         /\ (IF strategy = Undecided \/ Segments THEN Counted(chunks, at) ELSE Len(chunks) < at)'
         /\ CoveredTo(chunks, CutUpTo)' /\ HandedOn(chunks, CutUpTo)' /\ TravelOk(chunks, seg, at)'
         /\ (~doc.embeds /\ strategy = "semantic" => chunks = << >>)'
  BY UndecidedIs, <1>1, <1>3, SameText DEF Counted
<1>8. (strategy # Undecided)' /\ (chPc # "choose")'
  BY UndecidedIs, <1>1
<1> QED BY <1>2, <1>4, <1>5, <1>6, <1>7, <1>8 DEF ChunkInv

\* Deciding how to cut cuts nothing.
LEMMA StrategyChosen == ASSUME ChunkInv, ChooseStrategy PROVE ChunkInv'
<1>1. /\ strategy = Undecided /\ chunks = << >> /\ at = 1 /\ seg = 1 /\ chars = 0 /\ DocOk(doc)
      /\ chPc = "choose" /\ chPc' = "cut"
      /\ strategy' \in {"document", "semantic", "code", "windows", "structure"}
      /\ UNCHANGED <<doc, at, seg, chars, crumb, chunks>>
  BY DEF ChooseStrategy, ChunkInv, ChunkTypes, Begun
<1>2. Height' = Height /\ Lines' = Lines /\ Height \in Nat /\ Lines = 1 .. Height /\ DocOk(doc)'
  BY <1>1, LinesAre DEF Height, Lines, DocOk
<1>3. DOMAIN chunks = {} /\ Len(chunks) = 0
  BY <1>1
<1>4. PiecesOk(chunks)'
  <2>1. chunks' \in Seq(Piece({})) /\ DOMAIN chunks' = {}
    BY <1>1
  <2>2. \E C : chunks' \in Seq(Piece(C))
    BY <2>1
  <2>3. \A k \in DOMAIN chunks' : 1 <= chunks'[k].first /\ chunks'[k].first <= chunks'[k].last /\ chunks'[k].last <= Height'
    BY <2>1
  <2> QED BY <2>2, <2>3 DEF PiecesOk, Piece
<1>5. ChunkTypes'
  BY UndecidedIs, <1>1, <1>2, <1>4 DEF ChunkTypes, Begun
<1>6. SharedOk(chunks)' /\ HandedOn(chunks, CutUpTo)'
  BY <1>1, <1>3 DEF SharedOk, HandedOn
<1>7. (CutUpTo = 1)' /\ CoveredTo(chunks, CutUpTo)'
  BY <1>1, <1>2 DEF CutUpTo, Segments, CoveredTo
<1>8. TravelOk(chunks, seg, at)'
  <2>1. SUFFICES ASSUME (strategy \in {"code", "structure"})', NEW i \in Lines', Boundary(i)'
                 PROVE  /\ (i < at => Travelled(chunks, i) \/ seg <= Claimed(i))'
                        /\ (i >= at /\ Claimed(i) < seg => TakenAway(chunks, i))'
    BY DEF TravelOk
  <2> DEFINE S == {s \in 1 .. i : \A j \in s .. i - 1 : Claimable(j)'}
  <2>2. i \in Nat /\ i >= 1
    BY <1>2
  <2>3. i \in S /\ S \subseteq Nat
    BY <2>2
  <2>4. Claimed(i)' = Min(S)
    BY DEF Claimed
  <2>5. Min(S) \in S
    BY <2>3, LeastIs
  <2>6. Min(S) \in 1 .. i
    BY <2>5
  <2> QED BY <1>1, <2>2, <2>4, <2>6
<1>9. Counted(chunks, at)' /\ (Len(chunks) < at)' /\ SegmentSize' /\ ~CutOver'
  BY <1>1, <1>3 DEF Counted, SegmentSize, CutOver, Cutting
<1> QED BY <1>1, <1>2, <1>3, <1>5, <1>6, <1>7, <1>8, <1>9 DEF ChunkInv

\* The chunkers of code: a line may end the segment.
LEMMA CodeLineKeeps == ASSUME ChunkInv, CodeLine PROVE ChunkInv'
<1> DEFINE cut == CutAt(at)
           length == IF cut > seg THEN cut - seg ELSE 0
           tooBig == at - seg >= MaxLines \/ chars >= MaxChars
           cuts == \/ Boundary(at) /\ length >= MinLines /\ (strategy = "code" \/ cut > seg)
                   \/ tooBig
           F == Flushed(seg, cut - 1, crumb, tooBig)
<1>1. /\ strategy \in {"code", "structure"} /\ chPc = "cut" /\ chPc' = "cut" /\ at <= Height
      /\ UNCHANGED <<doc, strategy, profile, chPc>> /\ at' = at + 1
      /\ chunks' = IF cuts THEN F ELSE chunks
      /\ seg' = IF cuts THEN cut ELSE seg
      /\ chars' = (IF cuts THEN 0 ELSE chars) + Kind(at).size
  BY DEF CodeLine, Height
<1>2. /\ DocOk(doc) /\ PiecesOk(chunks) /\ SharedOk(chunks) /\ Len(chunks) <= Height /\ Segments
      /\ at \in 1 .. Height /\ seg \in 1 .. at /\ chars \in Nat /\ Counted(chunks, at)
      /\ CoveredTo(chunks, seg) /\ HandedOn(chunks, seg) /\ TravelOk(chunks, seg, at)
  BY <1>1 DEF ChunkInv, ChunkTypes, CutUpTo, Segments
<1>3. Height \in Nat /\ Lines = 1 .. Height /\ at \in Lines /\ Kind(at).size \in Nat
  BY <1>2, LinesAre
<1>4. /\ cut \in 1 .. at /\ \A j \in cut .. at - 1 : Spare(j)
      /\ Boundary(at) => cut = Claimed(at)
  <2>1. CASE Boundary(at)
    BY <1>1, <1>2, <1>3, <2>1, ClaimedIs DEF CutAt
  <2>2. CASE ~Boundary(at)
    BY <1>3, <2>2 DEF CutAt
  <2> QED BY <2>1, <2>2
<1>5. tooBig \in BOOLEAN /\ cut - 1 \in Int /\ cut - 1 <= Height /\ seg \in Nat \ {0} /\ cut \in Nat
  BY <1>2, <1>3, <1>4
<1> HIDE DEF cut, tooBig
<1>6. PiecesOk(F) /\ ((F = chunks /\ \A i \in seg .. cut - 1 : IsBlank(i)) \/ AddsPiece(chunks, F, seg, cut - 1, tooBig))
  BY <1>2, <1>5, FlushIs
<1>7. CoveredTo(F, cut) /\ SharedOk(F)
  BY <1>2, <1>5, FlushCovers, FlushShares
<1>8. HandedOn(F, cut)
  <2>1. \A i \in Lines : cut <= i /\ i < seg => Spare(i)
    BY <1>2, <1>3, <1>4
  <2> QED BY <1>1, <1>2, <1>5, <2>1, FlushHands
<1>9. Counted(F, at + 1) /\ Len(F) <= Height
  BY <1>2, <1>3, <1>4, <1>5, FlushCounts
<1>10. ASSUME cuts PROVE TravelOk(F, cut, at + 1)
  <2>1. SUFFICES ASSUME NEW i \in Lines, Boundary(i)
                 PROVE  /\ i < at + 1 => Travelled(F, i) \/ cut <= Claimed(i)
                        /\ i >= at + 1 /\ Claimed(i) < cut => TakenAway(F, i)
    BY DEF TravelOk
  <2>2. i \in Nat /\ at \in Nat
    BY <1>3
  <2>3. CASE i = at
    BY <1>4, <1>5, <2>1, <2>2, <2>3
  <2>4. CASE i < at
    <3>1. i < cut
      BY <1>1, <1>2, <1>3, <1>4, <2>1, <2>4, BoundaryStays DEF CutAt, cut
    <3>2. i <= cut - 1
      BY <1>5, <2>2, <3>1
    <3>3. Travelled(F, i)
      BY <1>1, <1>2, <1>5, <2>1, <2>4, <3>2, FlushTravels
    <3> QED BY <2>2, <2>4, <3>3
  <2>5. CASE i > at
    <3>1. SUFFICES ASSUME Claimed(i) < cut PROVE TakenAway(F, i)
      BY <2>2, <2>5
    <3>2. Claimed(i) \in 1 .. i /\ (Claimed(i) < i => ~IsBlank(Claimed(i)))
      BY <1>1, <1>2, ClaimedIs
    <3>3. ~Boundary(at)
      BY <1>1, <1>2, <1>3, <1>4, <1>5, <2>5, <3>1, <3>2, BoundaryStays
    <3>4. cut = at /\ tooBig
      BY <1>10, <3>3 DEF CutAt, cut
    <3>5. CASE AddsPiece(chunks, F, seg, cut - 1, tooBig)
      <4>1. F[Len(chunks) + 1].full /\ F[Len(chunks) + 1].last = cut - 1 /\ Len(chunks) + 1 \in DOMAIN F
        BY <3>4, <3>5 DEF AddsPiece
      <4>2. cut - 1 \in Claimed(i) .. i - 1
        BY <1>5, <2>2, <2>5, <3>1, <3>2, <3>4
      <4> QED BY <4>1, <4>2 DEF TakenAway
    <3>6. CASE F = chunks /\ \A j \in seg .. cut - 1 : IsBlank(j)
      <4>1. Claimed(i) < seg
        BY <1>2, <1>5, <2>2, <2>5, <3>1, <3>2, <3>4, <3>6
      <4>2. TakenAway(chunks, i)
        BY <1>1, <1>2, <2>1, <2>2, <2>5, <4>1 DEF TravelOk
      <4> QED BY <3>6, <4>2
    <3> QED BY <1>6, <3>5, <3>6
  <2> QED BY <2>2, <2>3, <2>4, <2>5
<1>11. ASSUME ~cuts PROVE TravelOk(chunks, seg, at + 1)
  <2>1. SUFFICES ASSUME NEW i \in Lines, Boundary(i)
                 PROVE  /\ i < at + 1 => Travelled(chunks, i) \/ seg <= Claimed(i)
                        /\ i >= at + 1 /\ Claimed(i) < seg => TakenAway(chunks, i)
    BY DEF TravelOk
  <2>2. i \in Nat /\ at \in Nat /\ seg \in Nat /\ Claimed(i) \in Nat
    BY <1>1, <1>2, <1>3, ClaimedIs
  <2>3. /\ i < at => Travelled(chunks, i) \/ seg <= Claimed(i)
        /\ i >= at /\ Claimed(i) < seg => TakenAway(chunks, i)
    BY <1>1, <1>2, <2>1 DEF TravelOk
  <2> QED BY <2>2, <2>3 DEF Travelled
<1>12. ASSUME Counted(chunks, at) PROVE Counted(chunks, at + 1)
  <2>1. Len(chunks) \in Nat
    BY <1>2, <1>5, FlushIs
  <2> QED BY <1>3, <1>12, <2>1 DEF Counted
<1>13. seg' \in 1 .. at' /\ at' \in 1 .. Height + 1 /\ chars' \in Nat
  BY <1>1, <1>2, <1>3, <1>4
<1>14. CutUpTo' = seg'
  BY <1>1 DEF CutUpTo, Segments
<1>15. CASE cuts
  <2>1. chunks' = F /\ seg' = cut
    BY <1>1, <1>15
  <2> HIDE DEF F, cuts
  <2> QED BY <1>1, <1>2, <1>6, <1>7, <1>8, <1>9, <1>10, <1>13, <1>14, <1>15, <2>1, GoesOn
<1>16. CASE ~cuts
  <2>1. chunks' = chunks /\ seg' = seg
    BY <1>1, <1>16
  <2> HIDE DEF F, cuts
  <2> QED BY <1>1, <1>2, <1>11, <1>12, <1>13, <1>14, <1>16, <2>1, GoesOn
<1> QED BY <1>15, <1>16

\* The end of code: the rest is a chunk.
LEMMA CodeEndKeeps == ASSUME ChunkInv, CodeEnd PROVE ChunkInv'
<1> DEFINE F == Flushed(seg, Height, crumb, FALSE)
<1>1. /\ strategy \in {"code", "structure"} /\ chPc = "cut" /\ chPc' = "cutDone" /\ at > Height
      /\ UNCHANGED <<doc, strategy, profile, at, seg, chars>> /\ chunks' = F
  BY DEF CodeEnd, Height
<1>2. /\ DocOk(doc) /\ PiecesOk(chunks) /\ SharedOk(chunks) /\ Segments
      /\ at \in 1 .. Height + 1 /\ seg \in 1 .. at /\ chars \in Nat /\ Counted(chunks, at)
      /\ CoveredTo(chunks, seg) /\ HandedOn(chunks, seg) /\ TravelOk(chunks, seg, at)
  BY <1>1 DEF ChunkInv, ChunkTypes, CutUpTo, Segments
<1>3. /\ Height \in Nat /\ Lines = 1 .. Height /\ at = Height + 1 /\ seg \in Nat \ {0} /\ at \in Nat
      /\ Height \in Int /\ Height <= Height /\ Height + 1 \in Int /\ Height + 1 <= Height + 1
  BY <1>1, <1>2, LinesAre
<1>4. PiecesOk(F) /\ CoveredTo(F, Height + 1) /\ SharedOk(F) /\ Len(F) <= Height
  <2>1. PiecesOk(F)
    BY <1>2, <1>3, FlushIs
  <2>2. CoveredTo(F, Height + 1)
    BY <1>2, <1>3, FlushCovers
  <2>3. SharedOk(F)
    BY <1>2, <1>3, FlushShares
  <2>4. Height < at /\ at <= Height + 1 /\ Height \in Int /\ Height <= Height
    BY <1>3
  <2>5. Len(F) <= Height
    BY <1>2, <1>3, <2>4, FlushCounts
  <2> QED BY <2>1, <2>2, <2>3, <2>5
<1>5. TravelOk(F, Height + 1, Height + 1)
  <2> SUFFICES ASSUME NEW i \in Lines, Boundary(i)
               PROVE  i < Height + 1 /\ Travelled(F, i)
    <3> HIDE DEF F
    <3> QED BY <1>3 DEF TravelOk
  <2>2. i < at /\ i <= Height
    BY <1>3
  <2>3. Travelled(F, i)
    BY <1>1, <1>2, <1>3, <2>2, FlushTravels
  <2> QED BY <1>3, <2>2, <2>3
<1> HIDE DEF F
<1> QED BY <1>1, <1>2, <1>4, <1>5, GoesOn

\* Windows of lines follow each other.
LEMMA FixedWindowKeeps == ASSUME ChunkInv, FixedWindow PROVE ChunkInv'
<1> DEFINE last == Min({at + MaxLines - 1, Height})
           F == Flushed(at, last, <<0, 0>>, TRUE)
<1>1. /\ strategy = "windows" /\ chPc = "cut" /\ at' = last + 1
      /\ chPc' = IF last = Height THEN "cutDone" ELSE "cut"
      /\ UNCHANGED <<doc, strategy, profile, seg, chars>> /\ chunks' = F
  BY DEF FixedWindow, Height
<1>2. /\ DocOk(doc) /\ PiecesOk(chunks) /\ SharedOk(chunks)
      /\ at \in 1 .. Height + 1 /\ seg \in 1 .. at /\ chars \in Nat /\ Len(chunks) < at
      /\ CoveredTo(chunks, at) /\ HandedOn(chunks, at)
  BY <1>1, UndecidedIs DEF ChunkInv, ChunkTypes, CutUpTo, Segments
<1>3. Height \in Nat /\ at \in Nat \ {0}
  BY <1>2, LinesAre
<1>4. last \in at - 1 .. Height
  <2>1. {at + MaxLines - 1, Height} \subseteq Nat /\ at + MaxLines - 1 >= at - 1 /\ Height >= at - 1
    BY <1>2, <1>3, ChunkingAssumption
  <2>2. last \in {at + MaxLines - 1, Height} /\ \A y \in {at + MaxLines - 1, Height} : last <= y
    BY <2>1, LeastIs
  <2> QED BY <2>1, <2>2
<1>5. /\ last \in Int /\ last <= Height /\ last + 1 \in Nat /\ last < last + 1 /\ at <= last + 1
      /\ last + 1 \in Int /\ last + 1 <= last + 1
  BY <1>3, <1>4
<1> HIDE DEF last
<1>6. PiecesOk(F) /\ CoveredTo(F, last + 1) /\ SharedOk(F) /\ HandedOn(F, last + 1)
  <2>1. PiecesOk(F)
    BY <1>2, <1>3, <1>5, FlushIs
  <2>2. CoveredTo(F, last + 1)
    BY <1>2, <1>3, <1>5, FlushCovers
  <2>3. SharedOk(F)
    BY <1>2, <1>3, <1>5, FlushShares
  <2>4. HandedOn(F, last + 1)
    BY <1>1, <1>2, <1>3, <1>5, FlushHands
  <2> QED BY <2>1, <2>2, <2>3, <2>4
<1>7. Len(F) < last + 1 /\ Len(F) <= Height
  <2>1. PiecesOk(F)
    BY <1>6
  <2>2. Len(F) \in Nat
    <3> HIDE DEF F
    <3> QED BY <2>1 DEF PiecesOk
  <2>3. Len(F) <= at /\ (last < at => Len(F) < at)
    BY <1>2, <1>3, <1>5, FlushCounts
  <2> HIDE DEF F
  <2> QED BY <1>3, <1>4, <2>2, <2>3
<1> HIDE DEF F
<1>8. TravelOk(chunks', seg', at') /\ TravelOk(chunks', Height + 1, Height + 1) /\ ~Segments
  BY <1>1 DEF TravelOk, Segments
<1>9. CutUpTo' = at'
  BY <1>1 DEF CutUpTo, Segments
<1>10. at' \in 1 .. Height + 1 /\ seg' \in 1 .. at'
  BY <1>1, <1>2, <1>3, <1>4
<1>11. chPc' \in {"cut", "cutDone"} /\ (chPc' # "cut" => last = Height) /\ chPc # "choose"
  BY <1>1
<1>12. chPc' = "cut" \/ CoveredTo(chunks', Height + 1)
  BY <1>1, <1>6, <1>11
<1> QED BY <1>1, <1>2, <1>6, <1>7, <1>8, <1>9, <1>10, <1>11, <1>12, GoesOn

\* A window of a document goes on before its end, by what it may repeat.
LEMMA DocumentWindowKeeps == ASSUME ChunkInv, DocumentWindow PROVE ChunkInv'
<1> DEFINE last == WindowEnd(at)
           ctx == Crumbs(crumb, at, at)
           F == Flushed(at, last, ctx, TRUE)
<1>1. /\ strategy = "document" /\ chPc = "cut" /\ at' = StepBack(at, last) /\ at <= Height
      /\ chPc' = "cut" /\ UNCHANGED <<doc, strategy, profile, seg, chars>> /\ chunks' = F
  BY DEF DocumentWindow, Height
<1>2. /\ DocOk(doc) /\ PiecesOk(chunks) /\ SharedOk(chunks)
      /\ at \in 1 .. Height + 1 /\ seg \in 1 .. at /\ chars \in Nat /\ Len(chunks) < at
      /\ CoveredTo(chunks, at) /\ HandedOn(chunks, at)
  BY <1>1, UndecidedIs DEF ChunkInv, ChunkTypes, CutUpTo, Segments
<1>3. Height \in Nat /\ at \in Nat \ {0}
  BY <1>2, LinesAre
<1>4. last \in at .. Height
  <2> DEFINE ends(j) == \/ j = Height
                        \/ j - at + 1 >= MaxLines \/ SizeOf(at, j) >= MaxChars
                        \/ IsBlank(j) /\ j - at + 1 >= MaxLines \div 2
             S == {j \in at .. Height : ends(j)}
  <2>1. last = Min(S)
    BY DEF WindowEnd, Height
  <2>2. S \subseteq Nat /\ S \subseteq at .. Height
    BY <1>3
  <2>3. Height \in S
    BY <1>1, <1>3
  <2> HIDE DEF S
  <2>4. Min(S) \in S
    BY <2>2, <2>3, LeastIs
  <2> QED BY <2>1, <2>2, <2>4
<1> HIDE DEF last, ctx
<1>5. at' \in at + 1 .. last + 1 /\ at' + Overlap >= last + 1
  BY <1>1, <1>3, <1>4, ChunkingAssumption DEF StepBack
<1>6. last \in Int /\ last <= Height /\ at' \in Int /\ at' <= last + 1 /\ at <= at' /\ last + 1 \in Nat /\ last < last + 1
  BY <1>3, <1>4, <1>5
<1>7. PiecesOk(F) /\ CoveredTo(F, at') /\ SharedOk(F) /\ HandedOn(F, at')
  <2>1. PiecesOk(F)
    BY <1>2, <1>3, <1>5, <1>6, FlushIs
  <2>2. CoveredTo(F, at')
    BY <1>2, <1>3, <1>5, <1>6, FlushCovers
  <2>3. SharedOk(F)
    BY <1>2, <1>3, <1>5, <1>6, FlushShares
  <2>4. HandedOn(F, at')
    BY <1>1, <1>2, <1>3, <1>5, <1>6, FlushHands
  <2> QED BY <2>1, <2>2, <2>3, <2>4
<1>8. Len(F) < at' /\ Len(F) <= Height
  <2>1. PiecesOk(F)
    BY <1>7
  <2>2. Len(F) \in Nat
    <3> HIDE DEF F
    <3> QED BY <2>1 DEF PiecesOk
  <2>3. Len(F) <= at
    BY <1>2, <1>3, <1>6, FlushCounts
  <2>4. last <= Height /\ at \in Nat /\ at <= Height /\ at < at'
    BY <1>1, <1>3, <1>5, <1>6
  <2> HIDE DEF F
  <2> QED BY <1>3, <1>6, <2>2, <2>3, <2>4
<1> HIDE DEF F
<1>9. TravelOk(chunks', seg', at') /\ ~Segments
  BY <1>1 DEF TravelOk, Segments
<1>10. CutUpTo' = at'
  BY <1>1 DEF CutUpTo, Segments
<1>11. at' \in 1 .. Height + 1 /\ seg' \in 1 .. at' /\ chPc' = "cut" /\ chPc # "choose"
  BY <1>1, <1>2, <1>3, <1>4, <1>5
<1> QED BY <1>1, <1>2, <1>7, <1>8, <1>9, <1>10, <1>11, GoesOn

\* Windows end at the end.
LEMMA DocumentEndKeeps == ASSUME ChunkInv, DocumentEnd PROVE ChunkInv'
<1>1. /\ strategy = "document" /\ chPc = "cut" /\ chPc' = "cutDone" /\ at > Height
      /\ UNCHANGED <<doc, strategy, profile, at, seg, chars, chunks>>
  BY DEF DocumentEnd, Height
<1>2. /\ DocOk(doc) /\ PiecesOk(chunks) /\ SharedOk(chunks) /\ Len(chunks) <= Height
      /\ at \in 1 .. Height + 1 /\ seg \in 1 .. at /\ chars \in Nat /\ CoveredTo(chunks, at)
  BY <1>1, UndecidedIs DEF ChunkInv, ChunkTypes, CutUpTo, Segments
<1>3. at = Height + 1
  BY <1>1, <1>2, LinesAre
<1>4. TravelOk(chunks, Height + 1, Height + 1)
  BY <1>1 DEF TravelOk
<1> QED BY <1>1, <1>2, <1>3, <1>4, GoesOn

\* A break of meaning ends the segment; one without a size is blank.
LEMMA SentenceKeeps == ASSUME ChunkInv, Sentence PROVE ChunkInv'
<1> DEFINE cuts == (at \in Breaks /\ chars > 0) \/ chars + Kind(at).size > MaxChars
           F == Flushed(seg, at - 1, <<0, 0>>, FALSE)
<1>1. /\ strategy = "semantic" /\ doc.embeds /\ chPc = "cut" /\ chPc' = "cut" /\ at <= Height
      /\ UNCHANGED <<doc, strategy, profile>> /\ at' = at + 1
      /\ chunks' = IF cuts /\ chars > 0 THEN F ELSE chunks
      /\ seg' = IF cuts THEN at ELSE seg
      /\ chars' = (IF cuts THEN 0 ELSE chars) + Kind(at).size
  BY DEF Sentence, Height
<1> HIDE DEF cuts
<1>2. /\ DocOk(doc) /\ PiecesOk(chunks) /\ SharedOk(chunks) /\ Len(chunks) <= Height /\ Segments
      /\ at \in 1 .. Height + 1 /\ seg \in 1 .. at /\ chars \in Nat /\ Counted(chunks, at)
      /\ CoveredTo(chunks, seg) /\ HandedOn(chunks, seg)
      /\ chars = 0 => \A i \in seg .. at - 1 : IsBlank(i)
  BY <1>1 DEF ChunkInv, ChunkTypes, CutUpTo, Segments, SegmentSize, Cutting
<1>3. /\ Height \in Nat /\ Lines = 1 .. Height /\ at \in Lines /\ Kind(at).size \in Nat
      /\ ~IsBlank(at) => Kind(at).size > 0
  BY <1>1, <1>2, LinesAre
<1>4. /\ at - 1 \in Int /\ at - 1 <= Height /\ seg \in Nat \ {0} /\ at \in Nat /\ at <= Height + 1
      /\ at - 1 < at /\ seg <= at /\ at \in Int /\ at <= (at - 1) + 1
  BY <1>2, <1>3
<1>5. PiecesOk(F)
  BY <1>2, <1>4, FlushIs
<1>6. CoveredTo(F, at)
  BY <1>2, <1>4, FlushCovers
<1>7. SharedOk(F)
  BY <1>2, <1>4, FlushShares
<1>8. HandedOn(F, at)
  BY <1>1, <1>2, <1>4, FlushHands
<1>9. Counted(F, at + 1) /\ Len(F) <= Height
  BY <1>2, <1>4, FlushCounts
<1> HIDE DEF F
<1>10. Len(chunks) \in Nat /\ \A a \in DOMAIN chunks : chunks[a].last \in Nat
  <2>1. PICK C : chunks \in Seq(Piece(C))
    BY <1>2 DEF PiecesOk
  <2>2. \A a \in DOMAIN chunks : chunks[a] \in Piece(C)
    BY <2>1
  <2>3. \A a \in DOMAIN chunks : chunks[a].last \in Nat
    BY <2>2 DEF Piece
  <2>4. Len(chunks) \in Nat
    BY <2>1
  <2> QED BY <2>3, <2>4
<1>11. Counted(chunks, at + 1)
  BY <1>2, <1>4, <1>10 DEF Counted
<1>12. chars = 0 => CoveredTo(chunks, at) /\ HandedOn(chunks, at)
  <2>1. SUFFICES ASSUME chars = 0 PROVE CoveredTo(chunks, at) /\ HandedOn(chunks, at)
    OBVIOUS
  <2>2. CoveredTo(chunks, at)
    <3> SUFFICES ASSUME NEW i \in Lines, i < at, ~IsBlank(i)
                 PROVE  \E k \in DOMAIN chunks : InChunk(i, chunks[k])
      BY DEF CoveredTo
    <3>1. i < seg
      BY <1>2, <1>3, <1>4, <2>1
    <3> QED BY <1>2, <3>1 DEF CoveredTo
  <2>3. HandedOn(chunks, at)
    BY <1>1, <1>2, <1>4, <1>10 DEF HandedOn
  <2> QED BY <2>2, <2>3
<1>13. chars' = 0 => \A i \in seg' .. at' - 1 : IsBlank(i)
  <2>1. SUFFICES ASSUME chars' = 0, NEW i \in seg' .. at' - 1 PROVE IsBlank(i)
    OBVIOUS
  <2>2. Kind(at).size = 0 /\ (cuts \/ chars = 0) /\ IsBlank(at)
    BY <1>1, <1>2, <1>3, <2>1
  <2>3. i = at \/ (~cuts /\ i \in seg .. at - 1)
    BY <1>1, <1>4, <2>1
  <2> QED BY <1>2, <2>2, <2>3
<1>14. TravelOk(chunks', seg', at') /\ CutUpTo' = seg'
  BY <1>1 DEF TravelOk, CutUpTo, Segments
<1>15. at' \in 1 .. Height + 1 /\ seg' \in 1 .. at' /\ chars' \in Nat
  BY <1>1, <1>2, <1>3, <1>4
<1>16. CoveredTo(chunks', seg') /\ HandedOn(chunks', seg')
  BY <1>1, <1>2, <1>6, <1>8, <1>12
<1>17. PiecesOk(chunks') /\ SharedOk(chunks') /\ Counted(chunks', at') /\ Len(chunks') <= Height
  BY <1>1, <1>2, <1>5, <1>7, <1>9, <1>11
<1> QED BY <1>1, <1>2, <1>13, <1>14, <1>15, <1>16, <1>17, GoesOn

\* The last sentences are a chunk, or there are no chunks at all.
LEMMA SentencesEndKeeps == ASSUME ChunkInv, SentencesEnd PROVE ChunkInv'
<1> DEFINE F == Flushed(seg, Height, <<0, 0>>, FALSE)
<1>1. /\ strategy = "semantic" /\ chPc = "cut"
      /\ UNCHANGED <<doc, strategy, profile, at, seg, chars>>
      /\ \/ doc.embeds /\ at > Height /\ chunks' = F /\ chPc' = "cutDone"
         \/ ~doc.embeds /\ chPc' = "done" /\ chunks' = chunks
  BY DEF SentencesEnd, Height
<1>2. /\ DocOk(doc) /\ PiecesOk(chunks) /\ SharedOk(chunks) /\ Len(chunks) <= Height /\ Segments
      /\ at \in 1 .. Height + 1 /\ seg \in 1 .. at /\ chars \in Nat /\ Counted(chunks, at)
      /\ CoveredTo(chunks, seg) /\ HandedOn(chunks, seg)
      /\ ~doc.embeds => chunks = << >>
  BY <1>1 DEF ChunkInv, ChunkTypes, CutUpTo, Segments
<1>3. CASE doc.embeds /\ at > Height /\ chunks' = F /\ chPc' = "cutDone"
  <2>1. /\ Height \in Nat /\ at = Height + 1 /\ seg \in Nat \ {0} /\ at \in Nat
        /\ Height \in Int /\ Height <= Height /\ Height + 1 \in Int /\ Height + 1 <= Height + 1
        /\ Height < at /\ at <= Height + 1
    BY <1>2, <1>3, LinesAre
  <2>2. PiecesOk(F)
    BY <1>2, <2>1, FlushIs
  <2>3. CoveredTo(F, Height + 1)
    BY <1>2, <2>1, FlushCovers
  <2>4. SharedOk(F)
    BY <1>2, <2>1, FlushShares
  <2>5. Len(F) <= Height
    BY <1>2, <2>1, FlushCounts
  <2> HIDE DEF F
  <2>6. TravelOk(F, Height + 1, Height + 1)
    BY <1>1 DEF TravelOk
  <2> QED BY <1>1, <1>2, <1>3, <2>2, <2>3, <2>4, <2>5, <2>6, GoesOn
<1>4. CASE ~doc.embeds /\ chPc' = "done" /\ chunks' = chunks
  <2> HIDE DEF F
  <2>1. chunks' = << >> /\ chPc' = "done"
    BY <1>2, <1>4
  <2> QED BY <1>1, <1>2, <1>4, <2>1, GoesOn
<1> QED BY <1>1, <1>3, <1>4

\* Situations of a chunk.
Situations == {"", "model", "document"}
\* They are what chunks say of themselves.
LEMMA SituationsAre == ASSUME NEW C PROVE Piece(C) = [first : Nat, last : Nat, context : C, situated : Situations, full : BOOLEAN]
BY Zenon DEF Piece, Situations

\* What tells a chunk where it stands changes nothing of its lines.
LEMMA ContextualizeKeeps == ASSUME ChunkInv, Contextualize PROVE ChunkInv'
<1> DEFINE N == Len(chunks)
<1>1. /\ chPc = "cutDone" /\ chPc' = "done" /\ UNCHANGED <<doc, strategy, profile, at, seg, chars>>
      /\ \E w \in [DOMAIN chunks -> Situations] :
           chunks' = [c \in DOMAIN chunks |-> [chunks[c] EXCEPT !.situated = w[c]]]
  <2>1. PICK S \in SUBSET DOMAIN chunks :
          chunks' = [c \in DOMAIN chunks |->
            [chunks[c] EXCEPT !.situated =
               IF c \in S THEN "model" ELSE IF doc.titled THEN "document" ELSE ""]]
    BY DEF Contextualize
  <2> DEFINE w == [c \in DOMAIN chunks |-> IF c \in S THEN "model" ELSE IF doc.titled THEN "document" ELSE ""]
  <2>2. w \in [DOMAIN chunks -> Situations]
    BY Zenon DEF Situations
  <2>3. \A c \in DOMAIN chunks : w[c] = IF c \in S THEN "model" ELSE IF doc.titled THEN "document" ELSE ""
    BY Zenon
  <2>4. chunks' = [c \in DOMAIN chunks |-> [chunks[c] EXCEPT !.situated = w[c]]]
    BY Zenon, <2>1, <2>3
  <2> QED BY Zenon, <2>2, <2>4 DEF Contextualize
<1>2. /\ DocOk(doc) /\ PiecesOk(chunks) /\ SharedOk(chunks) /\ Len(chunks) <= Height
      /\ at \in 1 .. Height + 1 /\ seg \in 1 .. at /\ chars \in Nat
      /\ CoveredTo(chunks, Height + 1) /\ TravelOk(chunks, Height + 1, Height + 1)
  BY <1>1 DEF ChunkInv, ChunkTypes, CutOver
<1>3. PICK C : chunks \in Seq(Piece(C))
  BY <1>2 DEF PiecesOk
<1>4. N \in Nat /\ DOMAIN chunks = 1 .. N /\ \A c \in 1 .. N : chunks[c] \in Piece(C)
  BY <1>3
<1> HIDE DEF N
<1>5. PICK w \in [1 .. N -> Situations] :
        chunks' = [c \in 1 .. N |-> [chunks[c] EXCEPT !.situated = w[c]]]
  BY <1>1, <1>4
<1>6. \A c \in 1 .. N : [chunks[c] EXCEPT !.situated = w[c]] \in Piece(C)
  BY <1>4, SituationsAre
<1>7. chunks' \in Seq(Piece(C)) /\ Len(chunks') = N /\ DOMAIN chunks' = 1 .. N
  <2>1. chunks' \in [1 .. N -> Piece(C)]
    BY <1>5, <1>6
  <2> QED BY <1>4, <2>1, FunctionIsList
<1>8. \A c \in 1 .. N : /\ chunks'[c].first = chunks[c].first /\ chunks'[c].last = chunks[c].last
                        /\ chunks'[c].full = chunks[c].full
  BY <1>4, <1>5, SituationsAre
<1>9. PiecesOk(chunks')
  BY <1>2, <1>4, <1>7, <1>8 DEF PiecesOk
<1>10. SharedOk(chunks')
  BY <1>2, <1>4, <1>7, <1>8 DEF SharedOk, InChunk
<1>11. CoveredTo(chunks', Height + 1)
  BY <1>2, <1>4, <1>7, <1>8 DEF CoveredTo, InChunk
<1>12. TravelOk(chunks', Height + 1, Height + 1)
  <2>1. \A i : Travelled(chunks, i) => Travelled(chunks', i)
    BY <1>4, <1>7, <1>8 DEF Travelled, KeptWhole, TakenAway
  <2>2. \A i : TakenAway(chunks, i) => TakenAway(chunks', i)
    BY <1>4, <1>7, <1>8 DEF TakenAway
  <2> QED BY <1>2, <2>1, <2>2 DEF TravelOk
<1>13. Len(chunks') <= Height
  BY <1>2, <1>7 DEF N
<1> QED BY <1>1, <1>2, <1>9, <1>10, <1>11, <1>12, <1>13, GoesOn

\* No step breaks the invariant, and none at all does not.
LEMMA ChunkingStep == ASSUME ChunkInv, [ChunkingNext]_chunkVars PROVE ChunkInv'
<1>1. CASE UNCHANGED chunkVars
  <2>1. UNCHANGED <<doc, strategy, profile, at, seg, chars, crumb, chunks, chPc>>
    BY <1>1 DEF chunkVars
  <2>2. CASE chPc # "choose"
    <3>1. CutUpTo' = CutUpTo
      BY <2>1 DEF CutUpTo, Segments
    <3>2. strategy # Undecided /\ chPc \in {"cut", "cutDone", "done"}
      BY <2>2 DEF ChunkInv, ChunkTypes, Begun
    <3>3. /\ PiecesOk(chunks) /\ SharedOk(chunks) /\ Len(chunks) <= Height
          /\ at \in 1 .. Height + 1 /\ seg \in 1 .. at /\ chars \in Nat
      BY DEF ChunkInv, ChunkTypes
    <3>4. chPc = "cut" =>
            /\ IF Segments THEN Counted(chunks, at) ELSE Len(chunks) < at
            /\ CoveredTo(chunks, CutUpTo) /\ HandedOn(chunks, CutUpTo)
            /\ TravelOk(chunks, seg, at)
            /\ ~doc.embeds /\ strategy = "semantic" => chunks = << >>
            /\ strategy = "semantic" /\ chars = 0 => \A i \in seg .. at - 1 : IsBlank(i)
      BY <3>2 DEF ChunkInv, SegmentSize, Cutting
    <3>5. chPc = "cut" \/ (chPc = "done" /\ chunks = << >>) \/
            (CoveredTo(chunks, Height + 1) /\ TravelOk(chunks, Height + 1, Height + 1))
      BY <3>2 DEF ChunkInv, CutOver
    <3> QED BY <2>1, <2>2, <3>1, <3>2, <3>3, <3>4, <3>5, GoesOn
  <2>3. CASE chPc = "choose"
    <3>1. /\ strategy = Undecided /\ chunks = << >> /\ at = 1 /\ seg = 1 /\ chars = 0 /\ DocOk(doc)
          /\ PiecesOk(chunks) /\ SharedOk(chunks) /\ CoveredTo(chunks, CutUpTo)
          /\ HandedOn(chunks, CutUpTo) /\ TravelOk(chunks, seg, at) /\ Len(chunks) <= Height
          /\ Counted(chunks, at) /\ at \in 1 .. Height + 1
      BY <2>3 DEF ChunkInv, ChunkTypes, Begun
    <3>2. /\ CutUpTo' = CutUpTo /\ Height' = Height /\ DocOk(doc)' /\ PiecesOk(chunks)'
          /\ SharedOk(chunks)' /\ CoveredTo(chunks, CutUpTo)' /\ HandedOn(chunks, CutUpTo)'
          /\ TravelOk(chunks, seg, at)'
      <4>1. CutUpTo' = CutUpTo
        BY <2>1 DEF CutUpTo, Segments
      <4>2. /\ PiecesOk(chunks') /\ SharedOk(chunks') /\ CoveredTo(chunks', CutUpTo')
            /\ HandedOn(chunks', CutUpTo') /\ TravelOk(chunks', seg', at')
        BY <2>1, <3>1, <4>1
      <4> QED BY <2>1, <3>1, <4>1, <4>2, SameText
    <3>3. Counted(chunks, at)' /\ SegmentSize' /\ ~CutOver'
      BY <2>1, <2>3, <3>1 DEF Counted, SegmentSize, Cutting, CutOver
    <3>4. ChunkTypes'
      BY <2>1, <2>3, <3>1, <3>2 DEF ChunkTypes, Begun
    <3>5. (strategy = Undecided => chunks = << >> /\ at = 1 /\ seg = 1 /\ chars = 0)'
      BY <2>1, <3>1
    <3>6. (~doc.embeds /\ strategy = "semantic" => chunks = << >>)'
      BY <2>1, <3>1
    <3>7. (strategy = Undecided)' /\ (chPc = "choose")'
      BY <2>1, <2>3, <3>1
    <3>8. (Len(chunks) <= Height)'
      BY <2>1, <3>1, <3>2
    <3> QED BY <3>2, <3>3, <3>4, <3>5, <3>6, <3>7, <3>8 DEF ChunkInv
  <2> QED BY <2>2, <2>3
<1>2. CASE ChunkingNext
  BY <1>2, StrategyChosen, CodeLineKeeps, CodeEndKeeps, FixedWindowKeeps, DocumentWindowKeeps,
     DocumentEndKeeps, SentenceKeeps, SentencesEndKeeps, ContextualizeKeeps DEF ChunkingNext
<1> QED BY <1>1, <1>2

\* The lines two chunks share are those from the first of the later one to the
\* last of the earlier one.
LEMMA SharedLines ==
    ASSUME NEW a, NEW b, a.first \in Nat, a.last \in Nat, b.first \in Nat, b.last \in Nat, DocOk(doc),
           b.first + Overlap >= a.last + 1, NEW n \in Nat, n >= 1
    PROVE  Cardinality({i \in Lines : InChunk(i, a) /\ InChunk(i, b)}) <= Overlap * n
<1> DEFINE S == {i \in Lines : InChunk(i, a) /\ InChunk(i, b)}
           R == b.first .. a.last
<1>1. S \subseteq R
  BY LinesAre DEF InChunk
<1>2. IsFiniteSet(R) /\ Cardinality(R) = IF b.first > a.last THEN 0 ELSE a.last - b.first + 1
  <2>1. a.last \in Int /\ b.first \in Int
    OBVIOUS
  <2> QED BY <2>1, FS_Interval
<1> HIDE DEF S, R
<1>3. IsFiniteSet(S) /\ Cardinality(S) <= Cardinality(R)
  BY <1>1, <1>2, FS_Subset
<1>4. Cardinality(S) \in Nat /\ Cardinality(R) <= Overlap
  BY <1>2, <1>3, FS_CardinalityType, ChunkingAssumption
<1>5. Overlap <= Overlap * n
  BY ChunkingAssumption
<1>6. Cardinality(S) <= Overlap * n
  <2>1. Cardinality(R) \in Nat /\ Overlap \in Nat /\ Overlap * n \in Nat
    BY <1>2, FS_CardinalityType, ChunkingAssumption
  <2> QED BY <1>3, <1>4, <1>5, <2>1
<1> QED BY <1>6 DEF S

\* The invariant says that the chunks are sound.
LEMMA ChunkInvSound == ASSUME ChunkInv PROVE ChunkingSound
<1>1. /\ DocOk(doc) /\ PiecesOk(chunks) /\ SharedOk(chunks) /\ Len(chunks) <= Height
      /\ CutOver => CoveredTo(chunks, Height + 1) /\ TravelOk(chunks, Height + 1, Height + 1)
  BY DEF ChunkInv, ChunkTypes
<1>2. Height \in Nat /\ Lines = 1 .. Height /\ Height = Len(doc.lines)
  BY <1>1, LinesAre
<1>3. \A k \in DOMAIN chunks : chunks[k].first \in Nat /\ chunks[k].last \in Nat
  <2>1. PICK C : chunks \in Seq(Piece(C))
    BY <1>1 DEF PiecesOk
  <2>2. \A k \in DOMAIN chunks : chunks[k] \in Piece(C)
    BY <2>1
  <2> QED BY <2>2 DEF Piece
<1>4. DOMAIN chunks \subseteq Nat
  BY <1>1 DEF PiecesOk
<1>5. \A k \in DOMAIN chunks : chunks[k] \in Range(chunks)
  BY DEF Range
<1>6. ASSUME CutOver PROVE \A i \in Lines : ~IsBlank(i) => \E c \in Range(chunks) : InChunk(i, c)
  <2> TAKE i \in Lines
  <2>1. i < Height + 1
    BY <1>2
  <2> QED BY <1>1, <1>5, <1>6, <2>1 DEF CoveredTo
<1>7. ASSUME NEW a \in DOMAIN chunks, NEW b \in DOMAIN chunks, a < b
      PROVE  LET shared == {i \in Lines : InChunk(i, chunks[a]) /\ InChunk(i, chunks[b])}
             IN CASE strategy = "document" -> Cardinality(shared) <= Overlap * (b - a)
                  [] strategy \in {"code", "structure"} ->
                       \A i \in shared : Comment(i) \/ IsBlank(i)
                  [] OTHER -> shared = {}
  <2> DEFINE shared == {i \in Lines : InChunk(i, chunks[a]) /\ InChunk(i, chunks[b])}
  <2>1. CASE strategy = "document"
    <3>1. chunks[b].first + Overlap >= chunks[a].last + 1
      BY <1>1, <1>7, <2>1 DEF SharedOk
    <3>2. b - a \in Nat /\ b - a >= 1
      BY <1>4, <1>7
    <3>3. Cardinality(shared) <= Overlap * (b - a)
      BY <1>1, <1>3, <3>1, <3>2, SharedLines
    <3> QED BY <2>1, <3>3
  <2>2. CASE strategy \in {"code", "structure"}
    <3>1. \A i \in shared : Comment(i) \/ IsBlank(i)
      BY <1>1, <1>7, <2>2 DEF SharedOk, Spare
    <3> QED BY <2>2, <3>1
  <2>3. CASE strategy \notin {"document", "code", "structure"}
    <3>1. chunks[a].last < chunks[b].first
      BY <1>1, <1>7, <2>3 DEF SharedOk
    <3>2. shared = {}
      BY <1>2, <1>3, <3>1 DEF InChunk
    <3> QED BY <2>3, <3>2
  <2> QED BY <2>1, <2>2, <2>3
<1>8. LinesCovered
  BY <1>1, <1>2, <1>6, <1>7 DEF LinesCovered
<1>9. CommentsTravel
  <2> SUFFICES ASSUME CutOver, strategy \in {"code", "structure"}, NEW i \in Lines, Boundary(i)
               PROVE  \/ \E c \in Range(chunks) : Claimed(i) .. i \subseteq c.first .. c.last
                      \/ \E c \in Range(chunks) : c.full /\ c.last \in Claimed(i) .. i - 1
    BY DEF CommentsTravel
  <2>1. i < Height + 1 /\ ~(Height + 1 <= Claimed(i))
    <3>1. Claimed(i) \in 1 .. i /\ i \in 1 .. Height
      BY <1>1, <1>2, ClaimedIs
    <3> QED BY <1>2, <3>1
  <2>2. Travelled(chunks, i)
    BY <1>1, <2>1 DEF TravelOk
  <2> QED BY <1>5, <2>2 DEF Travelled, KeptWhole, TakenAway
<1> QED BY <1>8, <1>9 DEF ChunkingSound

\* Of every document that was cut, no line with text is lost; what two chunks
\* share is the overlap of windows or comments that a definition claimed back
\* (chunker.cpp, code_chunker.cpp, structure.cpp, semantic_chunker.cpp); and a
\* definition keeps its comments unless a full chunk took them.  Assumed of the
\* documents is only that their lines are of known kinds.
THEOREM ChunksAreSound ==
    ASSUME NEW inputs, \A d \in inputs : DocOk(d)
    PROVE  ChunkingInit(inputs) /\ [][ChunkingNext]_chunkVars => []ChunkingSound
<1>1. ChunkingInit(inputs) => ChunkInv
  BY ChunkingStarts
<1>2. ChunkInv /\ [ChunkingNext]_chunkVars => ChunkInv'
  BY ChunkingStep
<1>3. ChunkInv => ChunkingSound
  BY ChunkInvSound
<1> QED BY <1>1, <1>2, <1>3, PTL

-----------------------------------------------------------------------------
(* Extraction.                                                             *)

\* What is assumed of an input: a directory in the order of a recursive walk,
\* in which the directories an entry is in come before it, the outer ones
\* first, or a table.
DirEntry(e) == e.kind \in {"dir", "closed"}
InWalk(es, n) ==
    \A m \in DOMAIN es[n].path :
       \E j \in 1 .. n - 1 :
          /\ DirEntry(es[j]) /\ es[j].name = es[n].path[m]
          /\ es[j].path = SubSeq(es[n].path, 1, m - 1)
WalkOk(es, limit, tab) ==
    /\ \E S : es \in Seq(S)
    /\ limit \in Nat /\ (tab.rows # << >> => es = << >>)
    /\ \A n \in DOMAIN es : es[n].size \in Nat /\ (\E S : es[n].path \in Seq(S)) /\ InWalk(es, n)

Report(n, ok) == [entry |-> n, ok |-> ok]
Document(n) == [entry |-> n, how |-> LoadFile(entries[n]).how, text |-> LoadFile(entries[n]).text]

ExtractionTypes ==
    /\ WalkOk(entries, maxFiles, table)
    /\ walked \in 0 .. Len(entries)
    /\ reported \in Seq({Report(n, ok) : n \in 1 .. walked, ok \in BOOLEAN})
    /\ docs \in Seq({Document(n) : n \in 1 .. walked})
    /\ xPc \in {"walk", "csv", "done"}
    /\ xPc = "csv" => entries = << >>

\* Every directory on the list that the walk met is one it does not go into.
Pruning ==
    /\ pruned \subseteq SkippedDirs
    /\ \A n \in 1 .. walked :
         DirEntry(entries[n]) /\ ~Under(entries[n], SkippedDirs) /\ entries[n].name \in SkippedDirs
           => entries[n].name \in pruned

Limited == maxFiles > 0 => Len(docs) <= maxFiles

PlainRight ==
    \A k \in DOMAIN reported :
       LET e == entries[reported[k].entry]
           plain == e.sig \in {"plain", "bom"} /\ e.ext \notin {".html", ".rtf"} \cup CustomExts \cup DOMAIN Converters
       IN plain /\ e.body # << >> /\ e.size <= MaxFileBytes => (reported[k].ok <=> e.sig = "bom" \/ ~e.nul)

ExtractionInv == ExtractionTypes /\ Pruning /\ Limited /\ FilesAccounted

\* An extraction gives text or says that it does not.
LEMMA LoadAnswers ==
    ASSUME NEW e
    PROVE  LoadFile(e).ok \in BOOLEAN
<1>1. ExtractBytes(e).ok \in BOOLEAN /\ Convert(e).ok \in BOOLEAN
  BY DEF ExtractBytes, Convert, Text, NoText
<1>2. ExtractFile(e).ok \in BOOLEAN
  BY <1>1 DEF ExtractFile
<1> QED BY <1>2 DEF LoadFile, NoText

\* Plain content is what its bytes are, unless one of them is zero and no byte
\* order mark says why.
PlainFileOf(e) == e.sig \in {"plain", "bom"} /\ e.ext \notin {".html", ".rtf"} \cup CustomExts \cup DOMAIN Converters
\* Which of such contents load_file reads.
LEMMA PlainIs ==
    ASSUME NEW e, PlainFileOf(e), e.body # << >>
    PROVE  LoadFile(e).ok <=> e.sig = "bom" \/ ~e.nul
<1>1. ExtractFile(e) = ExtractBytes(e)
  BY DEF ExtractFile, PlainFileOf
<1>2. CASE e.sig = "bom"
  <2>1. ExtractBytes(e) = Text("bom", e.body)
    BY <1>2 DEF ExtractBytes, PlainFileOf
  <2> QED BY <1>1, <1>2, <2>1 DEF LoadFile, Text
<1>3. CASE e.sig = "plain" /\ e.nul
  <2>1. ExtractBytes(e) = NoText
    BY <1>3 DEF ExtractBytes, PlainFileOf
  <2> QED BY <1>1, <1>3, <2>1 DEF LoadFile, NoText
<1>4. CASE e.sig = "plain" /\ ~e.nul
  <2>1. ExtractBytes(e) = Text("plain", e.body)
    BY <1>4 DEF ExtractBytes, PlainFileOf
  <2> QED BY <1>1, <1>4, <2>1 DEF LoadFile, Text
<1> QED BY <1>2, <1>3, <1>4 DEF PlainFileOf

\* A directory an entry is in was met before it.
LEMMA AboveIs ==
    ASSUME NEW es, NEW n, InWalk(es, n), NEW o \in DOMAIN es[n].path
    PROVE  \E j \in 1 .. n - 1 :
              /\ DirEntry(es[j]) /\ es[j].name = es[n].path[o]
              /\ es[j].path = SubSeq(es[n].path, 1, o - 1)
BY DEF InWalk

\* What is in a directory of the list is in one the walk did not go into: the
\* outermost of them was met, and not as hidden itself.
LEMMA HiddenIs ==
    ASSUME ExtractionTypes, Pruning, walked < Len(entries)
    PROVE  Under(At, pruned) <=> Under(At, SkippedDirs)
<1> DEFINE path == At.path
           bad == {m \in DOMAIN path : path[m] \in SkippedDirs}
<1>1. walked + 1 \in DOMAIN entries /\ walked \in Nat
  BY DEF ExtractionTypes, WalkOk
<1>2. PICK S : path \in Seq(S)
  <2>1. WalkOk(entries, maxFiles, table)
    BY DEF ExtractionTypes
  <2>2. \A n \in DOMAIN entries : \E S : entries[n].path \in Seq(S)
    BY <2>1 DEF WalkOk
  <2>3. \E S : entries[walked + 1].path \in Seq(S)
    BY <1>1, <2>2
  <2> QED BY <2>3 DEF At
<1>3. Under(At, pruned) => Under(At, SkippedDirs)
  BY DEF Under, Pruning
<1>4. ASSUME Under(At, SkippedDirs) PROVE Under(At, pruned)
  <2>1. bad \subseteq Nat /\ bad # {}
    BY <1>2, <1>4 DEF Under, Range
  <2>2. PICK m \in bad : \A o \in bad : m <= o
    BY <2>1, LeastNumber
  <2>3. m \in DOMAIN path /\ path[m] \in SkippedDirs /\ m \in 1 .. Len(path) /\ Len(path) \in Nat
    BY <1>2, <2>2
  <2>4. PICK j \in 1 .. walked :
           /\ DirEntry(entries[j]) /\ entries[j].name = path[m]
           /\ entries[j].path = SubSeq(path, 1, m - 1)
    <3>1. PICK n \in DOMAIN entries : n = walked + 1
      BY <1>1
    <3>2. InWalk(entries, n)
      BY DEF ExtractionTypes, WalkOk
    <3>3. path = entries[n].path
      BY <3>1 DEF At
    <3>4. m \in DOMAIN entries[n].path
      BY <2>3, <3>3
    <3>5. PICK j \in 1 .. n - 1 :
             /\ DirEntry(entries[j]) /\ entries[j].name = entries[n].path[m]
             /\ entries[j].path = SubSeq(entries[n].path, 1, m - 1)
      BY <3>2, <3>4, AboveIs
    <3>6. 1 .. n - 1 = 1 .. walked
      BY <1>1, <3>1
    <3> HIDE DEF path
    <3> QED BY <3>3, <3>5, <3>6
  <2>5. ~Under(entries[j], SkippedDirs)
    <3> SUFFICES ASSUME NEW o \in DOMAIN entries[j].path, entries[j].path[o] \in SkippedDirs
                 PROVE  FALSE
      BY DEF Under, Range
    <3>1. o \in 1 .. m - 1 /\ SubSeq(path, 1, m - 1)[o] = path[o]
      BY <2>4, <2>3, <1>2
    <3>2. o \in bad
      BY <3>1, <2>3, <2>4, <1>2
    <3> QED BY <3>1, <3>2, <2>2, <2>3
  <2>6. path[m] \in pruned
    BY <2>3, <2>4, <2>5 DEF Pruning
  <2> QED BY <2>3, <2>6 DEF Under, Range
<1> QED BY <1>3, <1>4

\* What becomes of a file depends on the host's converters only.
LEMMA SameFile ==
    ASSUME tools' = tools, entries' = entries
    PROVE  \A n : (LoadFile(entries[n]) = LoadFile(entries[n])')
<1> SUFFICES ASSUME NEW n PROVE LoadFile(entries[n]) = LoadFile(entries[n])'
  OBVIOUS
<1>1. Convert(entries[n])' = Convert(entries[n])
  BY DEF Convert, Scanned
<1>2. ExtractFile(entries[n])' = ExtractFile(entries[n])
  BY <1>1 DEF ExtractFile
<1> QED BY <1>2 DEF LoadFile

\* What is said of the reports and documents does not change while nothing is
\* passed that is wanted.
LEMMA StepKeeps ==
    ASSUME ExtractionInv, xPc = "walk", walked < Len(entries), walked' = walked + 1,
           UNCHANGED <<entries, maxFiles, tools, docs, reported, table, xPc>>, ~Due(walked + 1),
           pruned' \subseteq SkippedDirs, pruned \subseteq pruned',
           DirEntry(At) /\ ~Under(At, SkippedDirs) /\ At.name \in SkippedDirs => At.name \in pruned'
    PROVE  ExtractionInv'
<1>1. walked + 1 \in DOMAIN entries /\ walked \in Nat /\ walked' \in 0 .. Len(entries)
  BY DEF ExtractionInv, ExtractionTypes, WalkOk
<1>2. 1 .. walked' = (1 .. walked) \cup {walked + 1}
  BY <1>1
<1>3. ExtractionTypes'
  <2>1. WalkOk(entries, maxFiles, table)'
    BY DEF ExtractionInv, ExtractionTypes, WalkOk
  <2>2. (reported \in Seq({Report(n, ok) : n \in 1 .. walked, ok \in BOOLEAN}))'
    <3> DEFINE A == {Report(n, ok) : n \in 1 .. walked, ok \in BOOLEAN}
               B == {Report(n, ok) : n \in 1 .. walked', ok \in BOOLEAN}
    <3>1. A \subseteq B
      BY <1>2
    <3>2. reported \in Seq(A)
      BY DEF ExtractionInv, ExtractionTypes
    <3> HIDE DEF A, B
    <3>3. reported' \in Seq(B)
      BY <3>1, <3>2
    <3> QED BY <3>3 DEF B, Report
  <2>3. (docs \in Seq({Document(n) : n \in 1 .. walked}))'
    <3> DEFINE A == {Document(n) : n \in 1 .. walked}
               B == {Document(n) : n \in 1 .. walked'}
    <3>1. A \subseteq B
      BY <1>2
    <3>2. docs \in Seq(A)
      BY DEF ExtractionInv, ExtractionTypes
    <3> HIDE DEF A, B
    <3>3. docs' \in Seq(B)
      BY <3>1, <3>2
    <3>4. \A n : Document(n)' = Document(n)
      BY SameFile DEF Document
    <3>5. B = {Document(n)' : n \in 1 .. walked'}
      BY <3>4 DEF B
    <3> QED BY <3>3, <3>5
  <2> QED BY <1>1, <2>1, <2>2, <2>3 DEF ExtractionInv, ExtractionTypes
<1>4. Pruning'
  BY <1>1, <1>2 DEF ExtractionInv, Pruning, Under, At
<1>5. Limited'
  BY DEF ExtractionInv, Limited
<1>6. FilesAccounted'
  <2>1. {i \in 1 .. walked' : Due(i)} = {i \in 1 .. walked : Due(i)}
    BY <1>2
  <2>2. FilesAccounted /\ xPc' = xPc
    BY DEF ExtractionInv
  <2>3. {i \in 1 .. walked' : Due(i)'} = {i \in 1 .. walked : Due(i)}
    BY <2>1 DEF Due, Under
  <2>4. EntriesOf(reported) = {i \in 1 .. walked' : Due(i)'}
    BY <2>2, <2>3 DEF FilesAccounted
  <2>5. (Rising(reported) /\ EntriesOf(reported) = {i \in 1 .. walked : Due(i)})'
    BY <2>2, <2>4 DEF FilesAccounted, Rising, EntriesOf
  <2>6. (Rising(docs) /\ EntriesOf(docs) = GoodOf(reported))'
    BY <2>2 DEF FilesAccounted
  <2>7. xPc' # "done"
    BY <2>2
  <2>8. PlainRight
    BY <2>2 DEF FilesAccounted, PlainRight
  <2>9. PlainRight'
    BY <2>8 DEF PlainRight
  <2> QED BY <2>5, <2>6, <2>7, <2>9 DEF FilesAccounted, PlainRight
<1> QED BY <1>3, <1>4, <1>5, <1>6 DEF ExtractionInv

\* A file is reported once the walk has come to it, and gives a document when
\* its extraction has text.
LEMMA VisitKeeps ==
    ASSUME ExtractionInv, xPc = "walk", walked < Len(entries), Due(walked + 1),
           walked' = walked + 1, UNCHANGED <<entries, maxFiles, tools, table, xPc, pruned>>,
           NEW ok \in BOOLEAN, reported' = Append(reported, Report(walked + 1, ok)),
           docs' = IF ok THEN Append(docs, Document(walked + 1)) ELSE docs,
           ok => maxFiles = 0 \/ Len(docs) < maxFiles,
           At.size <= MaxFileBytes => ok = LoadFile(At).ok
    PROVE  ExtractionInv'
<1> DEFINE n == walked + 1
           RS == {Report(m, o) : m \in 1 .. walked, o \in BOOLEAN}
           DS == {Document(m) : m \in 1 .. walked}
           RT == {Report(m, o) : m \in 1 .. n, o \in BOOLEAN}
           DT == {Document(m) : m \in 1 .. n}
<1>1. n \in DOMAIN entries /\ walked \in Nat /\ n \in 0 .. Len(entries) /\ n \in 1 .. n
  BY DEF ExtractionInv, ExtractionTypes, WalkOk
<1>2. 1 .. n = (1 .. walked) \cup {n}
  BY <1>1
<1>3. reported \in Seq(RS) /\ docs \in Seq(DS)
  BY DEF ExtractionInv, ExtractionTypes
<1>4. RS \subseteq RT /\ DS \subseteq DT
  BY <1>2
<1>5. Report(n, ok) \in RT /\ Document(n) \in DT
  BY <1>1
<1>6. \A k \in DOMAIN reported : reported[k] \in RS
  BY <1>3
<1>7. \A k \in DOMAIN docs : docs[k] \in DS
  BY <1>3
<1>8. \A k \in DOMAIN reported : reported[k].entry < n
  BY <1>1, <1>6 DEF Report
<1>9. \A k \in DOMAIN docs : docs[k].entry < n
  BY <1>1, <1>7 DEF Document
<1>10. reported \in Seq(RT) /\ docs \in Seq(DT)
  <2> HIDE DEF RS, DS, RT, DT
  <2> QED BY <1>3, <1>4
<1>11. Document(n).entry = n /\ Report(n, ok).entry = n /\ Report(n, ok).ok = ok
  BY DEF Document, Report
<1> HIDE DEF RS, DS, RT, DT
<1>12. reported' \in Seq(RT) /\ docs' \in Seq(DT)
  BY <1>5, <1>10
<1>13. /\ DOMAIN reported' = DOMAIN reported \cup {Len(reported) + 1}
       /\ \A k \in DOMAIN reported : reported'[k] = reported[k]
       /\ reported'[Len(reported) + 1] = Report(n, ok)
       /\ DOMAIN reported = 1 .. Len(reported) /\ Len(reported) \in Nat
  BY <1>5, <1>10
<1>14. ExtractionTypes'
  <2>1. WalkOk(entries, maxFiles, table)'
    BY DEF ExtractionInv, ExtractionTypes
  <2>2. \A m : Document(m)' = Document(m)
    BY SameFile DEF Document
  <2>3. DT = {Document(m)' : m \in 1 .. walked'}
    BY <2>2 DEF DT
  <2>4. (reported \in Seq({Report(m, o) : m \in 1 .. walked, o \in BOOLEAN}))'
    <3>1. RT = {Report(m, o) : m \in 1 .. walked', o \in BOOLEAN}
      BY DEF RT
    <3> QED BY <1>12, <3>1
  <2> QED BY <1>1, <1>12, <2>1, <2>3, <2>4 DEF ExtractionInv, ExtractionTypes
<1>15. Pruning'
  <2>1. ~DirEntry(entries[n])
    BY DEF Due, DirEntry
  <2> QED BY <1>2, <2>1 DEF ExtractionInv, Pruning, Under
<1>16. Limited'
  BY <1>10, <1>5 DEF ExtractionInv, Limited, ExtractionTypes, WalkOk
<1>17. FilesAccounted'
  <2>1. Rising(reported)' /\ EntriesOf(reported)' = EntriesOf(reported) \cup {n}
    <3>1. Rising(reported)
      BY DEF ExtractionInv, FilesAccounted
    <3> QED BY <1>8, <1>11, <1>13, <3>1 DEF Rising, EntriesOf
  <2>2. EntriesOf(reported)' = {i \in 1 .. walked : Due(i)}'
    <3>1. EntriesOf(reported) = {i \in 1 .. walked : Due(i)}
      BY DEF ExtractionInv, FilesAccounted
    <3>2. \A i : Due(i)' = Due(i)
      BY DEF Due, Under
    <3> QED BY <1>2, <2>1, <3>1, <3>2
  <2>3. /\ Rising(docs)'
        /\ EntriesOf(docs)' = IF ok THEN EntriesOf(docs) \cup {n} ELSE EntriesOf(docs)
    <3>1. Rising(docs)
      BY DEF ExtractionInv, FilesAccounted
    <3>2. CASE ok
      <4>1. /\ DOMAIN docs' = DOMAIN docs \cup {Len(docs) + 1}
            /\ \A k \in DOMAIN docs : docs'[k] = docs[k]
            /\ docs'[Len(docs) + 1] = Document(n)
            /\ DOMAIN docs = 1 .. Len(docs) /\ Len(docs) \in Nat
        BY <1>5, <1>10, <3>2
      <4> QED BY <1>9, <1>11, <3>1, <3>2, <4>1 DEF Rising, EntriesOf
    <3>3. CASE ~ok
      BY <3>1, <3>3 DEF Rising, EntriesOf
    <3> QED BY <3>2, <3>3
  <2>4. (EntriesOf(docs) = GoodOf(reported))'
    <3>1. EntriesOf(docs) = GoodOf(reported)
      BY DEF ExtractionInv, FilesAccounted
    <3>2. GoodOf(reported') = IF ok THEN GoodOf(reported) \cup {n} ELSE GoodOf(reported)
      BY <1>11, <1>13 DEF GoodOf
    <3> QED BY <2>3, <3>1, <3>2
  <2>5. xPc' # "done"
    OBVIOUS
  <2>6. PlainRight'
    <3>1. PlainRight
      BY DEF ExtractionInv, FilesAccounted, PlainRight
    <3>2. \A k \in DOMAIN reported : reported[k].entry = reported'[k].entry /\ reported[k].ok = reported'[k].ok
      BY <1>13
    <3>3. SUFFICES ASSUME NEW k \in DOMAIN reported', PlainFileOf(entries[reported'[k].entry]),
                          entries[reported'[k].entry].body # << >>,
                          entries[reported'[k].entry].size <= MaxFileBytes
                   PROVE  reported'[k].ok <=> entries[reported'[k].entry].sig = "bom"
                                              \/ ~entries[reported'[k].entry].nul
      BY DEF PlainRight, PlainFileOf
    <3>4. CASE k \in DOMAIN reported
      BY <3>1, <3>2, <3>3, <3>4 DEF PlainRight, PlainFileOf
    <3>5. CASE k = Len(reported) + 1
      <4>1. entries[reported'[k].entry] = At /\ reported'[k].ok = ok
        BY <1>11, <1>13, <3>5 DEF At
      <4>2. LoadFile(At).ok <=> At.sig = "bom" \/ ~At.nul
        BY <3>3, <4>1, PlainIs
      <4> QED BY <3>3, <4>1, <4>2
    <3> QED BY <1>13, <3>4, <3>5
  <2> QED BY <2>1, <2>2, <2>3, <2>4, <2>5, <2>6 DEF FilesAccounted, PlainRight
<1> QED BY <1>14, <1>15, <1>16, <1>17 DEF ExtractionInv

\* The end of a walk or of a table.
LEMMA EndKeeps ==
    ASSUME ExtractionInv, UNCHANGED <<entries, maxFiles, tools, walked, pruned, docs, reported, table>>,
           xPc' = "done",
           walked = Len(entries) \/ (maxFiles > 0 /\ Len(docs) >= maxFiles)
             \/ entries[walked + 1].kind = "closed"
    PROVE  ExtractionInv'
<1>1. ExtractionTypes'
  <2>1. \A m : Document(m)' = Document(m)
    BY SameFile DEF Document
  <2>2. (docs \in Seq({Document(m) : m \in 1 .. walked}))'
    <3>1. {Document(m) : m \in 1 .. walked} = {Document(m)' : m \in 1 .. walked'}
      BY <2>1
    <3>2. docs' \in Seq({Document(m) : m \in 1 .. walked})
      BY DEF ExtractionInv, ExtractionTypes
    <3> QED BY <3>1, <3>2
  <2>3. WalkOk(entries, maxFiles, table)'
    BY DEF ExtractionInv, ExtractionTypes
  <2>4. (reported \in Seq({Report(m, o) : m \in 1 .. walked, o \in BOOLEAN}))'
    BY DEF ExtractionInv, ExtractionTypes, Report
  <2> QED BY <2>2, <2>3, <2>4 DEF ExtractionInv, ExtractionTypes
<1>2. Pruning'
  BY DEF ExtractionInv, Pruning, Under, DirEntry
<1>3. Limited'
  BY DEF ExtractionInv, Limited
<1>4. FilesAccounted'
  <2>1. {i \in 1 .. walked : Due(i)}' = {i \in 1 .. walked : Due(i)}
    BY DEF Due, Under
  <2>2. (Rising(reported) /\ EntriesOf(reported) = {i \in 1 .. walked : Due(i)})'
    BY <2>1 DEF ExtractionInv, FilesAccounted, Rising, EntriesOf
  <2>3. (Rising(docs) /\ EntriesOf(docs) = GoodOf(reported))'
    BY DEF ExtractionInv, FilesAccounted
  <2>4. PlainRight'
    <3>1. PlainRight
      BY DEF ExtractionInv, FilesAccounted, PlainRight
    <3> QED BY <3>1 DEF PlainRight
  <2>5. walked < Len(entries) =>
          (maxFiles > 0 /\ Len(docs) = maxFiles) \/ entries[walked + 1].kind = "closed"
    <3>1. Len(docs) \in Nat /\ maxFiles \in Nat /\ walked \in Nat /\ Len(entries) \in Nat
      BY DEF ExtractionInv, ExtractionTypes, WalkOk
    <3> QED BY <3>1 DEF ExtractionInv, Limited
  <2> QED BY <2>2, <2>3, <2>4, <2>5 DEF FilesAccounted, PlainRight
<1> QED BY <1>1, <1>2, <1>3, <1>4 DEF ExtractionInv

\* Nothing changes when nothing does.
LEMMA StillKeeps ==
    ASSUME ExtractionInv, UNCHANGED extractionVars
    PROVE  ExtractionInv'
<1> USE DEF extractionVars
<1>1. ExtractionTypes'
  <2>1. \A m : Document(m)' = Document(m)
    BY SameFile DEF Document
  <2>2. (docs \in Seq({Document(m) : m \in 1 .. walked}))'
    <3>1. {Document(m) : m \in 1 .. walked} = {Document(m)' : m \in 1 .. walked'}
      BY <2>1
    <3>2. docs' \in Seq({Document(m) : m \in 1 .. walked})
      BY DEF ExtractionInv, ExtractionTypes
    <3> QED BY <3>1, <3>2
  <2> QED BY <2>2 DEF ExtractionInv, ExtractionTypes
<1>2. Pruning' /\ Limited'
  BY DEF ExtractionInv, Pruning, Limited, Under
<1>3. FilesAccounted'
  <2>1. {i \in 1 .. walked : Due(i)}' = {i \in 1 .. walked : Due(i)}
    BY DEF Due, Under
  <2>2. (EntriesOf(reported) = {i \in 1 .. walked : Due(i)})'
    BY <2>1 DEF ExtractionInv, FilesAccounted
  <2> QED BY <2>2 DEF ExtractionInv, FilesAccounted
<1> QED BY <1>1, <1>2, <1>3 DEF ExtractionInv

\* The invariant before the walk.
LEMMA ExtractionStarts ==
    ASSUME NEW inputs, \A i \in inputs : WalkOk(i.entries, i.maxFiles, i.table)
    PROVE  ExtractionInit(inputs) => ExtractionInv
<1> SUFFICES ASSUME ExtractionInit(inputs) PROVE ExtractionInv
  OBVIOUS
<1>1. WalkOk(entries, maxFiles, table)
  BY DEF ExtractionInit
<1>2. Len(entries) \in Nat /\ maxFiles \in Nat /\ (table.rows # << >> => entries = << >>)
  BY <1>1 DEF WalkOk
<1>3. ExtractionTypes
  BY <1>1, <1>2 DEF ExtractionInit, ExtractionTypes
<1>4. Pruning /\ Limited
  BY <1>2 DEF ExtractionInit, Pruning, Limited
<1>5. FilesAccounted
  BY <1>2 DEF ExtractionInit, FilesAccounted, Rising, EntriesOf, GoodOf
<1> QED BY <1>3, <1>4, <1>5 DEF ExtractionInv

\* No step of the walk breaks the invariant.
LEMMA ExtractionStep ==
    ExtractionInv /\ [ExtractionNext]_extractionVars => ExtractionInv'
<1> SUFFICES ASSUME ExtractionInv, [ExtractionNext]_extractionVars PROVE ExtractionInv'
  OBVIOUS
<1>1. ExtractionTypes /\ Pruning
  BY DEF ExtractionInv
<1>2. walked \in Nat /\ Len(entries) \in Nat /\ (walked < Len(entries) => walked + 1 \in DOMAIN entries)
  BY <1>1 DEF ExtractionTypes, WalkOk
<1>3. Walking => (Under(At, pruned) <=> Under(At, SkippedDirs))
  BY <1>1, HiddenIs DEF Walking
<1>4. CASE LoadCsv
  <2>1. walked = Len(entries)
    BY <1>1, <1>4 DEF LoadCsv, ExtractionTypes
  <2> QED BY <1>4, <2>1, EndKeeps DEF LoadCsv
<1>5. CASE PassHidden
  <2>1. ~Due(walked + 1)
    BY <1>3, <1>5 DEF PassHidden, Due, At
  <2>2. ~(DirEntry(At) /\ ~Under(At, SkippedDirs) /\ At.name \in SkippedDirs)
    BY <1>3, <1>5 DEF PassHidden
  <2> QED BY <1>1, <1>5, <2>1, <2>2, StepKeeps DEF PassHidden, StepOver, Walking, Pruning
<1>6. CASE EnterDir
  <2>1. ~Due(walked + 1)
    BY <1>6 DEF EnterDir, Due, At
  <2>2. CASE At.name \in SkippedDirs
    BY <1>1, <1>6, <2>1, <2>2, StepKeeps DEF EnterDir, StepOver, Walking, Pruning
  <2>3. CASE At.name \notin SkippedDirs /\ At.kind = "closed"
    BY <1>6, <2>3, EndKeeps DEF EnterDir, At
  <2>4. CASE At.name \notin SkippedDirs /\ At.kind # "closed"
    BY <1>1, <1>6, <2>1, <2>4, StepKeeps DEF EnterDir, StepOver, Walking, Pruning
  <2> QED BY <2>2, <2>3, <2>4
<1>7. CASE PassOther
  <2>1. ~Due(walked + 1) /\ ~DirEntry(At)
    BY <1>7 DEF PassOther, Due, At, DirEntry
  <2> QED BY <1>1, <1>7, <2>1, StepKeeps DEF PassOther, StepOver, Walking, Pruning
<1>8. CASE VisitFile
  <2>1. Due(walked + 1)
    BY <1>3, <1>8 DEF VisitFile, Due, At
  <2>2. At.size \in Nat
    BY <1>1, <1>2, <1>8 DEF VisitFile, Walking, ExtractionTypes, WalkOk, At
  <2>3. CASE At.size > MaxFileBytes
    <3>1. reported' = Append(reported, Report(walked + 1, FALSE))
      BY <1>8, <2>3 DEF VisitFile, Report
    <3>2. ~(At.size <= MaxFileBytes)
      BY <2>2, <2>3, ExtractionAssumption
    <3> QED BY <1>8, <2>1, <2>3, <3>1, <3>2, VisitKeeps DEF VisitFile, Walking
  <2>4. CASE ~(At.size > MaxFileBytes) /\ maxFiles > 0 /\ Len(docs) >= maxFiles
    BY <1>8, <2>4, EndKeeps DEF VisitFile
  <2>5. CASE ~(At.size > MaxFileBytes) /\ ~(maxFiles > 0 /\ Len(docs) >= maxFiles)
    <3> DEFINE ok == LoadFile(At).ok
    <3>1. ok \in BOOLEAN
      BY LoadAnswers
    <3>2. reported' = Append(reported, Report(walked + 1, ok))
      BY <1>8, <2>5 DEF VisitFile, Report
    <3>3. docs' = IF ok THEN Append(docs, Document(walked + 1)) ELSE docs
      BY <1>8, <2>5 DEF VisitFile, Document, At
    <3>4. maxFiles = 0 \/ Len(docs) < maxFiles
      BY <1>1, <2>5 DEF ExtractionTypes, WalkOk
    <3>5. UNCHANGED <<entries, maxFiles, tools, table, xPc, pruned>> /\ walked' = walked + 1
      BY <1>8, <2>5 DEF VisitFile
    <3>6. xPc = "walk" /\ walked < Len(entries)
      BY <1>8 DEF VisitFile, Walking
    <3> HIDE DEF ok
    <3> QED BY <2>1, <3>1, <3>2, <3>3, <3>4, <3>5, <3>6, VisitKeeps DEF ok
  <2> QED BY <2>3, <2>4, <2>5
<1>9. CASE EndOfWalk
  BY <1>9, EndKeeps DEF EndOfWalk
<1>10. CASE UNCHANGED extractionVars
  <2>1. CASE xPc = "done"
    <3>1. walked = Len(entries) \/ (maxFiles > 0 /\ Len(docs) >= maxFiles)
            \/ entries[walked + 1].kind = "closed"
      BY <1>1, <1>2, <2>1 DEF ExtractionInv, FilesAccounted, ExtractionTypes, WalkOk
    <3> QED BY <1>10, <2>1, <3>1, EndKeeps DEF extractionVars
  <2>2. CASE xPc # "done"
    BY <1>10, <2>2, StillKeeps DEF extractionVars
  <2> QED BY <2>1, <2>2
<1> QED BY <1>4, <1>5, <1>6, <1>7, <1>8, <1>9, <1>10 DEF ExtractionNext

\* FilesAccounted: for any directory and any limits, every wanted file the walk
\* got to is reported once, in order, with a document for exactly the good ones,
\* and the walk stops early only at its limit or at a directory it cannot open.
THEOREM EveryFileAccounted ==
    ASSUME NEW inputs, \A i \in inputs : WalkOk(i.entries, i.maxFiles, i.table)
    PROVE  ExtractionInit(inputs) /\ [][ExtractionNext]_extractionVars => []FilesAccounted
<1>1. ExtractionInit(inputs) => ExtractionInv
  BY ExtractionStarts
<1>2. ExtractionInv /\ [ExtractionNext]_extractionVars => ExtractionInv'
  BY ExtractionStep
<1>3. ExtractionInv => FilesAccounted
  BY DEF ExtractionInv
<1> QED BY <1>1, <1>2, <1>3, PTL
=============================================================================
