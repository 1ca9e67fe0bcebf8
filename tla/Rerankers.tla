----------------------------- MODULE Rerankers ------------------------------
(* The refinements of a candidate list: features, cross-encoder, MMR,        *)
(* dartboard, near-duplicate folding and autocut (src/rerank, and the        *)
(* feature reranker of src/pipeline/pipeline.cpp).  A candidate is           *)
(* [chunk, score], a list is best first.  terms[c] are the terms of a chunk  *)
(* and at[c] the place of its embedding on a line, or NotEmbedded.           *)
(* Similarities are integers from 0 to SimOne, which stands for 1.           *)
EXTENDS Fusion

CONSTANTS
    Lambda,        \* relevance against novelty in MMR and dartboard, in tenths
    DupThreshold,  \* dedup's threshold, out of SimOne
    DupWindow,     \* how many candidates dedup compares, 0 for all
    MinKeep, Scan, \* autocut's own floor and how far it looks, 0 for all
    Sensitivity,   \* autocut's factor, 2 in the code
    BlendTenths    \* the cross-encoder's share of a reranked score, in tenths

\* mmr() and dartboard() clamp their weight to 0 .. 1.
ASSUME RerankersAssumption ==
    /\ Lambda \in 0 .. 10 /\ BlendTenths \in Int
    /\ DupWindow \in Nat /\ MinKeep \in Nat /\ Scan \in Nat

SimOne == 12
NotEmbedded == -1

\* The similarity of the refinements: of the embeddings when every candidate
\* has one, else the share of common terms (Jaccard).
HitSim(terms, at, cands, a, b) ==
    LET dense == \A c \in ChunksOf(cands) : at[c] /= NotEmbedded
        union == Cardinality(terms[a] \cup terms[b])
    IN IF dense THEN Clamp(SimOne - 4 * Max({at[a] - at[b], at[b] - at[a]}), 0, SimOne)
       ELSE IF terms[a] = {} \/ terms[b] = {} THEN 0
       ELSE (SimOne * Cardinality(terms[a] \cap terms[b])) \div union

Lowest(cands) == Min(ScoresOf(cands))
Spread(cands) == LET span == Max(ScoresOf(cands)) - Lowest(cands)
                 IN IF span > 0 THEN span ELSE 1

\* The normalised score over Spread, a flat list counting as all ones.
Norm(cands, i) == IF Max(ScoresOf(cands)) = Lowest(cands) THEN 1
                  ELSE cands[i].score - Lowest(cands)

Resorted(cands, score, tie) ==
    LET byChunk == [c \in ChunksOf(cands) |-> score[PlaceOf(cands, c)]]
    IN Ranked(ChunksOf(cands), byChunk, tie)

\* feature_rerank(): nine tenths the normalised score, one tenth the share of
\* the query's distinct terms that the chunk has; RerankStage then sorts.
FeatureReranked(cands, query, terms, tie) ==
    LET score == [i \in DOMAIN cands |->
                    9 * Norm(cands, i) * Cardinality(query)
                      + Cardinality(terms[cands[i].chunk] \cap query) * Spread(cands)]
    IN IF cands = << >> THEN cands
       ELSE IF query = {} THEN Resorted(cands, [i \in DOMAIN cands |-> cands[i].score], tie)
       ELSE Resorted(cands, score, tie)

\* Only the reranked block is sorted, and stably; the tail stays below it.
BlockSorted(cands, n, score) ==
    LET order == Sorted(1 .. n, score, [i \in 1 .. n |-> i])
    IN [i \in DOMAIN cands |->
          IF i > n THEN cands[i]
          ELSE [chunk |-> cands[order[i]].chunk, score |-> score[order[i]]]]

\* RerankStageImpl: the first n candidates get a blend of the model's score
\* and their own, both normalised over the block.
CrossReranked(cands, n, judged) ==
    LET block == SubSeq(cands, 1, n)
        model == [i \in 1 .. n |-> [chunk |-> cands[i].chunk, score |-> judged[cands[i].chunk]]]
        score == [i \in 1 .. n |->
                    BlendTenths * Norm(model, i) * Spread(block)
                      + (10 - BlendTenths) * Norm(block, i) * Spread(model)]
    IN IF cands = << >> THEN cands ELSE BlockSorted(cands, n, score)

\* The indices picked in k greedy rounds, the first of the best each time.
\* gain[S][i] is what i adds to the choice S.
Greedy(n, k, gain) ==
    LET best(S) == CHOOSE i \in 1 .. n \ S : \A j \in 1 .. n \ S :
                      \/ gain[S][i] > gain[S][j]
                      \/ gain[S][i] = gain[S][j] /\ i <= j
        picked[step \in 0 .. k] ==
          IF step = 0 THEN << >>
          ELSE Append(picked[step - 1], best(Range(picked[step - 1])))
    IN picked[k]

Relevance(cands, i) ==
    IF Max(ScoresOf(cands)) = Lowest(cands) THEN 0 ELSE cands[i].score - Lowest(cands)

\* mmr(): relevance against the largest similarity to what was chosen.
Mmr(cands, k, terms, at) ==
    LET n == Len(cands)
        sim(i, j) == HitSim(terms, at, cands, cands[i].chunk, cands[j].chunk)
        gain == [S \in SUBSET (1 .. n) |-> [i \in 1 .. n |->
                    Lambda * Relevance(cands, i) * SimOne
                      - (10 - Lambda) * Max({0} \cup {sim(i, j) : j \in S}) * Spread(cands)]]
        order == Greedy(n, Min({IF k = 0 THEN n ELSE k, n}), gain)
    IN [i \in DOMAIN order |-> cands[order[i]]]

\* dartboard(): relevance against how much better the choice covers the
\* others, each weighted by its plausibility, which grows with relevance.
Dartboard(cands, k, terms, at) ==
    LET n == Len(cands)
        sim(i, j) == IF i = j THEN SimOne
                     ELSE HitSim(terms, at, cands, cands[i].chunk, cands[j].chunk)
        weight(i) == 1 + Relevance(cands, i)
        covered(i, S) == Max({0} \cup {sim(i, j) : j \in S})
        gain == [S \in SUBSET (1 .. n) |-> [d \in 1 .. n |->
                    LET adds(i) == weight(i) * Max({0, sim(d, i) - covered(i, S)})
                    IN Lambda * Relevance(cands, d) * SimOne
                         + (10 - Lambda) * SumOver(1 .. n, adds)]]
        order == Greedy(n, Min({IF k = 0 THEN n ELSE k, n}), gain)
    IN [i \in DOMAIN order |-> cands[order[i]]]

NearDuplicate(terms, at, cands, a, b) == HitSim(terms, at, cands, a, b) >= DupThreshold

\* dedup(): a candidate inside the window is dropped when it resembles one
\* that was kept; beyond the window everything stays.
Dedup(cands, terms, at) ==
    LET win == IF DupWindow = 0 THEN Len(cands) ELSE Min({DupWindow, Len(cands)})
        kept[i \in 0 .. Len(cands)] ==
          IF i = 0 THEN << >>
          ELSE IF i <= win /\ \E h \in Range(kept[i - 1]) :
                    NearDuplicate(terms, at, cands, cands[i].chunk, h.chunk)
          THEN kept[i - 1]
          ELSE Append(kept[i - 1], cands[i])
    IN IF Len(cands) <= 1 THEN cands ELSE kept[Len(cands)]

\* autocut(): cut at the first gap, from minKeep on, that is Sensitivity times
\* the mean of the positive gaps; a flat or a short list is left alone.
Autocut(cands, minKeep) ==
    LET n    == Len(cands)
        keep == Max({1, minKeep})
        scan == IF Scan = 0 THEN n ELSE Min({Scan, n})
        gap(i) == cands[i].score - cands[i + 1].score
        drops == {i \in 1 .. scan - 1 : gap(i) > 0}
        knees == {i \in keep .. scan - 1 :
                    gap(i) * Cardinality(drops) >= SumOver(drops, gap) * Sensitivity}
    IN IF n <= keep \/ scan < 3 \/ drops = {} \/ knees = {} THEN cands
       ELSE SubSeq(cands, 1, Min(knees))
=============================================================================
