------------------------------- MODULE Fusion -------------------------------
(* Fusing ranked lists (src/fusion/fuse.cpp).  A list is a record:           *)
(*   hits      its results in order, each [chunk, score]                     *)
(*   weight    its vote                                                      *)
(*   floor     the declared theoretical minimum in a set, or {} when the     *)
(*             retriever declares none (no shipped one declares a maximum)   *)
(* Floats are integers here: scores that are divided in the code are brought *)
(* to a common denominator, which changes no comparison between them.        *)
EXTENDS Integers, Sequences, FiniteSets, FiniteSetsExt, Functions, Sums, Selections

CONSTANTS
    RrfK,          \* the rank damping of RRF, 60 in the code
    RobustFrom,    \* the length from which the ceiling is trimmed, 8 in the code
    TrimPercent,   \* 1 - p of the trimmed ceiling, 1 in the code
    Alpha,         \* the weight of the dense list, in tenths, 8 in the code
    AdaptivePull   \* how far confidence moves it, in tenths, 3.5 in the code

ASSUME FusionAssumption ==
    /\ RrfK \in Nat /\ RobustFrom \in Nat /\ TrimPercent \in Nat
    /\ Alpha \in Int /\ AdaptivePull \in Int

Clamp(x, lo, hi) == IF x < lo THEN lo ELSE IF x > hi THEN hi ELSE x

Ranked(S, score, tie) ==
    LET order == Sorted(S, score, tie)
    IN [i \in DOMAIN order |-> [chunk |-> order[i], score |-> score[order[i]]]]

ChunksOf(hits) == {hits[i].chunk : i \in DOMAIN hits}
ScoresOf(hits) == {hits[i].score : i \in DOMAIN hits}
PlaceOf(hits, c) == CHOOSE i \in DOMAIN hits : hits[i].chunk = c
ScoreIn(hits, c) == hits[PlaceOf(hits, c)].score

\* robust_ceiling(): the observed maximum, or in a long list the score below
\* its top share, of which it drops one at least.
RobustCeiling(hits) ==
    LET n     == Len(hits)
        desc  == Sorted(DOMAIN hits, [i \in DOMAIN hits |-> hits[i].score],
                        [i \in DOMAIN hits |-> i])
        index == Min({n - 1, Max({1, (TrimPercent * n) \div 100})})
    IN IF n < RobustFrom THEN Max(ScoresOf(hits)) ELSE hits[desc[index + 1]].score

\* list_confidence() as a fraction: how far the leader stands above the mean,
\* in units of the spread.
Confidence(hits) ==
    LET n    == Len(hits)
        top  == Max(ScoresOf(hits))
        span == top - Min(ScoresOf(hits))
        at(i) == hits[i].score
    IN IF n < 2 \/ span <= 0 THEN [num |-> 1, den |-> 2]
       ELSE [num |-> n * top - SumOver(DOMAIN hits, at), den |-> n * span]

\* rrf(): every list adds its weight over the damped rank.
RrfScores(lists) ==
    LET all   == UNION {ChunksOf(lists[i].hits) : i \in DOMAIN lists}
        ranks == {RrfK + r : r \in 1 .. Cardinality(all)}
        id(x) == x
        share(c, i) == IF c \in ChunksOf(lists[i].hits)
                       THEN lists[i].weight * (ProductOver(ranks, id)
                              \div (RrfK + PlaceOf(lists[i].hits, c)))
                       ELSE 0
    IN [c \in all |-> LET part(i) == share(c, i) IN SumOver(DOMAIN lists, part)]

\* The weighted sum of normalised scores, over the product of the ranges.
Blend(lists, lo, range, weight) ==
    LET full  == {i \in DOMAIN lists : lists[i].hits /= << >>}
        all   == UNION {ChunksOf(lists[i].hits) : i \in full}
        size(i) == range[i]
        norm(c, i) == Clamp(ScoreIn(lists[i].hits, c) - lo[i], 0, range[i])
        share(c, i) == IF c \in ChunksOf(lists[i].hits)
                       THEN weight[i] * norm(c, i) * ProductOver(full \ {i}, size)
                       ELSE 0
    IN [c \in all |-> LET part(i) == share(c, i) IN SumOver(full, part)]

Observed(hits) == Min(ScoresOf(hits))

\* rsf(): each list over its own range; a flat list gives everyone the whole.
RsfScores(lists) ==
    LET full  == {i \in DOMAIN lists : lists[i].hits /= << >>}
        flat(i) == RobustCeiling(lists[i].hits) <= Observed(lists[i].hits)
        lo    == [i \in full |-> Observed(lists[i].hits) - (IF flat(i) THEN 1 ELSE 0)]
        range == [i \in full |-> IF flat(i) THEN 1
                                 ELSE RobustCeiling(lists[i].hits) - lo[i]]
    IN Blend(lists, lo, range, [i \in full |-> lists[i].weight])

\* Broken variant: the shifted weight is not kept between 0 and 1.
AlphaWeightsUnclamped(lists, adaptive) ==
    LET other == Confidence(lists[1].hits)
        mine  == Confidence(lists[2].hits)
        den   == IF adaptive THEN 10 * mine.den * other.den ELSE 10
        num   == IF adaptive THEN Alpha * mine.den * other.den
                   + AdaptivePull * (mine.num * other.den - other.num * mine.den) ELSE Alpha
    IN IF Len(lists) /= 2 THEN [i \in DOMAIN lists |-> lists[i].weight] ELSE <<den - num, num>>

\* The lists' weights: alpha for the second of two lists and the rest for the
\* first, moved towards the more confident one when that is asked for.
AlphaWeights(lists, adaptive) ==
    LET other == Confidence(lists[1].hits)
        mine  == Confidence(lists[2].hits)
        den   == IF adaptive THEN 10 * mine.den * other.den ELSE 10
        pull  == Clamp(AdaptivePull, 0, 5)
        num   == IF adaptive THEN Alpha * mine.den * other.den
                   + pull * (mine.num * other.den - other.num * mine.den) ELSE Alpha
    IN IF Len(lists) /= 2 THEN [i \in DOMAIN lists |-> lists[i].weight]
       ELSE LET a == Clamp(num, 0, den) IN <<den - a, a>>

\* convex_combination(): from the declared floor, or the observed one, to the
\* observed ceiling; a ceiling that is not above the floor is lifted above it.
ConvexScores(lists, adaptive) ==
    LET full  == {i \in DOMAIN lists : lists[i].hits /= << >>}
        lo    == [i \in full |-> IF lists[i].floor = {} THEN Observed(lists[i].hits)
                                 ELSE CHOOSE m \in lists[i].floor : TRUE]
        range == [i \in full |-> Max({1, RobustCeiling(lists[i].hits) - lo[i]})]
    IN Blend(lists, lo, range, AlphaWeights(lists, adaptive))

Fused(lists, fusion, tie, k) ==
    LET score == CASE fusion = "rrf" -> RrfScores(lists)
                   [] fusion = "rsf" -> RsfScores(lists)
                   [] fusion = "convex" -> ConvexScores(lists, FALSE)
                   [] fusion = "adaptive" -> ConvexScores(lists, TRUE)
        by    == IF fusion \in {"rrf", "rsf"} THEN tie ELSE [c \in DOMAIN tie |-> c]
    IN Truncated(Ranked(DOMAIN score, score, by), k)

\* a comes before b in every list that holds b, and scores no less there.
Agreed(lists, a, b) ==
    \A i \in DOMAIN lists : b \in ChunksOf(lists[i].hits) =>
        /\ a \in ChunksOf(lists[i].hits)
        /\ PlaceOf(lists[i].hits, a) <= PlaceOf(lists[i].hits, b)
=============================================================================
