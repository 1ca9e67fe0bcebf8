------------------------------ MODULE Pipeline ------------------------------
(* The retrieval pipeline (src/pipeline/pipeline.cpp): a context threaded    *)
(* through a sequence of stages, from the hybrid search that fills it to the *)
(* cut at k, with the refinements the shipped compositions put in between.   *)
(*                                                                           *)
(* A corpus is what the stages look at: the terms of each chunk, the place   *)
(* of its embedding, its document and its lines.  BM25's score is the number *)
(* of query terms a chunk has, the cosine falls with the distance.           *)
EXTENDS Rerankers

CONSTANTS
    PChunks,       \* the chunks, numbers
    DocOfChunk, FirstLine, LastLine,   \* functions on PChunks
    JudgedBy,      \* the cross-encoder's score of each chunk
    CandidateK,    \* the configured floor of the pool, 60 in the code
    CrossTopN,     \* how many candidates the cross-encoder sees
    MaxGap,        \* lines between fragments that are folded together
    ProbeK, FbDocs, FbTerms,           \* pseudo-relevance feedback
    TieOrders      \* the orders the sorts may give to equals

\* A chunk ends where it begins or later.
ASSUME PipelineAssumption ==
    /\ PChunks \subseteq Nat /\ IsFiniteSet(PChunks)
    /\ FirstLine \in [PChunks -> Int] /\ LastLine \in [PChunks -> Int]
    /\ \A c \in PChunks : FirstLine[c] <= LastLine[c]
    /\ JudgedBy \in [PChunks -> Int]
    /\ CandidateK \in Nat /\ CrossTopN \in Nat /\ ProbeK \in Nat
    /\ FbDocs \in Nat /\ FbTerms \in Nat
    /\ \A tie \in TieOrders :
          tie \in [PChunks -> Int] /\ \A c, d \in PChunks : tie[c] = tie[d] => c = d

VARIABLES
    ask,           \* the corpus and the request, see PipelineInit
    stages,        \* the stages still to run
    words,         \* Context::query, its terms
    cands,         \* Context::candidates
    lists,         \* the retrievers' lists, as fused
    fetched,       \* the candidates as fused and filtered
    ranked,        \* the candidates as last scored
    pipePc         \* "running", "done", "failed"

pipeVars == <<ask, stages, words, cands, lists, fetched, ranked, pipePc>>

Compositions ==
    [standard |-> <<"hybrid", "filter", "feature", "topk">>,
     quality  |-> <<"hybrid", "filter", "feature", "mmr", "topk">>,
     context  |-> <<"hybrid", "filter", "feature", "stitch", "topk">>,
     best     |-> <<"hybrid", "filter", "feature", "dedup", "autocut", "topk">>,
     funnel   |-> <<"prf", "hybrid", "filter", "cross", "stitch", "topk">>,
     diverse  |-> <<"hybrid", "filter", "custom", "dartboard", "topk">>]

\* A request names the composition, k, the query's terms and place, the
\* documents the filter lets pass, the fusion, and whether the embedder works.
PipelineInit(inputs) ==
    /\ ask \in inputs
    /\ stages = Compositions[ask.composition]
    /\ words = ask.query
    /\ cands = << >> /\ lists = << >> /\ fetched = << >> /\ ranked = << >>
    /\ pipePc = "running"

\* Corpus::lexical_search and dense_search, the latter filtered in advance.
LexicalHits(query, k, tie) ==
    LET score == [c \in PChunks |-> Cardinality(ask.terms[c] \cap query)]
    IN Truncated(Ranked({c \in PChunks : score[c] > 0}, score, tie), k)
Cosine(c) == Clamp(SimOne - 4 * Max({ask.at[c] - ask.place, ask.place - ask.at[c]}),
                   -SimOne, SimOne)
Passes(c) == DocOfChunk[c] \in ask.filter
Embedded == {c \in PChunks : ask.at[c] /= NotEmbedded}
DenseHits(k, tie) ==
    Truncated(Ranked({c \in Embedded : Passes(c)}, [c \in Embedded |-> Cosine(c)], tie), k)

\* Broken variant: the pool is as deep as configured, whatever is asked for.
FlatPool(k) == CandidateK

PoolOf(k) == Max({CandidateK, 4 * k})

AtStage(name) == pipePc = "running" /\ stages /= << >> /\ Head(stages) = name
Leaves(name) == AtStage(name) /\ stages' = Tail(stages)

\* HybridRetrieveStage: an embedder that fails leaves the lexical list alone.
HybridRetrieve ==
    /\ Leaves("hybrid")
    /\ \E tie \in TieOrders :
         LET lex   == [hits |-> LexicalHits(words, PoolOf(ask.k), tie), weight |-> 1, floor |-> {0}]
             dense == [hits |-> DenseHits(PoolOf(ask.k), tie), weight |-> 1, floor |-> {-SimOne}]
             got   == IF ask.embedder = "works" THEN <<lex, dense>> ELSE <<lex>>
         IN /\ lists' = got
            /\ cands' = Fused(got, ask.fusion, tie, PoolOf(ask.k))
    /\ fetched' = cands' /\ ranked' = cands'
    /\ UNCHANGED <<ask, words, pipePc>>

Filter ==
    /\ Leaves("filter")
    /\ cands' = Selected(cands, {i \in DOMAIN cands : Passes(cands[i].chunk)})
    /\ fetched' = cands' /\ ranked' = cands'
    /\ UNCHANGED <<ask, words, lists, pipePc>>

\* RerankStage with feature_rerank.
FeatureRerank ==
    /\ Leaves("feature")
    /\ \E tie \in TieOrders : cands' = FeatureReranked(cands, words, ask.terms, tie)
    /\ ranked' = cands'
    /\ UNCHANGED <<ask, words, lists, fetched, pipePc>>

\* RerankStage with a ranker of the caller's: its error ends the run.
CustomRerank ==
    /\ Leaves("custom")
    /\ \/ /\ \E tie \in TieOrders :
               cands' = Resorted(cands, [i \in DOMAIN cands |-> JudgedBy[cands[i].chunk]], tie)
          /\ UNCHANGED pipePc
       \/ /\ cands /= << >> /\ pipePc' = "failed" /\ UNCHANGED cands
    /\ ranked' = cands'
    /\ UNCHANGED <<ask, words, lists, fetched>>

\* RerankStageImpl: a model that is not available leaves the order untouched.
CrossEncode ==
    /\ Leaves("cross")
    /\ \/ cands' = CrossReranked(cands, Min({CrossTopN, Len(cands)}), JudgedBy)
       \/ cands /= << >> /\ cands' = cands
    /\ ranked' = cands'
    /\ UNCHANGED <<ask, words, lists, fetched, pipePc>>

Refines(name, refined) ==
    /\ Leaves(name)
    /\ cands' = refined
    /\ UNCHANGED <<ask, words, lists, fetched, ranked, pipePc>>

MmrStage == Refines("mmr", IF cands = << >> THEN cands ELSE Mmr(cands, ask.k, ask.terms, ask.at))
DartboardStage ==
    Refines("dartboard", IF cands = << >> THEN cands
                         ELSE Dartboard(cands, ask.k, ask.terms, ask.at))
DedupStage == Refines("dedup", Dedup(cands, ask.terms, ask.at))
AutocutStage ==
    Refines("autocut", IF Len(cands) <= 1 THEN cands ELSE Autocut(cands, Max({MinKeep, ask.k})))

\* Fragments of one document whose lines are within MaxGap of each other.
Adjoining(a, b) ==
    LET gap == IF FirstLine[b] > LastLine[a] THEN FirstLine[b] - LastLine[a]
               ELSE IF FirstLine[a] > LastLine[b] THEN FirstLine[a] - LastLine[b] ELSE 0
    IN DocOfChunk[a] = DocOfChunk[b] /\ gap <= MaxGap

\* Broken variant: a fragment is compared with the candidate right before it.
StitchedPairwise(hits) ==
    LET stays(i) == i = 1 \/ ~Adjoining(hits[i - 1].chunk, hits[i].chunk)
        kept == {i \in DOMAIN hits : stays(i)}
        order == Sorted(kept, [i \in kept |-> 0], [i \in kept |-> i])
    IN [j \in DOMAIN order |-> hits[order[j]]]

\* A candidate is folded into the first kept one it neighbours.
Stitched(hits) ==
    LET kept[i \in 0 .. Len(hits)] ==
          IF i = 0 THEN << >>
          ELSE IF \E h \in Range(kept[i - 1]) : Adjoining(h.chunk, hits[i].chunk)
          THEN kept[i - 1]
          ELSE Append(kept[i - 1], hits[i])
    IN kept[Len(hits)]

ParentStitch == Refines("stitch", IF Len(cands) < 2 THEN cands ELSE Stitched(cands))
TopK == Refines("topk", Truncated(cands, ask.k))

\* PrfExpandStage: the most frequent new terms of the first probed chunks join
\* the query; among equally frequent ones the choice is the sort's.
PrfExpand ==
    /\ Leaves("prf")
    /\ \E tie \in TieOrders :
         LET probe == LexicalHits(words, ProbeK, tie)
             seed  == {probe[i].chunk : i \in 1 .. Min({FbDocs, Len(probe)})}
             new   == UNION {ask.terms[c] : c \in seed} \ words
             freq(t) == Cardinality({c \in seed : t \in ask.terms[c]})
         IN \E S \in SUBSET new :
              /\ Cardinality(S) = Min({FbTerms, Cardinality(new)})
              /\ \A t \in S, u \in new \ S : freq(t) >= freq(u)
              /\ words' = words \cup S
    /\ UNCHANGED <<ask, cands, lists, fetched, ranked, pipePc>>

\* Pipeline::run returns the candidates when no stage is left.
RunEnds ==
    /\ pipePc = "running" /\ stages = << >>
    /\ pipePc' = "done"
    /\ UNCHANGED <<ask, stages, words, cands, lists, fetched, ranked>>

PipelineNext ==
    \/ HybridRetrieve \/ Filter \/ FeatureRerank \/ CustomRerank \/ CrossEncode
    \/ MmrStage \/ DartboardStage \/ DedupStage \/ AutocutStage \/ ParentStitch \/ TopK
    \/ PrfExpand \/ RunEnds

-----------------------------------------------------------------------------
Has(name) == \E i \in DOMAIN Compositions[ask.composition] :
                Compositions[ask.composition][i] = name
Past(name) == Has(name) /\ \A i \in DOMAIN stages : stages[i] /= name

\* What any of the retrievers could find, without a pool.
Findable ==
    {c \in PChunks : \/ ask.terms[c] \cap words /= {}
                     \/ ask.embedder = "works" /\ c \in Embedded}

\* The fusion inverts no agreement of the retrievers: what comes first in
\* every list that has them both, and is in every list that has the other,
\* scores no less (src/fusion/fuse.cpp:187, :149: ranges that invert and
\* weights outside 0 .. 1 would).
UnanimityKept ==
    ~AtStage("hybrid") /\ ~AtStage("prf") /\ fetched = cands /\ ranked = cands
      /\ stages /= << >> /\ Head(stages) = "filter" =>
    \A a, b \in ChunksOf(cands) :
        Agreed(lists, a, b) => ScoreIn(cands, a) >= ScoreIn(cands, b)

\* A composition that folds gives the caller fewer than k results only when
\* whatever was fetched and passes is a result or is folded into one; one that
\* does not fold, with no filter, gives k or all there is
\* (src/pipeline/pipeline.cpp:32: the pool is never narrower than the request;
\* src/rerank/refine.cpp:137: autocut never cuts below k).
KeepsWhatWasAsked ==
    pipePc = "done" =>
      LET out == ChunksOf(cands)
          folded(r, c) == \/ Has("stitch") /\ Adjoining(r, c)
                          \/ Has("dedup") /\ NearDuplicate(ask.terms, ask.at, fetched, r, c)
      IN /\ Len(cands) <= ask.k /\ \A c \in out : Passes(c)
         /\ Len(cands) < ask.k =>
              \A c \in ChunksOf(fetched) \ out : \E r \in out : folded(r, c)
         /\ ~Has("stitch") /\ ~Has("dedup") /\ (\A c \in PChunks : Passes(c)) =>
              Len(cands) = Min({ask.k, Cardinality(Findable)})

\* The refinements after the last scoring keep its leader, unless nothing was
\* asked for, keep its order unless they are there to change it, and once folded no two of the
\* candidates could be folded together (src/rerank/refine.cpp:54).
RefinementSound ==
    /\ ranked /= << >> /\ ask.k > 0 /\ ~Past("dartboard") =>
         cands /= << >> /\ Head(cands).chunk = Head(ranked).chunk
    /\ ~Past("mmr") /\ ~Past("dartboard") =>
         \A i, j \in DOMAIN cands : i < j =>
            PlaceOf(ranked, cands[i].chunk) < PlaceOf(ranked, cands[j].chunk)
    /\ \A a, b \in ChunksOf(cands) : a /= b =>
         /\ Past("stitch") => ~Adjoining(a, b)
         /\ Past("dedup") /\ DupWindow = 0 =>
              ~NearDuplicate(ask.terms, ask.at, fetched, a, b)
=============================================================================
