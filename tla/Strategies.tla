----------------------------- MODULE Strategies -----------------------------
(* The retrieval strategies built around a corpus and around models that may *)
(* fail: the cascade (src/cascade), HyDE and multi-query (src/query), REPLUG,*)
(* RETRO and in-context retrieval (src/ralm), late interaction (src/late)    *)
(* and corrective retrieval (src/crag).                                      *)
(*                                                                           *)
(* A text is a number, 0 the question itself.  For each the corpus has an    *)
(* order of nearness, of which the dense search sees the embedded chunks,    *)
(* and a list of lexical matches.  Scores of models are functions on chunks. *)
EXTENDS Fusion

CONSTANTS
    SChunks,       \* the chunks, 1 .. n in the order of the corpus
    SDoc,          \* the document of each
    LateScore,     \* the MaxSim of each chunk, 0 when its text embeds to nothing
    CrossScore,    \* the cross-encoder's score
    Grade,     \* the grade of the corrective evaluator, 0 .. 10
    Upper, Lower,  \* CragConfig::upper, lower
    Strips         \* CragConfig::strips

\* The thresholds divide the grades and a correction may keep something; the
\* code takes them from its caller and does not check them.
ASSUME StrategiesAssumption ==
    /\ IsFiniteSet(SChunks) /\ SChunks = 1 .. Cardinality(SChunks)
    /\ LateScore \in [SChunks -> Int] /\ CrossScore \in [SChunks -> Int]
    /\ Grade \in [SChunks -> Int]
    /\ Upper \in Int /\ Lower \in Nat /\ Lower < Upper
    /\ Strips \in Nat \ {0}

VARIABLES
    plan,          \* the request and what the components do for it
    sPc,           \* "start", the stage of a cascade, "done", "failed"
    sPool,         \* the candidates of the cascade
    worked,        \* the stages of the cascade that succeeded
    yield          \* what the strategy returns

stratVars == <<plan, sPc, sPool, worked, yield>>

StrategiesInit(inputs) ==
    /\ plan \in inputs
    /\ sPc = "start" /\ sPool = << >> /\ worked = {} /\ yield = << >>

Starts(kind) == sPc = "start" /\ plan.kind = kind
Returns(result) ==
    /\ yield' = result /\ sPc' = "done"
    /\ UNCHANGED <<plan, sPool, worked>>
Fails == sPc' = "failed" /\ UNCHANGED <<plan, sPool, worked, yield>>

\* The dense search serves the embedded chunks, so it may succeed with nothing.
Near(t, k) ==
    LET near == plan.near[t]
    IN Truncated(Selected(near, {i \in DOMAIN near : near[i] \in plan.embedded}), k)
Lexical(t, k) == Truncated(plan.match[t], k)
Served == plan.embedder = "works"

\* The dense list, or the lexical one when that has nothing.
DenseElseLexical(t, k) ==
    IF Served /\ Near(t, k) # << >> THEN Near(t, k) ELSE Lexical(t, k)

\* retrieve_text: a dense search that succeeds is the answer, whatever it has.
RetrieveText(t, k) == IF Served THEN Near(t, k) ELSE Lexical(t, k)

\* The chunks by descending score; among equals the order is the sort's.
ReorderedBy(chunks, score, tie) ==
    LET order == Sorted(DOMAIN chunks, [i \in DOMAIN chunks |-> score[chunks[i]]], tie)
    IN [i \in DOMAIN chunks |-> chunks[order[i]]]

\* ColbertReranker and the cascade's cross-encoder: the sort is stable.
Reordered(chunks, score) == ReorderedBy(chunks, score, [i \in DOMAIN chunks |-> i])

-----------------------------------------------------------------------------
\* Cascade::run, a stage at a time.
CascadeRetrieve ==
    /\ Starts("cascade")
    /\ sPool' = DenseElseLexical(0, plan.retrieveK)
    /\ sPc' = IF sPool' = << >> THEN "done" ELSE "late"
    /\ UNCHANGED <<plan, worked, yield>>

\* Broken variant: the pool is cut although the stage failed.
StageCutting(stage, next, k, widen, score) ==
    /\ sPc = stage /\ sPc' = next
    /\ \/ /\ plan[stage] = "works"
          /\ sPool' = Truncated(Reordered(Truncated(sPool, widen * k), score), k)
          /\ worked' = worked \cup {stage}
       \/ /\ plan[stage] # "works"
          /\ sPool' = Truncated(sPool, k) /\ UNCHANGED worked
    /\ UNCHANGED <<plan, yield>>

\* A stage scores a widened pool and keeps its k best; one that is not there,
\* fails or answers with another number of scores leaves the pool as it was.
CascadeStage(stage, next, k, widen, score) ==
    /\ sPc = stage /\ sPc' = next
    /\ \/ /\ plan[stage] = "works"
          /\ sPool' = Truncated(Reordered(Truncated(sPool, widen * k), score), k)
          /\ worked' = worked \cup {stage}
       \/ plan[stage] # "works" /\ UNCHANGED <<sPool, worked>>
    /\ UNCHANGED <<plan, yield>>

CascadeLate == CascadeStage("late", "cross", plan.lateK, 3, LateScore)
CascadeCross == CascadeStage("cross", "final", plan.crossK, 2, CrossScore)
CascadeFinal == sPc = "final" /\ Returns(Truncated(sPool, plan.k))

-----------------------------------------------------------------------------
ListOf(chunks) == [hits |-> [i \in DOMAIN chunks |-> [chunk |-> chunks[i], score |-> 0]],
                   weight |-> 1, floor |-> {}]
NonEmpty(results) == Selected(results, {i \in DOMAIN results : results[i] # << >>})
FusedChunks(results, k, tie) ==
    LET hits == Fused([i \in DOMAIN results |-> ListOf(results[i])], "rrf", tie, k)
    IN [i \in DOMAIN hits |-> hits[i].chunk]
STies == {[c \in SChunks |-> c], [c \in SChunks |-> -c]}

\* hyde_search: the generated passages in one batch, and the question when it
\* is asked for or nothing else was found.
HydeSearch ==
    /\ Starts("hyde")
    /\ LET texts == [i \in 1 .. Min({plan.generated, plan.take}) |-> i]
           guess == NonEmpty([i \in DOMAIN texts |-> DenseElseLexical(texts[i], plan.k)])
           own   == RetrieveText(0, plan.k)
           both  == IF plan.include \/ guess = << >> THEN NonEmpty(Append(guess, own)) ELSE guess
       IN \/ both = << >> /\ Fails
          \/ Len(both) = 1 /\ Returns(Truncated(both[1], plan.k))
          \/ Len(both) > 1 /\ \E tie \in STies : Returns(FusedChunks(both, plan.k, tie))

\* multi_query_search: the question and its paraphrases in one batch.
MultiQuery ==
    /\ Starts("multi")
    /\ LET found == NonEmpty([i \in 1 .. plan.generated + 1 |-> DenseElseLexical(i - 1, plan.k)])
       IN \/ found = << >> /\ Fails
          \/ found # << >> /\ \E tie \in STies : Returns(FusedChunks(found, plan.k, tie))

\* replug_step: one call of the language model per document; an error of one
\* call is the strategy's.  The answer mixes a distribution of each document.
Replug ==
    /\ Starts("replug")
    /\ LET found == DenseElseLexical(0, plan.k)
       IN \/ (found = << >> \/ plan.scorer = "fails") /\ Fails
          \/ found # << >> /\ plan.scorer = "works" /\ Returns(found)

\* The next chunk of the same document, 0 for none.
Continuation(c) == IF c + 1 \in SChunks /\ SDoc[c + 1] = SDoc[c] THEN c + 1 ELSE 0

\* The texts of an input cut every stride tokens, text i at token i.
Positions(stride) == {p \in 0 .. plan.tokens - 1 : p % Max({stride, 1}) = 0}
Strides(stride) == Sorted(Positions(stride), [p \in Positions(stride) |-> 0],
                          [p \in Positions(stride) |-> p])

\* retro_retrieve: neighbours, with what follows them, for every stride.
Retro ==
    /\ Starts("retro")
    /\ LET at == Strides(plan.stride)
           row(p) == LET found == DenseElseLexical(p, plan.k)
                     IN [i \in DOMAIN found |-> [chunk |-> found[i],
                                                 then |-> Continuation(found[i])]]
       IN Returns([i \in DOMAIN at |-> row(at[i])])

\* incontext_plan: a choice of the picker for every stride that finds
\* something, the best when the choice is none of the passages.
InContext ==
    /\ Starts("incontext")
    /\ LET found(p) == DenseElseLexical(p, plan.k)
           all == Strides(plan.stride)
           at == Selected(all, {i \in DOMAIN all : found(all[i]) # << >>})
       IN Returns([i \in DOMAIN at |->
              [position |-> at[i],
               chunk |-> LET hits == found(at[i])
                         IN hits[IF plan.pick \in DOMAIN hits THEN plan.pick ELSE 1]]])

-----------------------------------------------------------------------------
Confident(graded) == IF graded = << >> THEN 0 ELSE Grade[Head(graded)]
Sorts(hits) == {[i \in DOMAIN hits |-> i], [i \in DOMAIN hits |-> -i]}
ActionFor(confidence) ==
    IF confidence >= Upper THEN "correct"
    ELSE IF confidence <= Lower THEN "incorrect" ELSE "ambiguous"

\* correct(): the set is graded by its best passage; what is relevant enough is
\* kept; unless that suffices an external source adds to it, or replaces it.
Correct ==
    /\ Starts("crag")
    /\ LET hits == DenseElseLexical(0, plan.k)
       IN \E tie \in Sorts(hits) :
            LET graded == ReorderedBy(hits, Grade, tie)
                action == ActionFor(Confident(graded))
                fit    == {i \in DOMAIN graded : ~plan.dropIrrelevant \/ Grade[graded[i]] > Lower}
                kept   == Truncated(Selected(graded, fit), Strips)
                asks   == action # "correct" /\ plan.external = "works"
            IN Returns([action |-> action, hits |-> hits, kept |-> kept, external |-> asks,
                        knowledge |-> IF asks /\ action = "incorrect" THEN << >> ELSE kept])

StrategiesNext ==
    \/ CascadeRetrieve \/ CascadeLate \/ CascadeCross \/ CascadeFinal
    \/ HydeSearch \/ MultiQuery \/ Replug \/ Retro \/ InContext \/ Correct

-----------------------------------------------------------------------------
\* Whether a text has lexical matches, and what it can find at all.
Answerable(t) == plan.match[t] # << >>
Reachable(t) == Range(plan.match[t]) \cup (IF Served THEN plan.embedded ELSE {})

CascadeWidth ==
    Min({plan.k, plan.retrieveK, Cardinality(IF Served /\ plan.embedded # {} THEN plan.embedded
                                             ELSE Range(plan.match[0]))}
        \cup (IF "late" \in worked THEN {plan.lateK} ELSE {})
        \cup (IF "cross" \in worked THEN {plan.crossK} ELSE {}))

\* Whatever models fail, a strategy degrades and does not break: a cascade
\* gives as many distinct results as its working stages leave; HyDE and
\* multi-query fail only when neither the question nor a generated text finds
\* anything, or the dense search served the question with nothing
\* (src/query/hyde.cpp:15), REPLUG when its model fails; a continuation
\* belongs to the document it continues; and a correction is without any
\* knowledge only when it says "incorrect".
StrategiesDegrade ==
    /\ sPc = "failed" =>
         \/ plan.kind = "replug" /\ (plan.scorer = "fails" \/ ~Answerable(0))
         \/ plan.kind = "multi" /\ \A t \in 0 .. plan.generated : ~Answerable(t)
         \/ /\ plan.kind = "hyde" /\ ((Served /\ plan.embedded = {}) \/ ~Answerable(0))
            /\ \A t \in 1 .. Min({plan.generated, plan.take}) : ~Answerable(t)
    /\ sPc = "done" /\ plan.kind = "cascade" =>
         /\ Len(yield) = CascadeWidth /\ Cardinality(Range(yield)) = Len(yield)
         /\ Range(yield) \subseteq Reachable(0)
    /\ sPc = "done" /\ plan.kind \in {"hyde", "multi"} =>
         /\ yield # << >> /\ Len(yield) <= plan.k
         /\ Range(yield) \subseteq UNION {Reachable(t) : t \in 0 .. plan.generated}
    /\ sPc = "done" /\ plan.kind = "retro" =>
         \A i \in DOMAIN yield : \A nb \in Range(yield[i]) :
            nb.then # 0 => SDoc[nb.then] = SDoc[nb.chunk] /\ nb.then # nb.chunk
    /\ sPc = "done" /\ plan.kind = "incontext" =>
         \A i, j \in DOMAIN yield :
            /\ yield[i].chunk \in Reachable(yield[i].position)
            /\ i < j => yield[j].position - yield[i].position >= plan.stride
    /\ sPc = "done" /\ plan.kind = "crag" =>
         /\ yield.knowledge = << >> /\ ~yield.external => yield.action = "incorrect"
         /\ yield.external => yield.action # "correct"
=============================================================================
