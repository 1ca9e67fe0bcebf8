-------------------------------- MODULE Wand --------------------------------
(* Block-max WAND, the lexical search that skips what cannot be an answer    *)
(* (src/lexical/bm25.cpp, search_wand), over the block metadata finalize()   *)
(* derives, and the exhaustive scoring it stands in for (search).            *)
(*                                                                           *)
(* A term's postings are the documents it occurs in, in order.  The product  *)
(* idf * query frequency * precomputed weight is one number per posting,     *)
(* positive because the smoothed idf is; floats are integers here, so two    *)
(* sums that are equal in the model are equal in any order of addition.      *)
EXTENDS Integers, Sequences, FiniteSets, FiniteSetsExt, Functions, Sums

CONSTANTS
    WandTerms,     \* the distinct query terms
    WandDocs,      \* the ordinals of the documents, a set of numbers
    BlockSize      \* kBlockSize, 128 in the code

ASSUME WandAssumption ==
    /\ IsFiniteSet(WandTerms) /\ IsFiniteSet(WandDocs) /\ WandDocs \subseteq Nat
    /\ BlockSize \in Nat \ {0}

VARIABLES
    contrib,       \* contrib[t][d]: what t adds to the score of d, 0 when d has no t
    want,          \* k
    postings,         \* postings[t]: the postings of t and their blocks, as finalize() leaves them
    cursor,        \* cursor[t]: index of the current posting of t, past the end when spent
    heap,          \* the best results so far, [doc, score]
    theta,         \* the score a result has to beat once the heap is full
    wandPc         \* "search" until the loop breaks, then "done"

wandVars == <<contrib, want, postings, cursor, heap, theta, wandPc>>

Exhausted == 1 + Max(WandDocs \cup {0})   \* kExhausted

Ascending(S) == [i \in 1 .. Cardinality(S) |->
                 CHOOSE d \in S : Cardinality({e \in S : e <= d}) = i]

\* finalize(): postings are cut in blocks of BlockSize, each with its last
\* document and its largest contribution; the term keeps the largest of all.
BlockOf(i) == 1 + (i - 1) \div BlockSize
Finalized(weight) ==
    LET docs     == Ascending({d \in WandDocs : weight[d] > 0})
        count    == BlockOf(Len(docs))
        within(b) == {i \in DOMAIN docs : BlockOf(i) = b}
        blocks   == [b \in 1 .. count |->
                       [last |-> docs[Max(within(b))],
                        maxPw |-> Max({weight[docs[i]] : i \in within(b)})]]
    IN [docs |-> docs, blocks |-> IF docs = << >> THEN << >> ELSE blocks]

MatchedTerms == {t \in WandTerms : postings[t].docs /= << >>}
DocOf(t, i) == IF i <= Len(postings[t].docs) THEN postings[t].docs[i] ELSE Exhausted
Doc(t) == DocOf(t, cursor[t])
TermMax(t) == Max({b.maxPw : b \in Range(postings[t].blocks)})
BlockMax(t) == postings[t].blocks[BlockOf(cursor[t])].maxPw
Spent(t) == Len(postings[t].docs) + 1

\* Broken variant: a block whose last document is the target is hopped too.
SkipPast(t, i, target) ==
    LET blocks == postings[t].blocks
        ahead  == {b \in DOMAIN blocks : b >= BlockOf(i) /\ blocks[b].last > target}
        from   == IF ahead = {} THEN Spent(t) ELSE Max({i, (Min(ahead) - 1) * BlockSize + 1})
    IN IF target <= DocOf(t, i) THEN i
       ELSE Min({j \in from .. Spent(t) : DocOf(t, j) >= target})

\* skip_to: hop the blocks that end before the target, then scan inside one.
SkipTo(t, i, target) ==
    LET blocks == postings[t].blocks
        ahead  == {b \in DOMAIN blocks : b >= BlockOf(i) /\ blocks[b].last >= target}
        from   == IF ahead = {} THEN Spent(t) ELSE Max({i, (Min(ahead) - 1) * BlockSize + 1})
    IN IF target <= DocOf(t, i) THEN i
       ELSE Min({j \in from .. Spent(t) : DocOf(t, j) >= target})

\* The document of the first cursor, in document order, at which the sum of
\* the terms' upper bounds exceeds theta.
LiveTerms == {t \in MatchedTerms : Doc(t) /= Exhausted}
PivotDocs == {Doc(t) : t \in {u \in LiveTerms :
                 SumOver({v \in LiveTerms : Doc(v) <= Doc(u)}, TermMax) > theta}}
FrontDoc == Min({Doc(t) : t \in LiveTerms})
Aligned == {t \in LiveTerms : Doc(t) = Min(PivotDocs)}

WandInit(inputs) ==
    /\ \E in \in inputs : contrib = in.contrib /\ want = in.want
    /\ postings = [t \in WandTerms |-> Finalized(contrib[t])]
    /\ cursor = [t \in WandTerms |-> 1]
    /\ heap = {} /\ theta = 0
    /\ wandPc = IF want = 0 THEN "done" ELSE "search"

Searching == wandPc = "search" /\ PivotDocs /= {}

\* No cursor is left, or all of them together cannot beat theta.
WandStop ==
    /\ wandPc = "search" /\ PivotDocs = {}
    /\ wandPc' = "done"
    /\ UNCHANGED <<contrib, want, postings, cursor, heap, theta>>

\* The maxima of the blocks the aligned cursors are in cannot beat theta.
Prunable == SumOver(Aligned, BlockMax) <= theta

\* The pivot is not scored; one aligned cursor passes it (which of them is the
\* sort's choice among equals).
WandPrune ==
    /\ Searching /\ FrontDoc = Min(PivotDocs) /\ Prunable
    /\ \E t \in Aligned :
         cursor' = [cursor EXCEPT ![t] = SkipTo(t, @, FrontDoc + 1)]
    /\ UNCHANGED <<contrib, want, postings, heap, theta, wandPc>>

LowestScore(S) == Min({h.score : h \in S})

\* The pivot is scored over the aligned terms and enters the heap; a full heap
\* gives up a worst entry (which of them is the heap's choice among equals).
Admitted(h) ==
    IF Cardinality(heap) < want THEN {heap \cup {h}}
    ELSE IF h.score > theta
         THEN {(heap \ {w}) \cup {h} : w \in {v \in heap : v.score = LowestScore(heap)}}
         ELSE {heap}

Threshold(S) == IF Cardinality(S) = want THEN LowestScore(S) ELSE theta

WandScore ==
    /\ Searching /\ FrontDoc = Min(PivotDocs) /\ ~Prunable
    /\ LET part(t) == contrib[t][FrontDoc]
       IN \E S \in Admitted([doc |-> FrontDoc, score |-> SumOver(Aligned, part)]) :
            heap' = S /\ theta' = Threshold(S)
    /\ cursor' = [t \in WandTerms |->
                    IF t \in Aligned THEN SkipTo(t, cursor[t], FrontDoc + 1) ELSE cursor[t]]
    /\ UNCHANGED <<contrib, want, postings, wandPc>>

\* The cursors before the pivot are moved up to it.
WandAlign ==
    /\ Searching /\ FrontDoc < Min(PivotDocs)
    /\ cursor' = [t \in WandTerms |->
                    IF t \in LiveTerms /\ Doc(t) < Min(PivotDocs)
                    THEN SkipTo(t, cursor[t], Min(PivotDocs)) ELSE cursor[t]]
    /\ UNCHANGED <<contrib, want, postings, heap, theta, wandPc>>

WandNext == WandStop \/ WandPrune \/ WandScore \/ WandAlign

-----------------------------------------------------------------------------
\* search(), the exhaustive path: every posting of every term, added up.
Exhaustive(d) == LET part(t) == contrib[t][d] IN SumOver(WandTerms, part)

\* A document is decided when every cursor has passed it or the loop has ended.
Decided(d) == wandPc = "done" \/ \A t \in MatchedTerms : Doc(t) > d

\* The skips lose nothing: at every step of the search, and so at its end, a
\* result carries the score the exhaustive path gives it, and a matching
\* document that was passed over without becoming a result is no better than
\* any of the k results held instead (src/lexical/bm25.cpp:400: "same top-k as
\* the exhaustive path").  Which of several equal documents is kept is open.
NothingLost ==
    /\ \A h \in heap : h.score = Exhaustive(h.doc)
    /\ \A d \in WandDocs :
         Decided(d) /\ Exhaustive(d) > 0 /\ (\A h \in heap : h.doc /= d) =>
            /\ Cardinality(heap) = want
            /\ \A h \in heap : h.score >= Exhaustive(d)
=============================================================================
