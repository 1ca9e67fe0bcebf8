------------------------------ MODULE MCSearch ------------------------------
(* Small inputs for the modules of the search side: lexical search, the      *)
(* pipeline, the document graph, the tree of summaries, the strategies, the  *)
(* learned sparse index and the waves that link vectors.                     *)
EXTENDS Wand, Pipeline, DocGraph, Raptor, Strategies, Splade, Waves

\* The weights of the postings, where one term's rise along its list.
WandWeights ==
    {c \in [WandTerms -> [WandDocs -> 0 .. 2]] :
        \E t \in WandTerms : \A i, j \in WandDocs : i < j => c[t][i] <= c[t][j]}
WandInputs == [contrib : WandWeights, want : 1 .. 2]
WandRest == {[contrib |-> [t \in WandTerms |-> [d \in WandDocs |-> 0]], want |-> 1]}

-----------------------------------------------------------------------------
\* Four chunks, three of one document: the first two near each other, the
\* third far off; what reranks prefers the second and the last.
MCPChunks == 1 .. 4
MCDocOfChunk == <<"A", "A", "A", "B">>
MCFirstLine == <<1, 4, 12, 1>>
MCLastLine == <<3, 6, 14, 3>>
MCJudgedBy == <<1, 3, 2, 3>>
MCTieOrders == {[c \in MCPChunks |-> c], [c \in MCPChunks |-> 5 - c]}

NowhereEmbedded == [c \in MCPChunks |-> NotEmbedded]
TermSets ==
    {<<{"x"}, {"x"}, {"y"}, {"x", "y"}>>, <<{"x", "y"}, {"z"}, {"x"}, {"x"}>>,
     <<{"x", "y"}, {"x", "y", "z"}, {"y", "z"}, {"x"}>>, <<{"x", "y"}, {"x", "y"}, {"x"}, {"x", "y"}>>}
Placings == {<<0, 1, 3, 0>>, <<0, 5, 5, 5>>}
PipeInputs ==
    {[composition |-> p, k |-> k, query |-> {"x", "y"}, place |-> 0, filter |-> f, fusion |-> u,
      embedder |-> e, terms |-> t, at |-> IF e = "none" THEN NowhereEmbedded ELSE pl] :
        p \in DOMAIN Compositions, k \in {1, 3}, f \in {{"A", "B"}, {"A"}},
        u \in {"rrf", "rsf", "convex", "adaptive"}, e \in {"none", "works", "offline"},
        t \in TermSets, pl \in Placings}
PipeRest ==
    {[composition |-> p, k |-> 1, query |-> {}, place |-> 0, filter |-> {"A"}, fusion |-> "rrf",
      embedder |-> "none", terms |-> [c \in MCPChunks |-> {}], at |-> NowhereEmbedded] :
        p \in {CHOOSE p \in DOMAIN Compositions : TRUE}}

-----------------------------------------------------------------------------
\* Four documents, with and without links, of every mixture of likenesses.
DocPairs == {{x[1], x[2]} : x \in {y \in (1 .. 4) \X (1 .. 4) : y[1] # y[2]}}
Likenesses ==
    {s \in [DocPairs -> 0 .. 2] :
        s[{1, 4}] = 0 /\ s[{1, 3}] = 0 /\ s[{2, 4}] = 1 /\ s[{1, 2}] # 2
        /\ s[{2, 3}] # 1 /\ s[{3, 4}] # 2}
GraphInputs == [links : {<<{}, {}, {}, {}>>, <<{2, 3}, {}, {4}, {}>>}, sim : Likenesses]
GraphRest == {[links |-> <<{}, {}, {}, {}>>, sim |-> [p \in DocPairs |-> 0]]}

RaptorInputs ==
    [leaves : UNION {[1 .. n -> [place : {0, 2, 3, 6}, embedded : {TRUE}]] : n \in {3, 4}},
     minCluster : 2 .. 3]
    \cup [leaves : [1 .. 5 -> [place : {0, 2, 6}, embedded : {TRUE}]], minCluster : {2}]
    \cup [leaves : [1 .. 2 -> [place : {0, 6}, embedded : BOOLEAN]], minCluster : {1}]
RaptorRest == {[leaves |-> << >>, minCluster |-> 2]}

-----------------------------------------------------------------------------
MCSChunks == 1 .. 4
MCSDoc == <<1, 1, 2, 2>>
MCLateScore == <<2, 0, 3, 1>>
MCCrossScore == <<1, 3, 2, 0>>
MCGrade == <<2, 5, 8, 3>>

BasePlan ==
    [kind |-> "cascade", embedder |-> "none", embedded |-> {}, near |-> [t \in 0 .. 2 |-> <<1, 2, 3, 4>>],
     match |-> [t \in 0 .. 2 |-> << >>], retrieveK |-> 3, lateK |-> 2, crossK |-> 1, k |-> 2,
     late |-> "works", cross |-> "fails", generated |-> 0, take |-> 2, include |-> TRUE,
     scorer |-> "works", tokens |-> 3, stride |-> 1, pick |-> 1, dropIrrelevant |-> TRUE,
     external |-> "works"]
Worlds ==
    {[BasePlan EXCEPT !.embedder = e, !.embedded = E, !.match = m, !.near = n, !.k = k] :
        e \in {"works", "fails"}, E \in {{}, {2}, {1, 2, 4}}, k \in {1, 3},
        m \in [0 .. 2 -> {<< >>, <<3>>, <<4, 1, 2>>}],
        n \in {[t \in 0 .. 2 |-> IF t = 1 THEN <<4, 2, 1, 3>> ELSE <<3, 4, 2, 1>>]}}
OneQuery == {w \in Worlds : w.match[1] = w.match[0] /\ w.match[2] = w.match[0]}
StrategyInputs ==
    UNION {
        {[w EXCEPT !.kind = "cascade", !.late = l, !.cross = c, !.lateK = x, !.crossK = y,
                   !.retrieveK = z] :
            w \in OneQuery, l, c \in {"works", "fails"}, x, y \in {1, 2}, z \in {2, 4}},
        {[w EXCEPT !.kind = kd, !.generated = g, !.take = 1, !.include = i] :
            w \in Worlds, kd \in {"hyde", "multi"}, g \in 0 .. 2, i \in BOOLEAN},
        {[w EXCEPT !.kind = "replug", !.scorer = s] : w \in Worlds, s \in {"works", "fails"}},
        {[w EXCEPT !.kind = kd, !.stride = s, !.pick = q] :
            w \in Worlds, kd \in {"retro", "incontext"}, s \in {0, 2}, q \in {1, 3}},
        {[w EXCEPT !.kind = "crag", !.dropIrrelevant = i, !.external = x] :
            w \in {v \in Worlds : v.match[1] = << >>}, i \in BOOLEAN, x \in {"works", "fails"}}}
StrategyRest == {BasePlan}

SpladeInputs ==
    [chunks : [1 .. 3 -> {{1}, {1, 2}, {2, 3}}],
     cfg : {DefaultCfg, [decay |-> 8, tok |-> "default"], [decay |-> 8, tok |-> "plain"]}]
SpladeRest == {[chunks |-> << >>, cfg |-> [decay |-> 4, tok |-> "default"]]}

-----------------------------------------------------------------------------
\* Six vectors at the marks of a Golomb ruler, in two orders, on every choice
\* of levels, as one batch or behind two that were added one by one.
Ruler == <<0, 1, 4, 10, 12, 17>>
MCSim(u, v) == IF u < v THEN u - v ELSE v - u
VecItem(mark) == [id |-> mark, vec |-> Ruler[mark]]
VecOrders == {<<5, 1, 3, 6, 2, 4>>, <<3, 6, 1, 5, 4, 2>>}
TwoAdded(order, levels) ==
    Add(Add(EmptyGraph, order[1], Ruler[order[1]], levels[1]),
          order[2], Ruler[order[2]], levels[2])
WavesInputs ==
    {[graph |-> EmptyGraph, items |-> [n \in 1 .. 6 |-> VecItem(o[n])], levels |-> l] :
        o \in VecOrders, l \in [1 .. 6 -> 0 .. 1]}
    \cup
    {[graph |-> TwoAdded(<<2, 4>>, l), items |-> [n \in 1 .. 4 |-> VecItem(<<6, 1, 3, 5>>[n])],
      levels |-> l] : l \in [1 .. 4 -> 0 .. 1]}
WavesRest == {[graph |-> EmptyGraph, items |-> <<VecItem(1)>>, levels |-> <<0>>]}
=============================================================================
