----------------------------- MODULE MCHandler ------------------------------
(* Small servers and requests for module Handler.                            *)
EXTENDS Handler, TLC

\* Three chunks: two dated texts, of which "10" sorts before "9", and one without.
HTokens == <<2, 1, 3>>
HMeta == <<"date" :> 1, "date" :> 2, << >>>>
HNumberOf == <<10, 9, NoNumber>>
HRankScore == <<1, 3, 2>>

Found(chunks, scores) == [i \in DOMAIN chunks |-> [chunk |-> chunks[i], score |-> scores[i]]]
Finds ==
    [dense |-> Found(<<1, 2, 3>>, <<4, 2, 1>>), hybrid |-> Found(<<2, 1, 3>>, <<4, 3, 2>>),
     fused |-> Found(<<3, 1, 2>>, <<3, 3, 2>>), sparse |-> Found(<<3, 2>>, <<4, 1>>),
     rewritten |-> Found(<<1, 3>>, <<2, 1>>), graph |-> Found(<<2>>, <<1>>)]

Plain ==
    [maxK |-> 2, enabled |-> {"retrieve", "embed"}, hooks |-> {}, writable |-> FALSE,
     fields |-> {"date"}, splade |-> FALSE, generator |-> "none", reranker |-> "none",
     colbert |-> "none", embedder |-> "works", graph |-> "works", finds |-> Finds]
Full ==
    [Plain EXCEPT !.enabled = {"retrieve", "embed", "graph", "memory", "feedback"},
                  !.splade = TRUE, !.generator = "works", !.reranker = "works",
                  !.colbert = "works", !.maxK = 3]
Servers ==
    {Plain, Full,
     [Full EXCEPT !.reranker = "fails", !.colbert = "fails", !.generator = "fails",
                  !.embedder = "fails", !.graph = "fails"],
     [Full EXCEPT !.reranker = "short", !.generator = "empty", !.embedder = "none",
                  !.finds.graph = << >>],
     [Plain EXCEPT !.colbert = "works", !.hooks = {"embed", "transform", "graph"}]}

Retrieve ==
    [method |-> "retrieve", query |-> TRUE, k |-> 2, mode |-> "hybrid", rewrite |-> "",
     fusion |-> "", candidateK |-> Unset, rerank |-> "no", topN |-> Unset,
     minScore |-> Unset, tokenBudget |-> Unset, includeText |-> TRUE,
     colbert |-> FALSE, documents |-> <<2, 1>>, filter |-> << >>]
Field(op, v) == [op |-> op, field |-> "date", value |-> v, number |-> FALSE, kids |-> {}]
Branch(op, kids) == [op |-> op, field |-> "", value |-> 0, number |-> FALSE, kids |-> kids]
Filters ==
    {<<Field("eq", 2)>>, <<Field("nin", {2})>>, <<Field("exists", TRUE)>>,
     <<[Field("lt", 1) EXCEPT !.number = TRUE]>>, <<Field("gte", 2)>>,
     <<Branch("and", {2, 4}), Branch("not", {3}), Field("ne", 1), Field("in", {1, 3})>>,
     <<Branch("or", {2, 3}), [Field("gt", 2) EXCEPT !.number = TRUE], Field("lte", 2)>>}

Modes ==
    {[Retrieve EXCEPT !.mode = m, !.rewrite = w, !.filter = f] :
        m \in {"dense", "sparse", "hybrid"}, w \in {"", "hyde"}, f \in {<< >>} \cup Filters}
Tails ==
    {[Retrieve EXCEPT !.k = k, !.rerank = r, !.topN = n, !.minScore = s, !.tokenBudget = b,
                      !.fusion = f] :
        k \in {1, 2, Unset}, r \in {"no", "yes"}, n \in {2, Unset}, s \in {2, Unset},
        b \in {1, 3, Unset}, f \in {"", "rrf"}}
Wrongs ==
    {[Retrieve EXCEPT !.query = FALSE], [Retrieve EXCEPT !.k = 0],
     [Retrieve EXCEPT !.candidateK = 2, !.rerank = "yes", !.topN = 3],
     [Retrieve EXCEPT !.candidateK = 3, !.rerank = "yes", !.topN = 2, !.includeText = FALSE],
     [Retrieve EXCEPT !.filter = <<[Field("eq", 1) EXCEPT !.field = "author"]>>]}
Others ==
    {[Retrieve EXCEPT !.method = m, !.query = q, !.colbert = c, !.topN = n] :
        m \in {"rerank", "transform", "embed", "embed_sparse", "embed_multi", "graph",
               "memory_build", "memory_recall", "feedback", "index_add", "index_delete"},
        q \in BOOLEAN, c \in BOOLEAN, n \in {1, Unset}}
Requests == Modes \cup Tails \cup Wrongs \cup Others

HInit == HandlerInit(Servers, Requests)
=============================================================================
