------------------------------- MODULE Handler ------------------------------
(* The handler that serves an engine over RCP (include/rag/rcp/handler.hpp   *)
(* and convert.hpp): what it advertises, and what it answers to every method *)
(* that does not write; index/add, index/delete and persist are in           *)
(* DurableCorpus.                                                            *)
(*                                                                           *)
(* A server is a record of the parts a host attached and of what its engine  *)
(* would find for the request: a ranked list of hits for each way to recall. *)
(* A text of the metadata is a number that orders it among texts; a reranker *)
(* is a function on chunks that works, fails or answers too few scores.      *)
EXTENDS Integers, Sequences, FiniteSets, Sums, Selections

CONSTANTS
    Tokens,        \* the tokens of each chunk's text
    Meta,          \* the metadata of each chunk: field -> text
    NumberOf,      \* the number a text reads as
    NoNumber,      \* of a text that reads as none
    Unset,         \* an option the request does not carry
    RankScore      \* what a reranker that works gives each chunk

VARIABLES
    hSrv,          \* Options, Hooks and the engine
    hAsk,          \* the request
    hPc,           \* "received", "recall", "finish", "replied", "refused"
    hParams,       \* RetrieveParams
    hHits,         \* results
    hRanked,       \* did_rerank
    hReply         \* the reply, or the error

handlerVars == <<hSrv, hAsk, hPc, hParams, hHits, hRanked, hReply>>

AtMost(a, b) == IF a < b THEN a ELSE b
AtLeast(a, b) == IF a > b THEN a ELSE b
Head0(s, n) == SubSeq(s, 1, AtMost(Len(s), n))
Given(option, dflt) == IF option = Unset THEN dflt ELSE option

-----------------------------------------------------------------------------
\* compile_filter: a tree of nodes, the root first, each naming later ones.
\* A field that is not there satisfies only negations; a number is compared
\* as a number where the text reads as one, and as text otherwise.
Compared(op, a, b) ==
    CASE op = "gt" -> a > b [] op = "gte" -> a >= b
      [] op = "lt" -> a < b [] op = "lte" -> a <= b

LeafHolds(node, meta) ==
    LET present == node.field \in DOMAIN meta
        text == meta[node.field]
    IN CASE node.op = "exists" -> present = node.value
         [] node.op # "exists" /\ ~present -> node.op \in {"ne", "nin"}
         [] node.op = "eq" /\ present -> text = node.value
         [] node.op = "ne" /\ present -> text # node.value
         [] node.op = "in" /\ present -> text \in node.value
         [] node.op = "nin" /\ present -> text \notin node.value
         [] node.op \in {"gt", "gte", "lt", "lte"} /\ present ->
               IF node.number /\ NumberOf[text] # NoNumber
               THEN Compared(node.op, NumberOf[text], NumberOf[node.value])
               ELSE Compared(node.op, text, node.value)

FilterKeeps(tree, c) ==
    LET holds[i \in DOMAIN tree] ==
            LET node == tree[i]
            IN CASE node.op = "and" -> \A j \in node.kids : holds[j]
                 [] node.op = "or" -> \E j \in node.kids : holds[j]
                 [] node.op = "not" -> \A j \in node.kids : ~holds[j]
                 [] OTHER -> LeafHolds(node, Meta[c])
    IN tree = << >> \/ holds[1]

\* The library's validation: a leaf may name an advertised field only.
FilterValid(tree, fields) ==
    \A i \in DOMAIN tree : tree[i].op \in {"and", "or", "not"} \/ tree[i].field \in fields

-----------------------------------------------------------------------------
\* capabilities: what a server with these parts tells its clients it can do.
Offers(what, when) == IF when THEN what ELSE {}
Advertised(s) ==
    Offers({"retrieve", "dense", "hybrid"}, "retrieve" \in s.enabled)
    \cup Offers({"sparse"}, "retrieve" \in s.enabled /\ s.splade)
    \cup Offers({"rewrite"}, s.generator # "none" \/ "transform" \in s.hooks)
    \cup Offers({"rerank"}, s.reranker # "none" \/ s.colbert # "none" \/ "rerank" \in s.hooks)
    \cup Offers({"embed"}, "embed" \in s.enabled /\ (s.embedder # "none" \/ "embed" \in s.hooks))
    \cup Offers({"embed_sparse"}, s.splade \/ "embed_sparse" \in s.hooks)
    \cup Offers({"embed_multi"}, s.colbert # "none" \/ "embed_multi" \in s.hooks)
    \cup Offers({"transform"}, s.generator # "none" \/ "transform" \in s.hooks)
    \cup Offers({"graph"}, "graph" \in s.enabled \/ "graph" \in s.hooks)
    \cup Offers({"index_add", "index_delete"}, s.writable \/ "index_add" \in s.hooks)
    \cup Offers({"feedback"}, "feedback" \in s.enabled \/ "feedback" \in s.hooks)
    \cup Offers({"memory_build", "memory_recall"},
                "memory" \in s.enabled \/ "memory_build" \in s.hooks)
    \cup Offers({"filter"}, s.fields # {})

HandlerInit(servers, requests) ==
    /\ hSrv \in servers /\ hAsk \in requests
    /\ hPc = "received" /\ hParams = << >> /\ hHits = << >>
    /\ hRanked = FALSE /\ hReply = << >>

Received(method) == hPc = "received" /\ hAsk.method = method /\ method \notin hSrv.hooks
Answered(reply) ==
    /\ hReply' = reply /\ hPc' = "replied"
    /\ UNCHANGED <<hSrv, hAsk, hParams, hHits, hRanked>>
Refused(code) ==
    /\ hReply' = code /\ hPc' = "refused"
    /\ UNCHANGED <<hSrv, hAsk, hParams, hHits, hRanked>>

\* A hook replaces the built-in method, whatever the parts are.
Hooked ==
    /\ hPc = "received" /\ hAsk.method \in hSrv.hooks
    /\ Answered("hook")

-----------------------------------------------------------------------------
\* parse_retrieve: k is clamped, and the funnel candidateK >= topN >= k holds
\* once the defaults are in.
TopN(r, k) ==
    IF r.rerank = "no" THEN k ELSE AtLeast(Given(r.topN, AtLeast(k, 10)), k)

Parsed0(r, maxK) ==
    LET k == AtMost(Given(r.k, 10), maxK)
        topN == TopN(r, k)
    IN [k |-> k, topN |-> topN,
        candidateK |-> Given(r.candidateK, AtLeast(topN, 4 * k))]

\* retrieve, up to the filter: a request that is not well formed, that turns
\* the funnel round or that asks for what the server has not is refused.
ParseRetrieve ==
    /\ Received("retrieve")
    /\ LET p == Parsed0(hAsk, hSrv.maxK)
       IN \/ /\ ~hAsk.query \/ hAsk.k = 0 \/ p.candidateK < p.topN
             /\ Refused("InvalidParams")
          \/ /\ hAsk.query /\ hAsk.k # 0 /\ p.candidateK >= p.topN
             /\ hAsk.mode = "sparse" /\ ~hSrv.splade
             /\ Refused("OptionUnsupported")
          \/ /\ hAsk.query /\ hAsk.k # 0 /\ p.candidateK >= p.topN
             /\ hAsk.mode # "sparse" \/ hSrv.splade
             /\ IF FilterValid(hAsk.filter, hSrv.fields)
                THEN /\ hParams' = p /\ hPc' = "recall"
                     /\ UNCHANGED <<hSrv, hAsk, hHits, hRanked, hReply>>
                ELSE Refused("InvalidParams")

Rewrites == hAsk.rewrite # "" /\ hSrv.generator # "none"
Kept(r, hits) == Selected(hits, {i \in DOMAIN hits : FilterKeeps(r.filter, hits[i].chunk)})
Recalled(hits) ==
    /\ hHits' = Head0(hits, hParams.candidateK) /\ hPc' = "finish"
    /\ UNCHANGED <<hSrv, hAsk, hParams, hRanked, hReply>>

\* retrieve, the recall: the dense and the hybrid search walk the filter, the
\* other paths do not know of it.
Recall ==
    /\ hPc = "recall"
    /\ \/ Rewrites /\ Recalled(hSrv.finds.rewritten)
       \/ ~Rewrites /\ hAsk.mode = "sparse" /\ Recalled(hSrv.finds.sparse)
       \/ /\ ~Rewrites /\ hAsk.mode = "dense"
          /\ IF hSrv.embedder = "works" THEN Recalled(Kept(hAsk, hSrv.finds.dense))
             ELSE Refused("BackendUnavailable")
       \/ /\ ~Rewrites /\ hAsk.mode = "hybrid"
          /\ Recalled(Kept(hAsk, hSrv.finds[IF hAsk.fusion = "" THEN "hybrid" ELSE "fused"]))

\* The reranker that is there, a cross-encoder before late interaction.
Reranker == IF hSrv.reranker # "none" THEN hSrv.reranker ELSE hSrv.colbert

\* A stable sort of hits by score, the best first.
ByScore(hits) ==
    LET before(i, j) == hits[i].score > hits[j].score \/ (hits[i].score = hits[j].score /\ i < j)
        place(i) == 1 + Cardinality({j \in DOMAIN hits : before(j, i)})
    IN [n \in DOMAIN hits |-> hits[CHOOSE i \in DOMAIN hits : place(i) = n]]

RerankTop(hits, n) ==
    LET top == AtMost(n, Len(hits))
    IN ByScore([i \in 1 .. top |-> [hits[i] EXCEPT !.score = RankScore[hits[i].chunk]]])
       \o SubSeq(hits, top + 1, Len(hits))

\* finish_retrieve, the rerank: the hits stay as they are where it fails.
Rerank ==
    /\ hPc = "finish" /\ ~hRanked
    /\ hAsk.rerank # "no" /\ Reranker = "works" /\ hReply = << >>
    /\ hHits' = RerankTop(hHits, hParams.topN)
    /\ hRanked' = TRUE
    /\ UNCHANGED <<hSrv, hAsk, hPc, hParams, hReply>>

Reranks == hAsk.rerank # "no" /\ Reranker = "works" /\ ~hRanked

Good(r, h) == r.minScore = Unset \/ h.score >= r.minScore
GoodOnes(r, hits) == Selected(hits, {i \in DOMAIN hits : Good(r, hits[i])})

\* Broken variant: the hits are cut to k before the weak ones are dropped.
TrimmedFirst(r, hits, k) == GoodOnes(r, Head0(hits, k))
\* minScore, then the best k of what is left.
Trimmed(r, hits, k) == Head0(GoodOnes(r, hits), k)

\* tokenBudget: hits until one does not fit; the first is taken whatever it is.
TextTokens(r, h) == IF r.includeText THEN Tokens[h.chunk] ELSE 0
TokensOf(r, hits) == SumOf([i \in DOMAIN hits |-> TextTokens(r, hits[i])])
Budgeted(r, hits) ==
    IF r.tokenBudget = Unset THEN hits
    ELSE LET fits == {n \in 1 .. Len(hits) :
                        \A m \in 2 .. n : TokensOf(r, SubSeq(hits, 1, m)) <= r.tokenBudget}
         IN SubSeq(hits, 1, Cardinality(fits))

\* finish_retrieve, the rest of it.
Finish ==
    /\ hPc = "finish" /\ ~Reranks
    /\ Answered(Budgeted(hAsk, Trimmed(hAsk, hHits, hParams.k)))

-----------------------------------------------------------------------------
\* rerank: the cross-encoder, or late interaction where it is asked for or alone.
RerankMethod ==
    /\ Received("rerank")
    /\ LET used == IF hAsk.colbert /\ hSrv.colbert # "none" THEN hSrv.colbert ELSE Reranker
           docs == hAsk.documents
       IN \/ used = "none" /\ Refused("CapabilityMissing")
          \/ used # "none" /\ ~hAsk.query /\ Refused("InvalidParams")
          \/ used = "fails" /\ hAsk.query /\ Refused("BackendUnavailable")
          \/ /\ used \in {"works", "short"} /\ hAsk.query
             /\ LET n == IF used = "short" THEN Len(docs) - 1 ELSE Len(docs)
                    scored == [i \in 1 .. n |-> [chunk |-> i, score |-> RankScore[docs[i]]]]
                IN Answered(Head0(ByScore(scored), Given(hAsk.topN, n)))

\* query/transform: completions that are empty are left out, and the query
\* stands in where nothing is left.
Transform ==
    /\ Received("transform")
    /\ \/ hSrv.generator = "none" /\ Refused("CapabilityMissing")
       \/ hSrv.generator # "none" /\ ~hAsk.query /\ Refused("InvalidParams")
       \/ hSrv.generator = "fails" /\ hAsk.query /\ Refused("BackendUnavailable")
       \/ hSrv.generator = "works" /\ hAsk.query /\ Answered(<<"completion">>)
       \/ hSrv.generator = "empty" /\ hAsk.query /\ Answered(<<"query">>)

\* embed, embed/sparse and embed/multi: each needs its part and its input.
Embed ==
    /\ Received("embed")
    /\ \/ hSrv.embedder = "none" /\ Refused("BackendUnavailable")
       \/ hSrv.embedder # "none" /\ ~hAsk.query /\ Refused("InvalidParams")
       \/ hSrv.embedder = "fails" /\ hAsk.query /\ Refused("BackendUnavailable")
       \/ hSrv.embedder = "works" /\ hAsk.query /\ Answered(<<"vectors">>)

EmbedSparse ==
    /\ Received("embed_sparse")
    /\ \/ ~hSrv.splade /\ Refused("CapabilityMissing")
       \/ hSrv.splade /\ ~hAsk.query /\ Refused("InvalidParams")
       \/ hSrv.splade /\ hAsk.query /\ Answered(<<"weights">>)

EmbedMulti ==
    /\ Received("embed_multi")
    /\ \/ hSrv.colbert = "none" /\ Refused("CapabilityMissing")
       \/ hSrv.colbert # "none" /\ ~hAsk.query /\ Refused("InvalidParams")
       \/ hSrv.colbert = "fails" /\ hAsk.query /\ Refused("BackendUnavailable")
       \/ hSrv.colbert = "works" /\ hAsk.query /\ Answered(<<"matrices">>)

\* graph and memory, over the engine's cached graph (module DocGraph): seeds
\* that cannot be found only leave a recall with the query itself.
GraphMethod ==
    /\ Received("graph")
    /\ \/ ~hAsk.query /\ Refused("InvalidParams")
       \/ hAsk.query /\ hSrv.graph = "fails" /\ Refused("BackendUnavailable")
       \/ hAsk.query /\ hSrv.graph = "works"
          /\ Answered(Head0(hSrv.finds.graph, Given(hAsk.k, 10)))

MemoryBuild ==
    /\ Received("memory_build")
    /\ \/ hSrv.graph = "fails" /\ Refused("BackendUnavailable")
       \/ hSrv.graph = "works" /\ Answered(<<"graph">>)

MemoryRecall ==
    /\ Received("memory_recall")
    /\ \/ ~hAsk.query /\ Refused("InvalidParams")
       \/ hAsk.query /\ hSrv.graph = "fails" /\ Refused("BackendUnavailable")
       \/ hAsk.query /\ hSrv.graph = "works"
          /\ Answered(IF hSrv.finds.graph = << >> THEN <<"query">> ELSE <<"query", "seeds">>)

\* index/add and index/delete on a server whose index is read-only; what they
\* do on another is in DurableCorpus.
IndexReadOnly ==
    /\ \E m \in {"index_add", "index_delete"} : Received(m)
    /\ ~hSrv.writable
    /\ Refused("CapabilityMissing")

Feedback == Received("feedback") /\ Answered(<<"accepted">>)

HandlerNext ==
    \/ Hooked \/ ParseRetrieve \/ Recall \/ Rerank \/ Finish
    \/ RerankMethod \/ Transform \/ Embed \/ EmbedSparse \/ EmbedMulti
    \/ GraphMethod \/ MemoryBuild \/ MemoryRecall \/ IndexReadOnly \/ Feedback

-----------------------------------------------------------------------------
Replied == hPc = "replied" /\ hAsk.method = "retrieve" /\ "retrieve" \notin hSrv.hooks
Chunks(hits) == {hits[i].chunk : i \in DOMAIN hits}

\* A retrieve answers within what was asked (handler.hpp:375-422): no more
\* than k hits, each once and none below minScore, within the token budget but
\* for a first hit that does not fit alone; and not less than it could: a hit
\* that is good enough is missing only where the reply is full or the next hit
\* bursts the budget.  A reranker that fails changes nothing.
ReplyWithinAsk ==
    Replied =>
       /\ Len(hReply) <= AtMost(Given(hAsk.k, 10), hSrv.maxK)
       /\ Cardinality(Chunks(hReply)) = Len(hReply)
       /\ \A i \in DOMAIN hReply : Good(hAsk, hReply[i])
       /\ hAsk.tokenBudget # Unset /\ Len(hReply) > 1 => TokensOf(hAsk, hReply) <= hAsk.tokenBudget
       /\ \A i \in DOMAIN hHits :
             Good(hAsk, hHits[i]) /\ hHits[i].chunk \notin Chunks(hReply) =>
                \/ Len(hReply) = hParams.k
                \/ /\ hAsk.tokenBudget # Unset
                   /\ \E h \in {hHits[j] : j \in 1 .. i} :
                         /\ h.chunk \notin Chunks(hReply)
                         /\ TokensOf(hAsk, Append(hReply, h)) > hAsk.tokenBudget
       /\ hRanked <=> hAsk.rerank # "no" /\ Reranker = "works"
       /\ hRanked => \A i, j \in DOMAIN hReply :
             i < j /\ j <= hParams.topN /\ hHits[j] = hReply[j] =>
                /\ hReply[j].score = RankScore[hReply[j].chunk]
                /\ hReply[i].score >= hReply[j].score

\* A host that replaces a method by a hook without attaching the part: the
\* hook's capability covers options and methods that do not go through it.
HookAlone(s) ==
    \/ "transform" \in s.hooks /\ s.generator = "none"
    \/ "rerank" \in s.hooks /\ s.reranker = "none" /\ s.colbert = "none"
    \/ "index_add" \in s.hooks /\ ~s.writable

\* "never claim a capability we can't honour" (handler.hpp:194-195): what is
\* advertised is not refused for want of the part, and a rewrite or a rerank
\* that is advertised is done; but for hooks that stand alone.
CapabilitiesHonest ==
    ~HookAlone(hSrv) =>
       /\ hPc = "refused" /\ hReply = "CapabilityMissing" => hAsk.method \notin Advertised(hSrv)
       /\ hPc = "refused" /\ hReply = "OptionUnsupported" => hAsk.mode \notin Advertised(hSrv)
       /\ hAsk.method = "embed" /\ hPc = "refused" /\ hSrv.embedder = "none" =>
             "embed" \notin Advertised(hSrv)
       /\ Replied /\ "rewrite" \in Advertised(hSrv) /\ hAsk.rewrite # "" => Rewrites
       /\ Replied /\ "rerank" \in Advertised(hSrv) /\ hAsk.rerank # "no" => Reranker # "none"

RepliesHonest == ReplyWithinAsk /\ CapabilitiesHonest

\* "Resolve raw Hits -> SearchResults, applying the metadata filter for the
\* paths (sparse/dense/rewrite) that don't push it into the index walk"
\* (handler.hpp:321-322): every hit of a reply satisfies the filter.
FilterHolds == Replied => \A i \in DOMAIN hReply : FilterKeeps(hAsk.filter, hReply[i].chunk)
=============================================================================
