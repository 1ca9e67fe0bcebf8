------------------------------ MODULE DocGraph ------------------------------
(* The document graph (src/graph/graph.cpp) and the engine that caches it    *)
(* (include/rag/engine.hpp): edges from links and similarities, communities  *)
(* by label propagation, searches that spread from the hits of a plain       *)
(* search or answer with the leads of communities.                           *)
(*                                                                           *)
(* A document is its number and has one chunk; the weights of edges are      *)
(* integers, a link counting LinkWeight; the mass of the personalised        *)
(* PageRank is abstracted to the set of documents it reaches.                *)
EXTENDS Integers, Sequences, FiniteSets, FiniteSetsExt, Sums

CONSTANTS
    MaxDocs,       \* bound on the documents added
    LinkWeight,    \* 2.0 in the code, in the unit of the similarities
    Knn,           \* GraphConfig::knn
    LpRounds,      \* GraphConfig::lp_rounds
    PprIters,      \* GraphConfig::ppr_iters
    GraphK         \* the k of the searches

ASSUME DocGraphAssumption ==
    MaxDocs \in Nat \ {0} /\ LinkWeight \in Nat \ {0} /\ Knn \in Nat
      /\ LpRounds \in Nat /\ PprIters \in Nat /\ GraphK \in Nat

NoGraph == [count |-> 0, weight |-> << >>, label |-> << >>, lead |-> {}]

VARIABLES
    texts,         \* the texts: links[d] and sim[{d, e}], 0 below the threshold
    docCount,      \* Corpus::document_count
    gone,          \* the documents removed since
    graph,         \* Engine::graph_
    graphDocs,     \* Engine::graph_docs_, -1 before the first graph
    built,         \* the graph being built
    lpRound, lpAt, lpChanged,   \* the label propagation: round, document, flag
    seeds, found,  \* the documents of the last search's seeds and hits
    gPc            \* "idle", "propagate", "ready"

graphVars == <<texts, docCount, gone, graph, graphDocs, built, lpRound, lpAt, lpChanged,
               seeds, found, gPc>>
building == <<built, lpRound, lpAt, lpChanged>>

GraphInit(inputs) ==
    /\ texts \in inputs
    /\ docCount = 1 /\ gone = {}
    /\ graph = NoGraph /\ graphDocs = -1 /\ built = NoGraph
    /\ lpRound = 0 /\ lpAt = 0 /\ lpChanged = FALSE
    /\ seeds = {} /\ found = {} /\ gPc = "idle"

Docs == 1 .. docCount

AddDocument ==
    /\ gPc # "propagate" /\ docCount < MaxDocs
    /\ docCount' = docCount + 1 /\ gPc' = "idle"
    /\ seeds' = {} /\ found' = {}
    /\ UNCHANGED <<texts, gone, graph, graphDocs>> /\ UNCHANGED building

\* A removed document keeps its number, its text and its place in the count.
RemoveDocument ==
    /\ gPc # "propagate"
    /\ \E d \in Docs \ gone : gone' = gone \cup {d}
    /\ gPc' = "idle" /\ seeds' = {} /\ found' = {}
    /\ UNCHANGED <<texts, docCount, graph, graphDocs>> /\ UNCHANGED building

\* The nearest documents of d, Knn of those above the threshold; low tells
\* which of equally near ones the sort puts first.
NearestDocs(d, low) ==
    LET near == {e \in Docs \ {d} : texts.sim[{d, e}] > 0}
        ahead(e) == {x \in near : \/ texts.sim[{d, x}] > texts.sim[{d, e}]
                                  \/ /\ texts.sim[{d, x}] = texts.sim[{d, e}]
                                     /\ IF low THEN x < e ELSE x > e}
    IN {e \in near : Cardinality(ahead(e)) < Knn}

\* Undirected edges: the links of each document and, from each document, the
\* similarities to its nearest, added up.
EdgeWeight(near, d, e) ==
    LET from(x, y) == (IF y \in texts.links[x] THEN LinkWeight ELSE 0)
                      + (IF y \in near[x] THEN texts.sim[{x, y}] ELSE 0)
    IN IF d = e THEN 0 ELSE from(d, e) + from(e, d)

\* The build starts from the edges, every document a community of its own.
StartBuild ==
    /\ \E low \in BOOLEAN :
         LET near == [d \in Docs |-> NearestDocs(d, low)]
         IN built' = [NoGraph EXCEPT
                !.count = docCount,
                !.weight = [d \in Docs |-> [e \in Docs |-> EdgeWeight(near, d, e)]],
                !.label = [d \in Docs |-> d]]
    /\ lpRound' = 1 /\ lpAt' = 1 /\ lpChanged' = FALSE
    /\ gPc' = "propagate"

UseCached == gPc' = "ready" /\ UNCHANGED building

\* Broken variant: a cached graph is used whatever was added since.
AskGraphAny ==
    /\ gPc = "idle"
    /\ \/ graphDocs # -1 /\ UseCached
       \/ graphDocs = -1 /\ StartBuild
    /\ seeds' = {} /\ found' = {}
    /\ UNCHANGED <<texts, docCount, gone, graph, graphDocs>>

\* Engine::graph: the cached graph while the number of documents is the same.
AskGraph ==
    /\ gPc = "idle"
    /\ \/ graphDocs = docCount /\ UseCached
       \/ graphDocs # docCount /\ StartBuild
    /\ seeds' = {} /\ found' = {}
    /\ UNCHANGED <<texts, docCount, gone, graph, graphDocs>>

Adjacent(g, d) == {e \in 1 .. g.count : g.weight[d][e] > 0}

\* The label with most weight among the neighbours, the smallest of equals.
Voted(g, d) ==
    LET labels == {g.label[e] : e \in Adjacent(g, d)}
        edge(e) == g.weight[d][e]
        votes(l) == SumOver({e \in Adjacent(g, d) : g.label[e] = l}, edge)
    IN IF labels = {} THEN g.label[d]
       ELSE CHOOSE l \in labels : \A m \in labels \ {l} :
               votes(l) > votes(m) \/ (votes(l) = votes(m) /\ l < m)

InRound == gPc = "propagate" /\ lpRound <= LpRounds /\ lpAt <= built.count

\* A document takes the label of its neighbours at once, so that the next one
\* of the round already sees it.
LabelStep ==
    /\ InRound
    /\ built' = [built EXCEPT !.label[lpAt] = Voted(built, lpAt)]
    /\ lpChanged' = (lpChanged \/ Voted(built, lpAt) # built.label[lpAt])
    /\ lpAt' = lpAt + 1
    /\ UNCHANGED <<texts, docCount, gone, graph, graphDocs, seeds, found, lpRound, gPc>>

NextRound ==
    /\ gPc = "propagate" /\ lpRound <= LpRounds /\ lpAt > built.count /\ lpChanged
    /\ lpRound' = lpRound + 1 /\ lpAt' = 1 /\ lpChanged' = FALSE
    /\ UNCHANGED <<texts, docCount, gone, graph, graphDocs, seeds, found, built, gPc>>

Members(g, l) == {d \in 1 .. g.count : g.label[d] = l}
LabelsOf(g) == {g.label[d] : d \in 1 .. g.count}

\* The communities are gathered, each with the chunk that leads it, and the
\* graph replaces the cached one.
GraphBuilt ==
    /\ gPc = "propagate"
    /\ lpRound > LpRounds \/ (lpAt > built.count /\ ~lpChanged)
    /\ \E lead \in {S \in SUBSET (1 .. built.count) :
                      \A l \in LabelsOf(built) : Cardinality(S \cap Members(built, l)) = 1} :
         graph' = [built EXCEPT !.lead = lead]
    /\ graphDocs' = docCount /\ gPc' = "ready"
    /\ UNCHANGED <<texts, docCount, gone, seeds, found>> /\ UNCHANGED building

\* The documents the PageRank's mass has reached: the seeds, to which it
\* always returns, and their neighbours, one hop an iteration.
Spread1(g, S) == S \cup UNION {Adjacent(g, d) : d \in S}
Mass(g, S) ==
    LET reach[i \in 0 .. PprIters] == IF i = 0 THEN S ELSE Spread1(g, reach[i - 1])
    IN reach[PprIters]

\* local_search: the chunks of every document with mass, the best GraphK.
LocalSearch ==
    /\ gPc = "ready"
    /\ \E S \in SUBSET (Docs \ gone) :
         /\ seeds' = S
         /\ \E H \in SUBSET Mass(graph, S) :
              /\ Cardinality(H) = Min({GraphK, Cardinality(Mass(graph, S))})
              /\ found' = H
    /\ gPc' = "idle"
    /\ UNCHANGED <<texts, docCount, gone, graph, graphDocs>> /\ UNCHANGED building

\* global_search: the leads of the best communities.
GlobalSearch ==
    /\ gPc = "ready"
    /\ \E H \in SUBSET graph.lead :
         /\ Cardinality(H) = Min({GraphK, Cardinality(graph.lead)})
         /\ found' = H
    /\ seeds' = {} /\ gPc' = "idle"
    /\ UNCHANGED <<texts, docCount, gone, graph, graphDocs>> /\ UNCHANGED building

GraphNext ==
    \/ AddDocument \/ RemoveDocument \/ AskGraph \/ LabelStep \/ NextRound \/ GraphBuilt
    \/ LocalSearch \/ GlobalSearch

-----------------------------------------------------------------------------
Connected(g, d) ==
    LET reach[i \in 0 .. g.count] == IF i = 0 THEN {d} ELSE Spread1(g, reach[i - 1])
    IN reach[g.count]

\* Labels travel along edges only, so a community never joins documents no
\* path joins; and a propagation that stopped before its last round left every
\* document with the label its neighbours vote for
\* (src/graph/graph.cpp:301: the flag of a whole round decides).
CommunitiesSettled ==
    /\ \A d \in 1 .. built.count : built.label[d] \in Connected(built, d)
    /\ gPc = "ready" /\ graph.count > 0 /\ lpRound <= LpRounds =>
         \A d \in 1 .. graph.count : Voted(graph, d) = graph.label[d]

\* A search in the graph never runs on one that misses a document that was
\* added, whatever was added or removed since it was cached, and a local
\* search finds nothing that no path joins to its seeds
\* (include/rag/engine.hpp:88).
GraphCoversAdded ==
    /\ gPc = "ready" => graph.count = docCount
    /\ seeds # {} => found \subseteq UNION {Connected(graph, d) : d \in seeds}

\* The communities and the cached graph together: what graph() hands out.
GraphSound == CommunitiesSettled /\ GraphCoversAdded
=============================================================================
