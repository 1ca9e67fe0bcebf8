-------------------------------- MODULE Waves -------------------------------
(* How build_batch links a wave with several workers (src/index/hnsw.cpp):   *)
(* they first search the graph, each for its own nodes; when all have, one   *)
(* thread gives the nodes their links and groups the links back by the list  *)
(* they land in; then workers take the groups, each reading a list, pruning  *)
(* it and writing it.  There is no lock.  Module Hnsw has a wave as one      *)
(* step; this one has a step for each read and each write.                   *)
EXTENDS Hnsw

CONSTANT WavesWidth   \* cfg_.split.width()

ASSUME WavesAssumption == WavesWidth \in Nat \ {0}

VARIABLES
    batch,       \* the call: the graph before it, the items, their levels
    wGraph,      \* the graph being linked
    wLinked,     \* nodes that are linked, "next" in the code
    wPc,         \* how far the wave is
    turn,        \* the node of the wave each share comes to next
    chosen,      \* the links that were found for the nodes of the wave
    groups,      \* the groups of links back, by where they start in the list
    local        \* the lists that were read and are not written yet, by group

wavesVars == <<batch, wGraph, wLinked, wPc, turn, chosen, groups, local>>

Total == Len(wGraph.nodes)
Size == WaveSize(wLinked, Total)
ShareOf(size) == IF size < WavesWidth THEN size ELSE WavesWidth
WaveNode(w) == wLinked + 1 + w
LevelOf(i) == Len(wGraph.links[i]) - 1

-----------------------------------------------------------------------------
WavesInit(batches) ==
    /\ batch \in batches
    /\ LET start == BatchStart(batch.graph, batch.items, batch.levels)
       IN wGraph = start.graph /\ wLinked = start.linked
    /\ wPc = "start" /\ turn = << >> /\ chosen = << >> /\ groups = << >> /\ local = << >>

StartWave ==
    /\ wPc = "start" /\ Size > 0
    /\ wPc' = "search"
    /\ turn' = [k \in 0 .. ShareOf(Size) - 1 |-> k]
    /\ chosen' = << >>
    /\ UNCHANGED <<batch, wGraph, wLinked, groups, local>>

\* Share k searches for its next node, in the graph as it is at that moment.
SearchFor(k) ==
    /\ wPc = "search" /\ k \in DOMAIN turn /\ turn[k] < Size
    /\ LET i == WaveNode(turn[k])
       IN chosen' = [j \in DOMAIN chosen \cup {i} |->
                        IF j = i THEN Picks(wGraph, i, LevelOf(i)) ELSE chosen[j]]
    /\ turn' = [turn EXCEPT ![k] = @ + ShareOf(Size)]
    /\ UNCHANGED <<batch, wGraph, wLinked, wPc, groups, local>>

\* The links back, each with the list it lands in: the key of the code.
BackLinks ==
    UNION {UNION {{[list |-> <<nb, L>>, node |-> i] : nb \in chosen[i][L]} :
                      L \in DOMAIN chosen[i]} : i \in DOMAIN chosen}

InOrderOf(S, before(_, _)) ==
    [n \in 1 .. Cardinality(S) |->
        CHOOSE x \in S : Cardinality({y \in S : before(y, x)}) = n - 1]

\* Broken variant: they stay in the order they were found, node by node and
\* layer by layer from the top.
FoundBefore(x, y) ==
    \/ x.node < y.node
    \/ x.node = y.node /\ x.list[2] > y.list[2]
    \/ x.node = y.node /\ x.list[2] = y.list[2] /\ x.list[1] < y.list[1]
UnsortedLinks(back) == InOrderOf(back, FoundBefore)

LinkBefore(x, y) ==
    \/ x.list[1] < y.list[1]
    \/ x.list[1] = y.list[1] /\ x.list[2] < y.list[2]
    \/ x.list = y.list /\ x.node < y.node
SortedLinks(back) == InOrderOf(back, LinkBefore)

\* A group begins wherever the list is another one than before.
Groups(back) ==
    LET starts == {n \in DOMAIN back : n = 1 \/ back[n].list # back[n - 1].list}
        group(n) == {m \in DOMAIN back : m >= n /\ ~\E s \in starts : n < s /\ s <= m}
    IN [n \in starts |-> [list |-> back[n].list, new |-> {back[m].node : m \in group(n)}]]

\* All have searched: the nodes of the wave get their own links, the highest
\* of them may become the entry, and the links back are grouped.
ApplyOwn ==
    /\ wPc = "search" /\ \A k \in DOMAIN turn : turn[k] >= Size
    /\ LET mine == [i \in DOMAIN chosen |-> [n \in DOMAIN wGraph.links[i] |->
                        IF n - 1 \in DOMAIN chosen[i] THEN chosen[i][n - 1] ELSE {}]]
       IN wGraph' = [Raise(wGraph, DOMAIN chosen) EXCEPT
                        !.links = [i \in DOMAIN @ |-> IF i \in DOMAIN mine THEN mine[i] ELSE @[i]]]
    /\ groups' = Groups(SortedLinks(BackLinks))
    /\ local' = << >>
    /\ wPc' = "take"
    /\ UNCHANGED <<batch, wLinked, turn, chosen>>

\* A worker reads the list of group n, and later writes it, pruned.
ReadList(n) ==
    /\ wPc = "take" /\ n \in DOMAIN groups \ DOMAIN local
    /\ LET list == groups[n].list
       IN local' = [m \in DOMAIN local \cup {n} |->
                       IF m = n THEN wGraph.links[list[1]][list[2] + 1] ELSE local[m]]
    /\ UNCHANGED <<batch, wGraph, wLinked, wPc, turn, chosen, groups>>

WriteList(n) ==
    /\ wPc = "take" /\ n \in DOMAIN local /\ n \in DOMAIN groups
    /\ LET nb == groups[n].list[1]
           L == groups[n].list[2]
           seen == [wGraph EXCEPT !.links[nb][L + 1] = local[n]]
       IN wGraph' = [wGraph EXCEPT !.links[nb][L + 1] = TakeLinks(seen, nb, L, groups[n].new)]
    /\ groups' = [m \in DOMAIN groups \ {n} |-> groups[m]]
    /\ local' = [m \in DOMAIN local \ {n} |-> local[m]]
    /\ UNCHANGED <<batch, wLinked, wPc, turn, chosen>>

EndWave ==
    /\ wPc = "take" /\ DOMAIN groups = {}
    /\ wLinked' = wLinked + Size
    /\ wPc' = "start"
    /\ UNCHANGED <<batch, wGraph, turn, chosen, groups, local>>

\* Every node is linked: the adjacency is frozen.
Freeze ==
    /\ wPc = "start" /\ Size = 0
    /\ wGraph' = Seal(wGraph, FALSE)
    /\ wPc' = "done"
    /\ UNCHANGED <<batch, wLinked, turn, chosen, groups, local>>

WavesNext ==
    \/ StartWave \/ ApplyOwn \/ EndWave \/ Freeze
    \/ \E k \in DOMAIN turn : SearchFor(k)
    \/ \E n \in DOMAIN groups : ReadList(n) \/ WriteList(n)

-----------------------------------------------------------------------------
\* "Nothing is written while anything reads, so the build needs no lock and
\* comes out the same however the splitter runs" (hnsw.cpp:518): whatever the
\* order in which workers search, read and write, no two of them work on one
\* list, and the graph is the one that waves linked in one step each give.
BuildIsSerial ==
    /\ \A m, n \in DOMAIN local : m # n => groups[m].list # groups[n].list
    /\ wPc = "done" =>
         wGraph = BuildBatch(batch.graph, batch.items, batch.levels, FALSE)
=============================================================================
