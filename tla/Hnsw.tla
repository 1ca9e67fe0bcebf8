-------------------------------- MODULE Hnsw --------------------------------
(***************************************************************************)
(* The approximate nearest-neighbour graph (src/index/hnsw.cpp) as         *)
(* operators on a graph, a record: inserting one vector, building a batch  *)
(* in waves, the two forms of the adjacency (per node while the graph      *)
(* changes, flat while it is searched), tombstones, superseded nodes,      *)
(* compaction, the beam search, and what a blob keeps.                     *)
(*                                                                         *)
(* Data: vectors are model values, compared by Sim, which orders any two   *)
(* of them as seen from a third (no ties).  Scores are only compared, so   *)
(* the quantised codes are present or absent.  Levels come from outside,   *)
(* where the code draws them.  Nodes are counted from 1, layers from 0.    *)
(* Product quantisation, the binary and the matryoshka modes are left out. *)
(***************************************************************************)
EXTENDS Integers, Sequences, FiniteSets

CONSTANTS
    Sim(_, _),       \* similarity of two vectors
    M,               \* links of a node per upper layer; twice as many in layer 0
    EfConstruction,  \* beam width of an insert
    WaveDivisor      \* a wave is this part of the graph it searches (16)

ASSUME BeamAssumption ==
    M \in Nat /\ EfConstruction \in Nat \ {0} /\ WaveDivisor \in Nat \ {0}

MaxM(L) == IF L = 0 THEN 2 * M ELSE M

\* nodes: the id, the vector, superseded by a later add; level is history.
\* links: per node and layer, empty per node while the graph is sealed.
\* csr: per layer and node, the adjacency of a sealed graph.
\* floats, codes: rows in the float arena and in its quantised mirror.
\* undefined: the code has read or written outside its arrays.
EmptyGraph ==
    [nodes |-> <<>>, links |-> <<>>, csr |-> <<>>, sealed |-> FALSE,
     top |-> -1, entry |-> 1, deleted |-> {},
     ords |-> <<>>, indexed |-> FALSE,
     floats |-> 0, codes |-> 0, dropped |-> FALSE, undefined |-> FALSE]

Ordinals(g) == 1..Len(g.nodes)
Vec(g, i) == g.nodes[i].vec
Undefined(g) == [g EXCEPT !.undefined = TRUE]

\* The nodes a search may return.
Live(g) == {i \in Ordinals(g) : g.nodes[i].id \notin g.deleted /\ ~g.nodes[i].superseded}

\* Broken variant: the bound of the offset table is off by one.
NeighboursOffByOne(g, i, L) ==
    IF g.sealed
    THEN IF L < Len(g.csr) /\ i < Len(g.nodes) THEN g.csr[L + 1][i] ELSE {}
    ELSE IF L < Len(g.links[i]) THEN g.links[i][L + 1] ELSE {}

Neighbours(g, i, L) ==
    IF g.sealed
    THEN IF L < Len(g.csr) THEN g.csr[L + 1][i] ELSE {}
    ELSE IF L < Len(g.links[i]) THEN g.links[i][L + 1] ELSE {}

-----------------------------------------------------------------------------
(* Sealing and unsealing.                                                  *)

Most(S) == CHOOSE x \in S : \A y \in S : y <= x

\* Flattens the adjacency, quantises the vectors and, with drop_floats, lets
\* go of the exact ones.
Seal(g, dropFloats) ==
    LET layers == Most({Len(g.links[i]) : i \in Ordinals(g)})
    IN  IF g.sealed \/ g.nodes = <<>> \/ layers = 0 THEN g
        ELSE [g EXCEPT
                !.csr = [L \in 1..layers |->
                            [i \in Ordinals(g) |-> Neighbours(g, i, L - 1)]],
                !.links = [i \in Ordinals(g) |-> <<>>],
                !.codes = IF g.floats > 0 THEN Len(g.nodes) ELSE @,
                !.floats = IF dropFloats THEN 0 ELSE @,
                !.dropped = @ \/ dropFloats,
                !.sealed = TRUE]

\* A node gets back as many layers as it has links in.
Unpacked(g) ==
    [i \in Ordinals(g) |->
        LET reached == Most({0} \union {L \in 1..Len(g.csr) : g.csr[L][i] # {}})
        IN  [L \in 1..reached |-> g.csr[L][i]]]

Unseal(g) ==
    IF ~g.sealed THEN g
    ELSE [g EXCEPT !.links = Unpacked(g), !.csr = <<>>, !.sealed = FALSE, !.codes = 0]

-----------------------------------------------------------------------------
(* Searching one layer, and choosing links.                                *)

\* The k members of S most similar to q.
Nearest(g, S, q, k) ==
    {i \in S : Cardinality({j \in S : Sim(Vec(g, j), q) > Sim(Vec(g, i), q)}) < k}

Closest(g, S, q) == CHOOSE i \in S : \A j \in S : Sim(Vec(g, j), q) <= Sim(Vec(g, i), q)

\* Best-first expansion from entry with a beam of ef: cand is the frontier.
SearchLayer(g, q, entry, L, ef) ==
    LET start == [cand |-> {entry}, result |-> {entry}, seen |-> {entry}]
        worse(c, result) == \A r \in result : Sim(Vec(g, c), q) < Sim(Vec(g, r), q)
        expand(s) ==
            LET c == Closest(g, s.cand, q)
                fresh == Neighbours(g, c, L) \ s.seen
                result == Nearest(g, s.result \union fresh, q, ef)
            IN  IF s.cand = {} \/ (Cardinality(s.result) >= ef /\ worse(c, s.result))
                THEN s
                ELSE [cand   |-> (s.cand \ {c}) \union (fresh \intersect result),
                      result |-> result,
                      seen   |-> s.seen \union fresh]
        walk[n \in 0..Len(g.nodes)] == IF n = 0 THEN start ELSE expand(walk[n - 1])
    IN  walk[Len(g.nodes)].result

\* Where the walk for q enters layer L, coming down from the top: beam 1 above
\* the layer "level", beam ef from there on.
EntersAt(g, q, L, level, ef) ==
    LET beam(lc) == IF lc > level THEN 1 ELSE ef
        cur[lc \in L..g.top] ==
            IF lc = g.top THEN g.entry
            ELSE Closest(g, SearchLayer(g, q, cur[lc + 1], lc + 1, beam(lc + 1)), q)
    IN  cur[L]

\* The diversity heuristic: best first, a candidate is kept unless it is closer
\* to one already kept than to node i; then filled up with the best others.
SelectNeighbours(g, i, cands, m) ==
    LET q == Vec(g, i)
        covered(c, picked) ==
            \E p \in picked : Sim(Vec(g, c), Vec(g, p)) > Sim(Vec(g, c), q)
        turn[n \in 0..Cardinality(cands)] ==
            IF n = 0 THEN [left |-> cands, picked |-> {}]
            ELSE LET t == turn[n - 1]
                     c == Closest(g, t.left, q)
                     keep == Cardinality(t.picked) < m /\ ~covered(c, t.picked)
                 IN  [left   |-> t.left \ {c},
                      picked |-> IF keep THEN t.picked \union {c} ELSE t.picked]
        kept == turn[Cardinality(cands)].picked
    IN  kept \union Nearest(g, cands \ kept, q, m - Cardinality(kept))

\* The links node i chooses in each layer it shares with the graph.
Picks(g, i, level) ==
    LET shared == IF level < g.top THEN level ELSE g.top
        found(L) == SearchLayer(g, Vec(g, i), EntersAt(g, Vec(g, i), L, level, EfConstruction),
                                L, EfConstruction)
    IN  [L \in 0..shared |-> SelectNeighbours(g, i, found(L), MaxM(L))]

\* Broken variant: the pruning of the back-links is forgotten.
TakeAllLinks(g, nb, L, new) == g.links[nb][L + 1] \union new

\* Node nb takes back-links to the nodes new and is pruned to its bound.
TakeLinks(g, nb, L, new) ==
    LET all == g.links[nb][L + 1] \union new
    IN  IF Cardinality(all) > MaxM(L) THEN SelectNeighbours(g, nb, all, MaxM(L)) ELSE all

\* Broken variant: the walk goes on from the old entry.
RaiseTopOnly(g, wave) ==
    [g EXCEPT !.top = Most({@} \union {Len(g.links[i]) - 1 : i \in wave})]

\* The first of the highest nodes becomes the entry when it is above the top.
Raise(g, wave) ==
    LET level(i) == Len(g.links[i]) - 1
        highest == Most({level(i) : i \in wave})
        first == CHOOSE i \in wave : /\ level(i) = highest
                                     /\ \A j \in wave : level(j) = highest => i <= j
    IN  IF highest > g.top THEN [g EXCEPT !.top = highest, !.entry = first] ELSE g

\* The links chosen by a wave and the links back are applied; a link to a node
\* whose layer is not there is a write outside the lists.
ApplyLinks(g, wave, picks) ==
    LET chosen(i, L) == IF L \in DOMAIN picks[i] THEN picks[i][L] ELSE {}
        back(nb, L) == {i \in wave : nb \in chosen(i, L)}
        take(nb, L, new) == IF new = {} THEN g.links[nb][L + 1] ELSE TakeLinks(g, nb, L, new)
        links == [i \in Ordinals(g) |-> [L \in 1..Len(g.links[i]) |->
                    IF i \in wave THEN chosen(i, L - 1) ELSE take(i, L - 1, back(i, L - 1))]]
        missing == \E i \in wave : \E L \in DOMAIN picks[i] :
                        \E nb \in picks[i][L] : L >= Len(g.links[nb])
    IN  IF missing THEN Undefined(g)
        ELSE [Raise(g, wave) EXCEPT !.links = links]

\* Links the nodes of wave, which have no links yet: they choose in the graph
\* as it is.
LinkWave(g, wave) ==
    ApplyLinks(g, wave, [i \in wave |-> Picks(g, i, Len(g.links[i]) - 1)])

-----------------------------------------------------------------------------
(* Changing the graph.                                                     *)

NewNode(id, vec, level) ==
    [id |-> id, vec |-> vec, superseded |-> FALSE, level |-> level]
NoLinks(level) == [L \in 1..(level + 1) |-> {}]

\* Appends the nodes; items are their ids and vectors.
Stage(g, items, levels) ==
    [g EXCEPT
        !.nodes = @ \o [k \in 1..Len(items) |-> NewNode(items[k].id, items[k].vec, levels[k])],
        !.links = @ \o [k \in 1..Len(items) |-> NoLinks(levels[k])],
        !.floats = @ + Len(items),
        !.deleted = @ \ {items[k].id : k \in 1..Len(items)}]

\* Broken variant: the nodes that are there are not entered.
EnsureEmptyIndex(g) == [g EXCEPT !.indexed = TRUE]

\* The last node of every id.
EnsureIdIndex(g) ==
    LET ids == {g.nodes[i].id : i \in Ordinals(g)}
        last(id) == Most({i \in Ordinals(g) : g.nodes[i].id = id})
    IN  IF g.indexed THEN g
        ELSE [g EXCEPT !.indexed = TRUE, !.ords = [id \in ids |-> last(id)]]

\* Inserts one vector; a node that had the id is superseded.  The walk reads
\* the exact vector of every node.
Add(g, id, vec, level) ==
    LET before == EnsureIdIndex(Unseal(g))
        n == Len(before.nodes) + 1
        old == IF id \in DOMAIN before.ords THEN {before.ords[id]} ELSE {}
        marked == [before EXCEPT
                     !.nodes = [i \in Ordinals(before) |->
                                   [before.nodes[i] EXCEPT !.superseded = @ \/ i \in old]],
                     !.ords = [x \in DOMAIN @ \union {id} |-> IF x = id THEN n ELSE @[x]]]
        staged == Stage(marked, <<[id |-> id, vec |-> vec]>>, <<level>>)
    IN  IF before.top < 0 THEN [staged EXCEPT !.top = level, !.entry = n]
        ELSE IF staged.floats # n THEN Undefined(staged)
        ELSE LinkWave(staged, {n})

\* The batch staged behind the graph, whose links are in the growing form; the
\* first node of an empty graph is its entry and linked to nothing.
BatchStart(g, items, levels) ==
    LET base == Len(Unseal(g).nodes)
        staged == [Stage(Unseal(g), items, levels) EXCEPT
                      !.indexed = FALSE, !.ords = <<>>, !.codes = base + Len(items)]
    IN  IF staged.top >= 0 THEN [graph |-> staged, linked |-> base]
        ELSE [graph  |-> [staged EXCEPT !.top = levels[1], !.entry = base + 1],
              linked |-> base + 1]

\* The size of the next wave: a part of what is linked, at least one node.
WaveSize(linked, total) ==
    LET share == IF linked \div WaveDivisor > 1 THEN linked \div WaveDivisor ELSE 1
    IN  IF total - linked < share THEN total - linked ELSE share

\* Appends a batch and links it in waves, each a part of the graph so far.
BuildBatch(g, items, levels, dropFloats) ==
    LET start == BatchStart(g, items, levels)
        total == Len(start.graph.nodes)
        step(s) ==
            LET size == WaveSize(s.linked, total)
            IN  IF size = 0 \/ s.graph.undefined THEN s
                ELSE [graph  |-> LinkWave(s.graph, (s.linked + 1)..(s.linked + size)),
                      linked |-> s.linked + size]
        wave[n \in 0..Len(items)] == IF n = 0 THEN start ELSE step(wave[n - 1])
    IN  IF items = <<>> THEN Unseal(g)
        ELSE Seal(wave[Len(items)].graph, dropFloats)

RemoveId(g, id) == [g EXCEPT !.deleted = @ \union {id}]

\* The live nodes' ids and vectors, in order.
Survivors(g) ==
    LET nth(k) == CHOOSE i \in Live(g) : Cardinality({j \in Live(g) : j <= i}) = k
    IN  [k \in 1..Cardinality(Live(g)) |->
            [id |-> g.nodes[nth(k)].id, vec |-> Vec(g, nth(k))]]

\* Is there anything to reclaim.
Stale(g) == g.deleted # {} \/ \E i \in Ordinals(g) : g.nodes[i].superseded

\* Rebuilds the graph from its live nodes, from their exact vectors.
Compact(g, levels, dropFloats) ==
    IF ~Stale(g) THEN g
    ELSE IF g.floats < Len(g.nodes) /\ Live(g) # {} THEN Undefined(g)
    ELSE BuildBatch(EmptyGraph, Survivors(g), levels, dropFloats)

-----------------------------------------------------------------------------
(* Searching.                                                              *)

\* The walk's pool of candidates for q in a sealed graph.
Pool(g, q, ef) == SearchLayer(g, q, EntersAt(g, q, 0, 0, ef), 0, ef)

\* The k best allowed live nodes of a pool of at least k candidates.
Search(g, q, k, ef, allowed) ==
    IF g.nodes = <<>> THEN {}
    ELSE LET pool == Pool(g, q, IF ef > k THEN ef ELSE k)
         IN  Nearest(g, {i \in pool \intersect Live(g) : g.nodes[i].id \in allowed}, q, k)

-----------------------------------------------------------------------------
(* The blob: ids, vectors, links, entry.  Tombstones, superseded marks and *)
(* the codes stay behind.                                                  *)

\* serialize() unpacks the links first, and leaves them unpacked.
WithLinks(g) == IF g.sealed THEN [g EXCEPT !.links = Unpacked(g)] ELSE g

Serialize(g) ==
    [nodes |-> g.nodes, links |-> WithLinks(g).links, top |-> g.top, entry |-> g.entry]

\* The exact vectors are written, there or not.
SerializeReads(g) == g.floats = Len(g.nodes)

Deserialize(b) ==
    [EmptyGraph EXCEPT
        !.nodes  = [i \in 1..Len(b.nodes) |-> [b.nodes[i] EXCEPT !.superseded = FALSE]],
        !.links  = b.links,
        !.top    = b.top,
        !.entry  = b.entry,
        !.floats = Len(b.nodes)]
=============================================================================
