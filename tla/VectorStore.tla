---------------------------- MODULE VectorStore ----------------------------
(***************************************************************************)
(* The vector database (src/index/vector_store.cpp): an arena of rows that *)
(* is the truth, a graph (module Hnsw) over the same vectors once there    *)
(* are enough of them, and a file.  The graph is built late, kept up to    *)
(* date row by row, searched in its sealed form, compacted by save() and   *)
(* read back by load(): five ways for the two to fall apart.               *)
(***************************************************************************)
EXTENDS Hnsw

CONSTANTS
    Id, Vector,
    MaxLevel,           \* bound on the level of a node (255)
    BruteForceBelow,    \* below so many vectors no graph is built
    DropFloats,         \* the settings of drop_floats to look at
    MaxWrites,          \* bound on the calls of add() and remove()
    MaxSaves,           \* bound on the calls of save()
    NoFile, Torn        \* the file is not there, is cut short

ASSUME ConstantsAssumption ==
    /\ DropFloats \subseteq BOOLEAN
    /\ MaxLevel \in Nat /\ BruteForceBelow \in Nat
    /\ MaxWrites \in Nat /\ MaxSaves \in Nat
\* An id is a machine word.
ASSUME IdAssumption == IsFiniteSet(Id)
\* Seen from a third no two vectors are equally similar (see Hnsw).
ASSUME SimAssumption ==
    \A a, b \in Vector :
        /\ Sim(a, b) \in Int
        /\ \A q \in Vector : Sim(a, q) = Sim(b, q) => a = b
\* The marks for a file that cannot be loaded are not maps of vectors.
ASSUME MarksAssumption ==
    \A ids \in SUBSET Id : {NoFile, Torn} \intersect [ids -> {{vec} : vec \in Vector}] = {}

VARIABLES
    up,          \* is there a store
    arena,       \* ids_, raw_, live_: one record per row
    count,       \* count_
    built,       \* graph_built_
    graph,       \* hnsw_
    dropFloats,  \* cfg_.drop_floats (constant in a behaviour)
    writing,     \* the blob save() is writing, <<>> when it is not
    disk,        \* the file
    writes,      \* number of calls of add() and remove()
    saves        \* number of calls of save()

vars == <<up, arena, count, built, graph, dropFloats, writing, disk,
          writes, saves>>

Rows == 1..Len(arena)
LiveRows == {i \in Rows : arena[i].live}
RowOf(id) == {i \in LiveRows : arena[i].id = id}

\* The levels the nodes of a batch of n may get; drawn for new nodes only.
Levels(n) == [1..n -> 0..MaxLevel]

Init ==
    /\ up = TRUE
    /\ arena = <<>> /\ count = 0
    /\ built = FALSE /\ graph = EmptyGraph
    /\ dropFloats \in DropFloats
    /\ writing = <<>> /\ disk = NoFile /\ writes = 0 /\ saves = 0

\* An operation of the owner: no save runs and nothing undefined happened.
Calm == up /\ writing = <<>> /\ ~graph.undefined

CountWrite == Calm /\ writes < MaxWrites /\ writes' = writes + 1

-----------------------------------------------------------------------------
\* In use: by the arena or the graph.  A vector is used once (see Hnsw: Sim).
Used == {arena[i].vec : i \in Rows} \union {Vec(graph, i) : i \in Ordinals(graph)}

\* A live row is overwritten; the graph gets a new node for the id.
Replace(id, vec, level) ==
    /\ CountWrite
    /\ RowOf(id) # {}
    /\ vec \notin Used
    /\ arena' = [i \in Rows |-> IF i \in RowOf(id) THEN [arena[i] EXCEPT !.vec = vec]
                                                   ELSE arena[i]]
    /\ graph' = IF built THEN Add(RemoveId(graph, id), id, vec, level) ELSE graph
    /\ UNCHANGED <<up, count, built, dropFloats, writing, disk, saves>>

\* A new row, and a node when there is a graph.
AddRow(id, vec, level) ==
    /\ CountWrite
    /\ RowOf(id) = {}
    /\ vec \notin Used
    /\ arena' = Append(arena, [id |-> id, vec |-> vec, live |-> TRUE])
    /\ count' = count + 1
    /\ graph' = IF built THEN Add(graph, id, vec, level) ELSE graph
    /\ UNCHANGED <<up, built, dropFloats, writing, disk, saves>>

\* Broken variant: whether the id is there is not asked.
RemoveUnchecked(id) ==
    /\ CountWrite
    /\ arena' = [i \in Rows |-> IF i \in RowOf(id) THEN [arena[i] EXCEPT !.live = FALSE]
                                                   ELSE arena[i]]
    /\ count' = count - 1
    /\ graph' = IF built THEN RemoveId(graph, id) ELSE graph
    /\ UNCHANGED <<up, built, dropFloats, writing, disk, saves>>

\* remove() of an id that is there.
RemoveRow(id) ==
    /\ CountWrite
    /\ RowOf(id) # {}
    /\ arena' = [i \in Rows |-> IF i \in RowOf(id) THEN [arena[i] EXCEPT !.live = FALSE]
                                                   ELSE arena[i]]
    /\ count' = count - 1
    /\ graph' = IF built THEN RemoveId(graph, id) ELSE graph
    /\ UNCHANGED <<up, built, dropFloats, writing, disk, saves>>

\* The live rows in order.
Packed ==
    LET nth(k) == CHOOSE i \in LiveRows : Cardinality({j \in LiveRows : j <= i}) = k
    IN  [k \in 1..Cardinality(LiveRows) |-> arena[nth(k)]]

\* Below the threshold the graph is put aside; otherwise it is built unless it
\* is there.
Build(levels) ==
    /\ Calm
    /\ built' = (count >= BruteForceBelow)
    /\ graph' = IF built' /\ ~built
                THEN BuildBatch(EmptyGraph, Packed, levels, dropFloats)
                ELSE graph
    /\ UNCHANGED <<up, arena, count, dropFloats, writing, disk, writes, saves>>

\* A search seals the graph; what it answers is a function of the state.
Find ==
    /\ Calm
    /\ built
    /\ graph' = Seal(graph, dropFloats)
    /\ UNCHANGED <<up, arena, count, built, dropFloats, writing, disk, writes, saves>>

-----------------------------------------------------------------------------
(* save() and load().  save() compacts the graph, serializes everything    *)
(* and then truncates and writes the file in place.                        *)

\* Broken variant: as many rows as are live, from the front.
ContentFromFront(g) ==
    [rows |-> [k \in 1..count |-> [arena[k] EXCEPT !.live = TRUE]],
     count |-> count, built |-> built,
     graph |-> IF built THEN Serialize(g) ELSE Serialize(EmptyGraph)]

Content(g) ==
    [rows |-> Packed, count |-> count, built |-> built,
     graph |-> IF built THEN Serialize(g) ELSE Serialize(EmptyGraph)]

\* The file may not open; the compaction stays.
Save(levels) ==
    /\ Calm
    /\ saves < MaxSaves
    /\ saves' = saves + 1
    /\ \E compacted \in {IF built THEN Compact(graph, levels, dropFloats) ELSE graph} :
           IF compacted.undefined \/ (built /\ ~SerializeReads(compacted))
           THEN graph' = Undefined(compacted) /\ UNCHANGED <<writing, disk>>
           ELSE /\ graph' = IF built THEN WithLinks(compacted) ELSE compacted
                /\ \/ writing' = <<Content(compacted)>> /\ disk' = Torn
                   \/ UNCHANGED <<writing, disk>>
    /\ UNCHANGED <<up, arena, count, built, dropFloats, writes>>

\* All bytes are written, or the write fails.
Written ==
    /\ up /\ writing # <<>>
    /\ disk' \in {writing[1], Torn}
    /\ writing' = <<>>
    /\ UNCHANGED <<up, arena, count, built, graph, dropFloats, writes, saves>>

\* The process stops, as it may at any time and does at once in most builds
\* when something undefined happens.
Crash ==
    /\ up
    /\ up' = FALSE
    /\ arena' = <<>> /\ count' = 0 /\ built' = FALSE /\ graph' = EmptyGraph
    /\ writing' = <<>>
    /\ UNCHANGED <<dropFloats, disk, writes, saves>>

\* A torn file fails its checksum; a whole one gives the arena and the graph.
Load ==
    /\ ~up
    /\ disk \notin {NoFile, Torn}
    /\ up' = TRUE
    /\ arena' = disk.rows /\ count' = disk.count /\ built' = disk.built
    /\ graph' = IF disk.built THEN Deserialize(disk.graph) ELSE EmptyGraph
    /\ UNCHANGED <<dropFloats, writing, disk, writes, saves>>

\* A new store is created; a bound: only where there is nothing to load.
Create ==
    /\ ~up
    /\ disk \in {NoFile, Torn}
    /\ up' = TRUE
    /\ UNCHANGED <<arena, count, built, graph, dropFloats, writing, disk, writes, saves>>

Next ==
    \/ \E id \in Id :
           \/ \E vec \in Vector, level \in IF built THEN 0..MaxLevel ELSE {0} :
                  Replace(id, vec, level) \/ AddRow(id, vec, level)
           \/ RemoveRow(id)
    \/ \E levels \in Levels(IF built THEN 0 ELSE count) : Build(levels)
    \/ \E levels \in Levels(IF built /\ Stale(graph) THEN count ELSE 0) : Save(levels)
    \/ Find \/ Written
    \/ Crash \/ Load \/ Create

Spec == Init /\ [][Next]_vars
-----------------------------------------------------------------------------
(* Properties                                                              *)

Node == [id : Id, vec : Vector, superseded : BOOLEAN, level : 0..MaxLevel]

\* The variables have their types; the row count is the number of live rows;
\* what a sealed graph still has per node is what its flat links say.
TypeOK ==
    /\ up \in BOOLEAN /\ built \in BOOLEAN
    /\ arena \in Seq([id : Id, vec : Vector, live : BOOLEAN])
    /\ count = Cardinality(LiveRows)
    /\ graph.nodes \in Seq(Node)
    /\ Len(graph.links) = Len(graph.nodes)
    /\ graph.sealed => graph.links \in {[i \in Ordinals(graph) |-> <<>>], Unpacked(graph)}
    /\ ~graph.sealed => graph.csr = <<>>
    /\ graph.top \in -1..MaxLevel
    /\ graph.deleted \subseteq Id
    /\ \A id \in DOMAIN graph.ords : graph.nodes[graph.ords[id]].id = id
    /\ built \/ writing = <<>> \/ ~writing[1].built

\* Every link of every layer goes to another node that reaches that layer, and
\* no node has more links than its bound: through batches, single inserts,
\* pruned back-links, sealing, unsealing and reloading.
LinksSound ==
    \A i \in Ordinals(graph), L \in 0..MaxLevel :
        /\ Cardinality(Neighbours(graph, i, L)) <= MaxM(L)
        /\ \A j \in Neighbours(graph, i, L) :
               j \in Ordinals(graph) \ {i} /\ graph.nodes[j].level >= L

LivePairs == {<<arena[i].id, arena[i].vec>> : i \in LiveRows}
GraphPairs == {<<graph.nodes[i].id, Vec(graph, i)>> : i \in Live(graph)}

\* The graph holds exactly the live rows, one node each: "re-adding an id
\* upserts: the new vector wins and the old one never returns"
\* (vector_store.hpp), a removed one does not either - across adds and removals
\* before and after the build, compactions and a reload.
GraphAgrees ==
    built /\ ~graph.undefined =>
        GraphPairs = LivePairs /\ Cardinality(Live(graph)) = Cardinality(LiveRows)

\* The nodes that can be reached from i in layer L.
Reach(g, i, L) ==
    LET hop[n \in 0..Len(g.nodes)] ==
            IF n = 0 THEN {i}
            ELSE hop[n - 1] \union UNION {Neighbours(g, j, L) : j \in hop[n - 1]}
    IN  hop[Len(g.nodes)]

\* With a beam as wide as the graph a search answers exactly the k best of the
\* allowed live vectors within reach, each id once, whatever was superseded,
\* removed or reloaded; and sealing the graph first does not change that.
AnswersAreBest ==
    built /\ graph.nodes # <<>> /\ ~graph.undefined =>
        LET sealed == Seal(graph, FALSE)
            all == Len(graph.nodes)
        IN  \A q \in Vector :
                LET within == Live(graph) \intersect Reach(graph, EntersAt(graph, q, 0, 0, all), 0)
                IN  \A allowed \in SUBSET Id : \A k \in 1..Cardinality(allowed) :
                        LET answer == Search(sealed, q, k, all, allowed)
                            right == {i \in within : graph.nodes[i].id \in allowed}
                        IN  /\ answer = Nearest(graph, right, q, k)
                            /\ \A i, j \in answer :
                                   graph.nodes[i].id = graph.nodes[j].id => i = j

\* The code leaves its arrays in two situations only: the exact vectors were
\* dropped, or a node came back from its flat form with fewer layers than it
\* was built with.
UndefinedOnlyThere ==
    graph.undefined =>
        \/ dropFloats
        \/ \E i \in Ordinals(graph) :
               ~graph.sealed /\ Len(graph.links[i]) <= graph.nodes[i].level

\* "So the restored shape matches what the build produced" (hnsw.cpp): an
\* unsealed node has the layers it was built with.
ShapeKept ==
    ~graph.sealed =>
        \A i \in Ordinals(graph) : Len(graph.links[i]) = graph.nodes[i].level + 1

\* "Keeping only the codes" (hnsw.hpp, drop_floats): every node's vector is
\* there, exact or quantised.
VectorsKept ==
    graph.floats >= Len(graph.nodes) \/ graph.codes >= Len(graph.nodes)

-----------------------------------------------------------------------------
(* Refinement.                                                             *)

\* A set of pairs as a function; the vectors of an id are a set, of one.
AsMap(pairs) ==
    [id \in {p[1] : p \in pairs} |-> {p[2] : p \in {r \in pairs : r[1] = id}}]

RowsOf(content) ==
    {<<content.rows[k].id, content.rows[k].vec>> : k \in 1..Len(content.rows)}

Map == INSTANCE VectorMap WITH
    Vector <- {{vec} : vec \in Vector},
    Down  <- Torn,
    Lost  <- NoFile,
    map   <- IF up /\ ~graph.undefined THEN AsMap(IF built THEN GraphPairs ELSE LivePairs) ELSE Torn,
    saved <- IF disk \in {NoFile, Torn} THEN NoFile ELSE AsMap(RowsOf(disk))

\* What searches find is a map from ids to vectors that adds, upserts and
\* removals change as asked, that building, sealing and compacting leave alone,
\* and that comes back from a finished save as it was.
IsMap == Map!Spec
=============================================================================
