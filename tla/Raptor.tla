------------------------------- MODULE Raptor -------------------------------
(* The tree of summaries as it is built (src/raptor/raptor.cpp): leaves are  *)
(* the chunks, a level is clustered greedily, and each cluster that is large *)
(* enough gets a parent on the next one.                                     *)
(*                                                                           *)
(* A node's embedding is its place on a line, the parent's the mean of its   *)
(* children's; similarity falls with the distance.  A summary is its node.   *)
EXTENDS Integers, Sequences, FiniteSets, FiniteSetsExt, Functions, Sums

CONSTANTS
    MaxLevels,     \* RaptorConfig::max_levels
    ClusterSize,   \* the target size of a cluster
    Reach          \* the largest distance still above the similarity floor

VARIABLES
    leaves,        \* the corpus: place of each chunk, and whether it is embedded
    minCluster,    \* RaptorConfig::min_cluster
    nodes,         \* RaptorTree::nodes_, [level, place, embedded, children]
    current,       \* the ids of the level being clustered
    level,         \* its number
    rPc            \* "build", "built"

raptorVars == <<leaves, minCluster, nodes, current, level, rPc>>

\* build() makes a leaf of every chunk.
RaptorInit(inputs) ==
    /\ \E in \in inputs : leaves = in.leaves /\ minCluster = in.minCluster
    /\ nodes = [i \in DOMAIN leaves |->
                  [level |-> 0, place |-> leaves[i].place,
                   embedded |-> leaves[i].embedded, children |-> {}]]
    /\ current = [i \in DOMAIN leaves |-> i]
    /\ level = 0 /\ rPc = "build"

Distance(i, j) == LET a == nodes[current[i]].place  b == nodes[current[j]].place
                  IN IF a < b THEN b - a ELSE a - b

\* The Room nearest of the unused positions within Reach of the seed, near or
\* far ones first among equals.
Pulled(seed, used, room, low) ==
    LET near == {j \in DOMAIN current \ used : Distance(seed, j) <= Reach}
        ahead(j) == {x \in near : \/ Distance(seed, x) < Distance(seed, j)
                                  \/ /\ Distance(seed, x) = Distance(seed, j)
                                     /\ IF low THEN x < j ELSE x > j}
    IN {j \in near : Cardinality(ahead(j)) < room}

\* Broken variant: what a cluster pulled in stays free for the next seed.
ClustersUnmarked(low) ==
    LET seeded[i \in 0 .. Len(current)] ==
          IF i = 0 THEN [used |-> {}, sets |-> << >>]
          ELSE LET prev == seeded[i - 1]
                   cl   == {i} \cup Pulled(i, prev.used \cup {i}, ClusterSize - 1, low)
               IN [used |-> prev.used \cup {i}, sets |-> Append(prev.sets, [seed |-> i, all |-> cl])]
    IN seeded[Len(current)].sets

\* cluster(): every position not yet used seeds a cluster and pulls in the
\* most similar ones that are not used either.
Clusters(low) ==
    LET seeded[i \in 0 .. Len(current)] ==
          IF i = 0 THEN [used |-> {}, sets |-> << >>]
          ELSE LET prev == seeded[i - 1]
                   cl   == {i} \cup Pulled(i, prev.used \cup {i}, ClusterSize - 1, low)
               IN IF i \in prev.used THEN prev
                  ELSE [used |-> prev.used \cup cl,
                        sets |-> Append(prev.sets, [seed |-> i, all |-> cl])]
    IN seeded[Len(current)].sets

BigEnough(cl) == Cardinality(cl.all) >= minCluster

\* The mean of the embedded children; a parent of none embeds its summary,
\* which may fail.
Parent(cl, embeds) ==
    LET kids  == {current[i] : i \in cl.all}
        vecs  == {k \in kids : nodes[k].embedded}
        place(k) == nodes[k].place
        base  == IF vecs = {} THEN kids ELSE vecs
    IN [level |-> level + 1, place |-> SumOver(base, place) \div Cardinality(base),
        embedded |-> vecs # {} \/ embeds, children |-> kids]

\* The new nodes follow those there are, a parent for each large cluster in
\* the order of the clusters.
Large(sets) == {i \in DOMAIN sets : BigEnough(sets[i])}
IdOf(sets, i) == Len(nodes) + Cardinality({b \in Large(sets) : b <= i})
Grown(sets, embeds) ==
    nodes \o [n \in 1 .. Cardinality(Large(sets)) |->
                Parent(sets[CHOOSE i \in Large(sets) : IdOf(sets, i) = Len(nodes) + n], embeds)]
Carried(sets) ==
    [i \in DOMAIN sets |-> IF i \in Large(sets) THEN IdOf(sets, i) ELSE current[sets[i].seed]]

Climbs == level + 1 < MaxLevels /\ Len(current) > minCluster

\* One level: large clusters get a parent, of a small one the seed is carried
\* up.  A level that reduces nothing, or grows no smaller, ends the build.
RaptorLevel ==
    /\ rPc = "build" /\ Climbs
    /\ \E low, embeds \in BOOLEAN :
         LET sets == Clusters(low)
             next == Carried(sets)
         IN IF Large(sets) = {} THEN rPc' = "built" /\ UNCHANGED <<nodes, current, level>>
            ELSE /\ nodes' = Grown(sets, embeds)
                 /\ IF Len(next) >= Len(current)
                    THEN rPc' = "built" /\ UNCHANGED <<current, level>>
                    ELSE current' = next /\ level' = level + 1 /\ UNCHANGED rPc
    /\ UNCHANGED <<leaves, minCluster>>

RaptorTop ==
    /\ rPc = "build" /\ ~Climbs
    /\ rPc' = "built"
    /\ UNCHANGED <<leaves, minCluster, nodes, current, level>>

RaptorNext == RaptorLevel \/ RaptorTop

-----------------------------------------------------------------------------
LeavesUnder(n) ==
    LET under[m \in DOMAIN nodes] ==
          IF nodes[m].children = {} THEN {m} ELSE UNION {under[c] : c \in nodes[m].children}
    IN under[n]

\* The levels form a forest over the chunks at every moment of the build: a
\* node is summarised by one parent at most, which stands above it; no chunk
\* is under two nodes of the level being clustered; and where a small cluster
\* is a single node every chunk is under one (src/raptor/raptor.cpp:157: what
\* is not summarised is carried up).
ForestCovers ==
    /\ \A m, n \in DOMAIN nodes :
         /\ m \in nodes[n].children => nodes[m].level < nodes[n].level
         /\ m # n => nodes[m].children \cap nodes[n].children = {}
    /\ \A i, j \in DOMAIN current :
         i # j => LeavesUnder(current[i]) \cap LeavesUnder(current[j]) = {}
    /\ minCluster = 2 =>
         /\ UNION {LeavesUnder(current[i]) : i \in DOMAIN current} = DOMAIN leaves
         /\ \A n \in DOMAIN nodes : nodes[n].level <= level
=============================================================================
