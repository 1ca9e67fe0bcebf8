---------------------------- MODULE CorpusIndex ----------------------------
(***************************************************************************)
(* What rag::index::Corpus (corpus.cpp) can find.  A corpus keeps its      *)
(* documents and chunks and, beside them, four structures derived from     *)
(* them, each repaired lazily by the first reader that needs it: the       *)
(* chunks' borrowed pointers to metadata, the weights of BM25, the HNSW    *)
(* graph and the packed matrix of embeddings.  The module follows their    *)
(* flags through adds, removals, builds that fail in the middle, moves,    *)
(* saves and loads, and asks which chunks a search can return.             *)
(*                                                                         *)
(* A chunk is its document, whether it has any term, and the dimension of  *)
(* its embedding, 0 while it has none.  The query is one term and one      *)
(* vector: every chunk with terms matches it, in an order of scores that   *)
(* is not fixed.  The graph is the set of chunks it holds (Hnsw models the *)
(* inside of it).  A corpus has one owner: what runs in parallel are the   *)
(* batches of a build and the two arms of a hybrid search.                 *)
(***************************************************************************)
EXTENDS Integers, Sequences, FiniteSets

CONSTANTS
    MaxDocs, MaxChunks,   \* bounds on documents and chunks
    Sizes,                \* how many chunks a new document may have
    Dims,                 \* dimensions the embedder answers with
    Batch,                \* CorpusConfig::embed_batch
    Workers,              \* the embedder's max_concurrency()
    Threshold,            \* CorpusConfig::hnsw_threshold
    K                     \* how many hits a search asks for

ASSUME CorpusAssumption ==
    /\ MaxDocs \in Nat /\ MaxChunks \in Nat /\ Sizes \subseteq Nat
    /\ Dims \subseteq Nat \ {0}
    /\ Batch \in Nat \ {0} /\ Workers \in Nat \ {0}
    /\ Threshold \in Nat /\ K \in Nat \ {0}

VARIABLES
    docs,       \* number of documents ever added
    deleted,    \* soft-deleted documents
    chunks,     \* the chunks, in the order of their ids
    embedder,   \* whether an embedder is attached
    linked,     \* chunks whose meta pointer points into docs_
    metaStale,  \* meta_stale_
    finalized,  \* Bm25Index::finalized_
    weighed,    \* chunks whose postings have a weight
    graph,      \* hnsw_
    matrix,     \* packed_ and packed_ids_, current when stamped with epoch_
    build,      \* the call of build() in progress
    arms,       \* arms of a hybrid search still running
    disk,       \* the last snapshot saved
    behind      \* history: a build failed after it had embedded some chunks

store   == <<docs, deleted, chunks>>
links   == <<linked, metaStale>>
weights == <<finalized, weighed>>
vars    == <<store, embedder, links, weights, graph, matrix, build, arms, disk, behind>>

Chunk == [doc : Nat \ {0}, terms : BOOLEAN, dim : Dims \union {0}]

\* Of a sequence of chunks, those with an embedding, and those with an embedding of
\* the dimension of the first.
EmbeddedIn(cs) == {c \in 1..Len(cs) : cs[c].dim # 0}
UniformIn(cs) ==
    {c \in EmbeddedIn(cs) : \E first \in EmbeddedIn(cs) :
        cs[c].dim = cs[first].dim /\ \A e \in EmbeddedIn(cs) : first <= e}

ChunkIds == 1..Len(chunks)
Embedded == EmbeddedIn(chunks)
Pending  == ChunkIds \ Embedded
Termed   == {c \in ChunkIds : chunks[c].terms}
Dead     == {c \in ChunkIds : chunks[c].doc \in deleted}

NoGraph  == [there |-> FALSE, nodes |-> {}, tombs |-> {}, sealed |-> FALSE]
NoMatrix == [rows |-> {}, current |-> FALSE]
NoBuild  == [on |-> FALSE, pending |-> {}, todo |-> {}, failed |-> FALSE, short |-> {}]
NoDisk   == [there |-> FALSE, docs |-> 0, deleted |-> {}, chunks |-> <<>>,
             indexed |-> FALSE, nodes |-> {}, behind |-> FALSE]

Init ==
    /\ docs = 0 /\ deleted = {} /\ chunks = <<>>
    /\ embedder = FALSE
    /\ linked = {} /\ metaStale = FALSE
    /\ finalized = FALSE /\ weighed = {}
    /\ graph = NoGraph /\ matrix = NoMatrix
    /\ build = NoBuild /\ arms = {}
    /\ disk = NoDisk /\ behind = FALSE

-----------------------------------------------------------------------------
(* The lazy repairs.                                                       *)

EnsureLinked ==
    /\ linked' = IF metaStale THEN ChunkIds ELSE linked
    /\ metaStale' = FALSE

EnsureFinalized ==
    /\ weighed' = IF finalized THEN weighed ELSE Termed
    /\ finalized' = TRUE

\* A graph without nodes is left as it is.
Sealed(g) == [g EXCEPT !.sealed = @ \/ g.nodes # {}]

\* The dimension of the first embedding, of a removed document too, is that of
\* the matrix and of the graph; embeddings of another dimension are passed over.
Uniform == UniformIn(chunks)

Packed == [rows |-> Uniform \ Dead, current |-> TRUE]

Repacked == IF matrix.current THEN matrix ELSE Packed

-----------------------------------------------------------------------------
(* What a search can return, once its repairs are made.                    *)

Matching == IF finalized THEN weighed ELSE Termed

\* Broken variant of Fetch: one chunk more for each removed document.
FetchPerDocument == K + Cardinality(deleted)

\* Chunks asked of BM25, so that K are left without those of removed documents.
Fetch == IF deleted = {} THEN K ELSE K + Cardinality(deleted) * 2 + K

\* The sets BM25 may answer with: the order of scores is anyone's.
Tops ==
    LET n == Cardinality(Matching)
    IN  {S \in SUBSET Matching : Cardinality(S) = IF n < Fetch THEN n ELSE Fetch}

\* Broken variant of Allowed: with a graph, its own tombstones are trusted.
AllowGraph == IF graph.there THEN ChunkIds ELSE ChunkIds \ Dead

Allowed == ChunkIds \ Dead

\* Broken variant of DenseFound: the matrix is scanned as it is.
DenseFoundUnpacked ==
    IF graph.there THEN (graph.nodes \ graph.tombs) \cap Allowed
    ELSE IF matrix.rows # {} THEN matrix.rows \cap Allowed
    ELSE Embedded \cap Allowed

DenseFound ==
    IF graph.there THEN (graph.nodes \ graph.tombs) \cap Allowed
    ELSE IF Repacked.rows # {} THEN Repacked.rows \cap Allowed
    ELSE Embedded \cap Allowed

\* A batch of queries scores the matrix on the device and checks no more.
BatchFound == IF graph.there THEN DenseFound ELSE Repacked.rows \union DenseFound

-----------------------------------------------------------------------------
(* Mutations.  Each moves the epoch on, so the matrix is no longer current. *)

Idle    == ~build.on /\ arms = {}
Outdate == matrix' = [matrix EXCEPT !.current = FALSE]

\* A new document of n chunks, without any term if blank.  Growing docs_ may
\* move the documents that the older chunks point to.
Add(n, blank) ==
    LET new == [doc |-> docs + 1, terms |-> ~blank, dim |-> 0]
    IN  /\ Idle /\ docs < MaxDocs /\ Len(chunks) + n <= MaxChunks
        /\ docs' = docs + 1
        /\ chunks' = [c \in 1..(Len(chunks) + n) |->
                         IF c <= Len(chunks) THEN chunks[c] ELSE new]
        /\ \E moved \in BOOLEAN : linked' = IF moved THEN {} ELSE linked
        /\ metaStale' = TRUE
        /\ finalized' = (finalized /\ (blank \/ n = 0))
        /\ Outdate
        /\ UNCHANGED <<deleted, embedder, weighed, graph, build, arms, disk, behind>>

Remove(d) ==
    /\ Idle /\ d \in 1..docs /\ d \notin deleted
    /\ EnsureLinked
    /\ deleted' = deleted \union {d}
    /\ graph' = [graph EXCEPT !.tombs =
                    IF graph.there THEN @ \union {c \in ChunkIds : chunks[c].doc = d} ELSE @]
    /\ Outdate
    /\ UNCHANGED <<docs, chunks, embedder, weights, build, arms, disk, behind>>

\* Whoever hands out a chunk: chunk, chunks, resolve, passes, a refused removal.
Relink ==
    /\ Idle
    /\ EnsureLinked
    /\ UNCHANGED <<store, embedder, weights, graph, matrix, build, arms, disk, behind>>

SetEmbedder ==
    /\ Idle /\ ~embedder
    /\ embedder' = TRUE
    /\ UNCHANGED <<store, links, weights, graph, matrix, build, arms, disk, behind>>

\* The corpus is moved to another object.
Move ==
    /\ Idle
    /\ linked' = ChunkIds /\ metaStale' = FALSE
    /\ matrix' = NoMatrix
    /\ UNCHANGED <<store, embedder, weights, graph, build, arms, disk, behind>>

-----------------------------------------------------------------------------
(* build(): embeddings are asked for in batches, batch b by share b modulo  *)
(* the number of workers, and each share stops at its first failure.        *)

\* Broken variant of Batches: the last, incomplete batch is forgotten.
FullBatches(n) == n \div Batch

Batches(n) == (n + Batch - 1) \div Batch
Rank(c) == Cardinality({e \in build.pending : e < c})
Slice(b) == {c \in build.pending : Rank(c) \in (b * Batch)..(b * Batch + Batch - 1)}
Share(b) ==
    LET nb == Batches(Cardinality(build.pending))
    IN  b % (IF nb < Workers THEN nb ELSE Workers)

StartBuild ==
    /\ Idle
    /\ EnsureLinked
    /\ EnsureFinalized
    /\ build' = [NoBuild EXCEPT !.on = TRUE,
                    !.pending = IF embedder THEN Pending ELSE {},
                    !.todo = IF embedder
                             THEN 0..(Batches(Cardinality(Pending)) - 1) ELSE {}]
    /\ UNCHANGED <<store, embedder, graph, matrix, arms, disk, behind>>

\* The next batch of its share.
Ready(b) ==
    /\ build.on /\ b \in build.todo
    /\ \A a \in build.todo : a < b => Share(a) # Share(b)

\* The embedder answers batch b with n vectors, perhaps fewer than asked for.
EmbedBatch(b, n, d) ==
    LET given == {c \in Slice(b) : Rank(c) < b * Batch + n}
    IN  /\ Ready(b) /\ n <= Cardinality(Slice(b))
        /\ chunks' = [c \in ChunkIds |->
                         IF c \in given THEN [chunks[c] EXCEPT !.dim = d] ELSE chunks[c]]
        /\ build' = [build EXCEPT !.todo = @ \ {b}, !.short = @ \union (Slice(b) \ given)]
        /\ UNCHANGED <<docs, deleted, embedder, links, weights, graph, matrix, arms, disk, behind>>

\* The share of batch b skips what it has left.
EmbedFails(b) ==
    /\ Ready(b)
    /\ build' = [build EXCEPT !.todo = {a \in @ : Share(a) # Share(b)}, !.failed = TRUE]
    /\ UNCHANGED <<store, embedder, links, weights, graph, matrix, arms, disk, behind>>

Joined == build.on /\ build.todo = {}

\* build() returns the first error: neither graph nor epoch has moved.
BuildFails ==
    /\ Joined /\ build.failed
    /\ build' = NoBuild
    /\ behind' = (behind \/ build.pending \cap Embedded # {})
    /\ UNCHANGED <<store, embedder, links, weights, graph, matrix, arms, disk>>

\* Broken variant of BuildOk: the epoch stays.
BuildSameEpoch ==
    /\ Joined /\ ~build.failed
    /\ build' = NoBuild
    /\ graph' = IF embedder /\ Len(chunks) >= Threshold
                THEN Sealed([NoGraph EXCEPT !.there = TRUE, !.nodes = Uniform])
                ELSE graph
    /\ behind' = (behind /\ ~embedder)
    /\ UNCHANGED <<store, embedder, links, weights, matrix, arms, disk>>

\* A graph is built from nothing over the embedded chunks, those of removed
\* documents included, and sealed.
BuildOk ==
    /\ Joined /\ ~build.failed
    /\ build' = NoBuild
    /\ graph' = IF embedder /\ Len(chunks) >= Threshold
                THEN Sealed([NoGraph EXCEPT !.there = TRUE, !.nodes = Uniform])
                ELSE graph
    /\ behind' = (behind /\ ~embedder)
    /\ Outdate
    /\ UNCHANGED <<store, embedder, links, weights, arms, disk>>

-----------------------------------------------------------------------------
(* Reading.                                                                *)

LexicalRead ==
    /\ EnsureFinalized
    /\ IF deleted # {} /\ Matching # {} THEN EnsureLinked ELSE UNCHANGED links

DenseRead ==
    /\ EnsureLinked
    /\ IF graph.there
       THEN graph' = Sealed(graph) /\ UNCHANGED matrix
       ELSE matrix' = Repacked /\ UNCHANGED graph

LexicalSearch ==
    /\ Idle
    /\ LexicalRead
    /\ UNCHANGED <<store, embedder, graph, matrix, build, arms, disk, behind>>

\* dense_search and dense_search_batch repair the same things; an embedder that
\* fails on the query has let a dense search repair the links only.
DenseSearch ==
    /\ Idle /\ embedder
    /\ DenseRead
    /\ UNCHANGED <<store, embedder, weights, build, arms, disk, behind>>

Explain ==
    /\ Idle
    /\ EnsureLinked
    /\ EnsureFinalized
    /\ UNCHANGED <<store, embedder, graph, matrix, build, arms, disk, behind>>

\* Broken variant of PrepareRead: the weights are left to the lexical retriever.
PrepareDense ==
    /\ EnsureLinked
    /\ UNCHANGED weights
    /\ graph' = IF graph.there THEN Sealed(graph) ELSE graph
    /\ matrix' = IF ~graph.there /\ embedder THEN Repacked ELSE matrix

PrepareRead ==
    /\ EnsureLinked
    /\ EnsureFinalized
    /\ graph' = IF graph.there THEN Sealed(graph) ELSE graph
    /\ matrix' = IF ~graph.there /\ embedder THEN Repacked ELSE matrix

\* HybridRetrieveStage: repairs first, then both retrievers side by side.
StartHybrid ==
    /\ Idle /\ embedder
    /\ PrepareRead
    /\ arms' = {"lexical", "dense"}
    /\ UNCHANGED <<store, embedder, build, disk, behind>>

LexicalArm ==
    /\ "lexical" \in arms
    /\ LexicalRead
    /\ arms' = arms \ {"lexical"}
    /\ UNCHANGED <<store, embedder, graph, matrix, build, disk, behind>>

DenseArm ==
    /\ "dense" \in arms
    /\ DenseRead
    /\ arms' = arms \ {"dense"}
    /\ UNCHANGED <<store, embedder, weights, build, disk, behind>>

-----------------------------------------------------------------------------
(* Snapshots: the graph's own tombstones are not written.                  *)

Save ==
    /\ Idle
    /\ EnsureLinked
    /\ disk' = [there |-> TRUE, docs |-> docs, deleted |-> deleted, chunks |-> chunks,
                indexed |-> graph.there, nodes |-> graph.nodes, behind |-> behind]
    /\ UNCHANGED <<store, embedder, weights, graph, matrix, build, arms, behind>>

Load ==
    /\ Idle /\ disk.there
    /\ docs' = disk.docs /\ deleted' = disk.deleted /\ chunks' = disk.chunks
    /\ embedder' = FALSE
    /\ linked' = 1..Len(disk.chunks) /\ metaStale' = FALSE
    /\ finalized' = TRUE
    /\ weighed' = {c \in 1..Len(disk.chunks) : disk.chunks[c].terms}
    /\ graph' = [NoGraph EXCEPT !.there = disk.indexed, !.nodes = disk.nodes]
    /\ matrix' = NoMatrix
    /\ behind' = disk.behind
    /\ UNCHANGED <<build, arms, disk>>

-----------------------------------------------------------------------------
Next ==
    \/ \E n \in Sizes, blank \in BOOLEAN : Add(n, blank)
    \/ \E d \in 1..docs : Remove(d)
    \/ Relink \/ SetEmbedder \/ Move \/ StartBuild
    \/ \E b \in build.todo :
          EmbedFails(b) \/ \E n \in 0..Batch, d \in Dims : EmbedBatch(b, n, d)
    \/ BuildFails \/ BuildOk
    \/ LexicalSearch \/ DenseSearch \/ Explain
    \/ StartHybrid \/ LexicalArm \/ DenseArm
    \/ Save \/ Load

Spec == Init /\ [][Next]_vars

-----------------------------------------------------------------------------
(* Properties.                                                             *)

\* Documents, removed documents and chunks that belong together.
Table(n, removed, cs) ==
    /\ n \in 0..MaxDocs /\ removed \subseteq 1..n
    /\ cs \in Seq(Chunk) /\ Len(cs) <= MaxChunks
    /\ \A c \in 1..Len(cs) : cs[c].doc \in 1..n

\* The variables are of their types, and what refers to chunks and documents, in
\* memory and in the snapshot, refers to some that are there.
TypeOK ==
    /\ Table(docs, deleted, chunks)
    /\ embedder \in BOOLEAN /\ metaStale \in BOOLEAN /\ finalized \in BOOLEAN
    /\ linked \subseteq ChunkIds /\ weighed \subseteq ChunkIds
    /\ graph \in [there : BOOLEAN, nodes : SUBSET Embedded, tombs : SUBSET Dead,
                  sealed : BOOLEAN]
    /\ matrix \in [rows : SUBSET Embedded, current : BOOLEAN]
    /\ build \in [on : BOOLEAN, pending : SUBSET ChunkIds, todo : SUBSET Nat,
                  failed : BOOLEAN, short : SUBSET ChunkIds]
    /\ arms \subseteq {"lexical", "dense"} /\ behind \in BOOLEAN
    /\ disk.there \in BOOLEAN /\ disk.indexed \in BOOLEAN /\ disk.behind \in BOOLEAN
    /\ Table(disk.docs, disk.deleted, disk.chunks)
    /\ disk.nodes \subseteq EmbeddedIn(disk.chunks)

\* What a flag says is current is current: no pointer dangles unless metadata is
\* stale, the weights cover every posting once finalized, and, unless a build
\* failed half-way, the matrix is the one a fresh pack would give and the graph
\* holds what a fresh build would put in it.
CachesCurrent ==
    /\ metaStale \/ linked = ChunkIds
    /\ finalized => weighed = Termed
    /\ ~behind /\ build.pending \cap Embedded = {} =>
         /\ matrix.current => matrix = Packed
         /\ graph.there => graph.nodes = Uniform

\* No search, by term, by vector or by batch, finds a chunk of a removed document,
\* whatever was built, moved, saved or loaded since the removal.
DeletedHidden == (DenseFound \union BatchFound) \cap Dead = {}

\* Unless a build failed half-way, every chunk that has an embedding of the
\* dimension the corpus works with and belongs to a live document is found.
DenseFull ==
    ~behind /\ ~build.on => Uniform \ Dead \subseteq DenseFound

\* A lexical search comes up with K chunks, or with all that match, if removed
\* documents hold no more than K + 2|deleted| of the chunks that match.
LexicalFull ==
    LET live == Cardinality(Termed \ Dead)
    IN  Cardinality(Termed \cap Dead) <= K + 2 * Cardinality(deleted) =>
            \A S \in Tops : Cardinality(S \ Dead) >= IF live < K THEN live ELSE K

\* A build that is about to succeed has asked for the embedding of every chunk
\* without one: only those the embedder left out of an answer still have none.
BuildReachesAll ==
    Joined /\ ~build.failed /\ embedder => Pending \subseteq build.short

\* Once prepare_read has run, neither retriever of a hybrid search writes anything
\* the other may be reading.
ReadersReadOnly ==
    [][arms # {} => UNCHANGED <<store, links, weights, graph, matrix>>]_vars
=============================================================================
