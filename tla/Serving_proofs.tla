--------------------------- MODULE Serving_proofs ---------------------------
(***************************************************************************)
(* Proofs about CorpusIndex, for any number of documents, chunks, batches  *)
(* and workers.                                                            *)
(*                                                                         *)
(* What a search finds is right because what a flag calls current is       *)
(* current.  The flags stay right because each mutation clears the ones it *)
(* makes wrong; the exception is a build that fails half-way, which the    *)
(* history variable behind names.  The invariant adds what the steps rely  *)
(* on: the matrix has no removed row while it is current, a graph is there *)
(* only past the threshold, and a snapshot's graph is that of its chunks.  *)
(*                                                                         *)
(* Cache, for any capacity: the map and the list of an LruCache agree and  *)
(* hold the keys touched last, and a cached score is the model's.          *)
(*                                                                         *)
(* Handler, for any server and request: the hits a retrieve answers with   *)
(* are a prefix of the good ones among those recalled, each once, as a     *)
(* rerank moves and rescores the top without adding or losing any; and a   *)
(* request is refused for want of a part only where the part, and with it  *)
(* the capability, is missing.                                             *)
(***************************************************************************)
EXTENDS CorpusIndex, Cache, Handler, Orders_proofs

MatrixLive == matrix.current => matrix.rows \cap Dead = {}

PastThreshold ==
    /\ graph.there => Len(chunks) >= Threshold
    /\ disk.indexed => Len(disk.chunks) >= Threshold

\* Nothing is pending outside a build, nor in one without an embedder, and no
\* search runs beside a build.
OneOwner ==
    /\ ~build.on => build = NoBuild
    /\ ~embedder => build.pending = {}
    /\ build.on => arms = {}

\* While arms run, there is nothing left to repair.
Repaired ==
    arms # {} =>
        /\ ~metaStale /\ finalized
        /\ graph.there => graph.sealed \/ graph.nodes = {}
        /\ ~graph.there => matrix.current

DiskCurrent == ~disk.behind /\ disk.indexed => disk.nodes = UniformIn(disk.chunks)

IndexInv ==
    /\ TypeOK /\ CachesCurrent /\ MatrixLive /\ PastThreshold
    /\ OneOwner /\ Repaired /\ DiskCurrent

-----------------------------------------------------------------------------
(* Sequences of chunks.                                                    *)

\* A function on 1..n is a sequence of length n.
LEMMA FunctionIsSeq ==
    ASSUME NEW S, NEW n \in Nat, NEW f \in [1..n -> S]
    PROVE  f \in Seq(S) /\ Len(f) = n
BY LenProperties, SeqDef

\* Chunks without embedding at the end change nothing about the embedded ones.
LEMMA Appended ==
    ASSUME NEW cs \in Seq(Chunk), NEW ds \in Seq(Chunk),
           Len(cs) <= Len(ds),
           \A c \in 1..Len(ds) :
               IF c <= Len(cs) THEN ds[c] = cs[c] ELSE ds[c].dim = 0
    PROVE  /\ EmbeddedIn(ds) = EmbeddedIn(cs)
           /\ UniformIn(ds) = UniformIn(cs)
<1>1. Len(cs) \in Nat /\ Len(ds) \in Nat
  BY LenProperties
<1>2. EmbeddedIn(ds) = EmbeddedIn(cs)
  BY <1>1 DEF EmbeddedIn
<1>3. \A c \in EmbeddedIn(cs) : ds[c] = cs[c]
  BY <1>1 DEF EmbeddedIn
<1> QED BY <1>2, <1>3 DEF UniformIn

-----------------------------------------------------------------------------
(* The invariant: one lemma for each kind of step.                         *)

LEMMA Initially == Init => IndexInv
<1> SUFFICES ASSUME Init PROVE IndexInv
  OBVIOUS
<1>1. /\ <<>> \in Seq(Chunk) /\ Len(<<>>) = 0
      /\ EmbeddedIn(<<>>) = {} /\ UniformIn(<<>>) = {}
  BY DEF EmbeddedIn, UniformIn
<1>2. TypeOK
  <2>1. Table(0, {}, <<>>)
    BY <1>1, CorpusAssumption DEF Table
  <2>2. /\ graph \in [there : BOOLEAN, nodes : SUBSET Embedded, tombs : SUBSET Dead,
                      sealed : BOOLEAN]
        /\ matrix \in [rows : SUBSET Embedded, current : BOOLEAN]
        /\ build \in [on : BOOLEAN, pending : SUBSET ChunkIds, todo : SUBSET Nat,
                      failed : BOOLEAN, short : SUBSET ChunkIds]
    BY DEF Init, NoGraph, NoMatrix, NoBuild
  <2> QED BY <2>1, <2>2 DEF Init, TypeOK, NoDisk
<1>3. CachesCurrent
  BY <1>1 DEF Init, CachesCurrent, NoGraph, NoMatrix, ChunkIds
<1> QED
  BY <1>2, <1>3 DEF Init, IndexInv, MatrixLive, PastThreshold, OneOwner, Repaired,
     DiskCurrent, NoGraph, NoMatrix, NoBuild, NoDisk

\* Steps that leave documents and chunks alone leave alone what is read off them.
LEMMA SameStore ==
    ASSUME UNCHANGED store
    PROVE  UNCHANGED <<ChunkIds, Embedded, Termed, Dead, Uniform, Pending>>
BY DEF store, ChunkIds, Embedded, Pending, Termed, Dead, Uniform

\* Reading only ever repairs: links, weights, a sealed graph, a fresh matrix.
Reads ==
    /\ UNCHANGED <<store, embedder, build, disk, behind>>
    /\ EnsureLinked \/ UNCHANGED links
    /\ EnsureFinalized \/ UNCHANGED weights
    /\ graph' \in {graph, Sealed(graph)}
    /\ matrix' \in {matrix, Repacked}

LEMMA ReadsAreReads ==
    ASSUME \/ Relink \/ LexicalSearch \/ DenseSearch \/ Explain
           \/ StartHybrid \/ LexicalArm \/ DenseArm
    PROVE  Reads
BY DEF Reads, Relink, LexicalSearch, DenseSearch, Explain, StartHybrid, LexicalArm,
   DenseArm, LexicalRead, DenseRead, PrepareRead, links, weights, store

LEMMA ReadKeeps ==
    ASSUME IndexInv, Reads
    PROVE  /\ CachesCurrent' /\ MatrixLive' /\ PastThreshold' /\ DiskCurrent'
           /\ arms' \subseteq {"lexical", "dense"} => TypeOK'
<1> USE DEF IndexInv
<1>1. /\ UNCHANGED <<docs, deleted, chunks, build, disk, behind>>
      /\ UNCHANGED <<ChunkIds, Embedded, Termed, Dead, Uniform, Pending>>
  BY SameStore DEF Reads, store
<1>2. /\ Termed \subseteq ChunkIds /\ Uniform \subseteq Embedded
      /\ Packed \in [rows : SUBSET Embedded, current : BOOLEAN]
  BY DEF Termed, Uniform, UniformIn, Embedded, Packed
<1>3. /\ linked' \subseteq ChunkIds /\ metaStale' \in BOOLEAN
      /\ metaStale' \/ linked' = ChunkIds
  <2>1. linked \subseteq ChunkIds /\ metaStale \in BOOLEAN /\ (metaStale \/ linked = ChunkIds)
    BY DEF CachesCurrent, TypeOK
  <2>2. CASE EnsureLinked
    BY <2>1, <2>2 DEF EnsureLinked
  <2>3. CASE UNCHANGED links
    BY <2>1, <2>3 DEF links
  <2> QED BY <2>2, <2>3 DEF Reads
<1>4. /\ weighed' \subseteq ChunkIds /\ finalized' \in BOOLEAN
      /\ finalized' => weighed' = Termed
  <2>1. weighed \subseteq ChunkIds /\ finalized \in BOOLEAN /\ (finalized => weighed = Termed)
    BY DEF CachesCurrent, TypeOK
  <2>2. CASE EnsureFinalized
    BY <1>2, <2>1, <2>2 DEF EnsureFinalized
  <2>3. CASE UNCHANGED weights
    BY <2>1, <2>3 DEF weights
  <2> QED BY <2>2, <2>3 DEF Reads
<1>5. /\ graph' \in [there : BOOLEAN, nodes : SUBSET Embedded, tombs : SUBSET Dead,
                     sealed : BOOLEAN]
      /\ graph'.there = graph.there /\ graph'.nodes = graph.nodes
  BY DEF Reads, Sealed, TypeOK
<1>6. /\ matrix' \in [rows : SUBSET Embedded, current : BOOLEAN]
      /\ matrix' = matrix \/ matrix' = Packed
  BY <1>2 DEF Reads, Repacked, TypeOK
<1>7. arms' \subseteq {"lexical", "dense"} => TypeOK'
  BY <1>1, <1>3, <1>4, <1>5, <1>6 DEF TypeOK, Reads
<1>8. CachesCurrent'
  BY <1>1, <1>3, <1>4, <1>5, <1>6 DEF CachesCurrent, Packed
<1>9. MatrixLive'
  BY <1>1, <1>6 DEF MatrixLive, Packed
<1> QED
  BY <1>1, <1>5, <1>7, <1>8, <1>9 DEF PastThreshold, DiskCurrent

\* Reads by the owner, and the three steps of a hybrid search.
LEMMA OwnerReads ==
    ASSUME IndexInv, Relink \/ LexicalSearch \/ DenseSearch \/ Explain
    PROVE  IndexInv'
<1>1. Reads /\ Idle /\ UNCHANGED arms
  BY ReadsAreReads DEF Relink, LexicalSearch, DenseSearch, Explain
<1>2. arms' = {} /\ ~build.on /\ UNCHANGED <<embedder, build>>
  BY <1>1 DEF Idle, Reads
<1>3. OneOwner' /\ Repaired'
  BY <1>2 DEF IndexInv, OneOwner, Repaired
<1> QED BY <1>1, <1>2, <1>3, ReadKeeps DEF IndexInv

LEMMA HybridStarts ==
    ASSUME IndexInv, StartHybrid
    PROVE  IndexInv'
<1>1. Reads /\ Idle /\ arms' = {"lexical", "dense"} /\ UNCHANGED <<embedder, build>>
  BY ReadsAreReads DEF StartHybrid, Reads
<1>2. ~metaStale' /\ finalized'
  BY DEF StartHybrid, PrepareRead, EnsureLinked, EnsureFinalized
<1>3. graph'.there => graph'.sealed \/ graph'.nodes = {}
  BY DEF StartHybrid, PrepareRead, Sealed, IndexInv, TypeOK
<1>4. ~graph'.there => matrix'.current
  BY DEF StartHybrid, PrepareRead, Sealed, Repacked, Packed, IndexInv, TypeOK
<1>5. OneOwner' /\ Repaired'
  BY <1>1, <1>2, <1>3, <1>4 DEF IndexInv, OneOwner, Repaired, Idle
<1> QED BY <1>1, <1>5, ReadKeeps DEF IndexInv

\* An arm that runs after prepare_read finds nothing to repair.
LEMMA ArmsOnlyRead ==
    ASSUME IndexInv, LexicalArm \/ DenseArm
    PROVE  /\ arms # {} /\ arms' \subseteq arms
           /\ UNCHANGED <<store, embedder, links, weights, graph, matrix, build, disk, behind>>
<1>1. arms # {} /\ arms' \subseteq arms
  BY DEF LexicalArm, DenseArm
<1>2. /\ metaStale = FALSE /\ finalized = TRUE
      /\ graph.there => graph.sealed \/ graph.nodes = {}
      /\ ~graph.there => matrix.current
  BY <1>1 DEF IndexInv, Repaired, TypeOK
<1>3. EnsureLinked => UNCHANGED links
  BY <1>2 DEF EnsureLinked, links
<1>4. EnsureFinalized => UNCHANGED weights
  BY <1>2 DEF EnsureFinalized, weights
<1>5. graph.there => Sealed(graph) = graph
  BY <1>2 DEF Sealed, IndexInv, TypeOK
<1>6. CASE LexicalArm
  BY <1>1, <1>3, <1>4, <1>6 DEF LexicalArm, LexicalRead
<1>7. CASE DenseArm
  BY <1>1, <1>2, <1>3, <1>5, <1>7 DEF DenseArm, DenseRead, Repacked
<1> QED BY <1>6, <1>7

LEMMA ArmsKeep ==
    ASSUME IndexInv, LexicalArm \/ DenseArm
    PROVE  IndexInv'
<1>1. /\ arms # {} /\ arms' \subseteq arms
      /\ UNCHANGED <<store, embedder, links, weights, graph, matrix, build, disk, behind>>
  BY ArmsOnlyRead
<1>2. Reads /\ UNCHANGED <<metaStale, finalized>>
  BY <1>1 DEF Reads, links, weights
<1>3. OneOwner' /\ Repaired'
  BY <1>1, <1>2 DEF IndexInv, OneOwner, Repaired
<1>4. arms' \subseteq {"lexical", "dense"}
  BY <1>1 DEF IndexInv, TypeOK
<1> QED BY <1>2, <1>3, <1>4, ReadKeeps DEF IndexInv

LEMMA AddKeeps ==
    ASSUME IndexInv, NEW n \in Sizes, NEW blank \in BOOLEAN, Add(n, blank)
    PROVE  IndexInv'
<1> USE DEF IndexInv
<1> DEFINE new == [doc |-> docs + 1, terms |-> ~blank, dim |-> 0]
           m == Len(chunks) + n
<1>1. /\ docs \in Nat /\ docs < MaxDocs /\ n \in Nat
      /\ chunks \in Seq(Chunk) /\ Len(chunks) \in Nat /\ m \in Nat /\ m <= MaxChunks
      /\ \A c \in ChunkIds : chunks[c] \in Chunk /\ chunks[c].doc \in 1..docs
  BY CorpusAssumption, LenProperties DEF Add, TypeOK, Table, ChunkIds
<1>2. new \in Chunk
  BY <1>1 DEF Chunk
<1>3. chunks' = [c \in 1..m |-> IF c <= Len(chunks) THEN chunks[c] ELSE new]
  BY DEF Add
<1>4. chunks' \in [1..m -> Chunk]
  BY <1>1, <1>2, <1>3 DEF ChunkIds
<1>5. chunks' \in Seq(Chunk) /\ Len(chunks') = m
  BY <1>1, <1>4, FunctionIsSeq
<1>6. /\ ChunkIds \subseteq ChunkIds'
      /\ \A c \in ChunkIds' : IF c \in ChunkIds THEN chunks'[c] = chunks[c] ELSE chunks'[c] = new
  BY <1>1, <1>3, <1>5 DEF ChunkIds
<1>7. Embedded' = Embedded /\ Uniform' = Uniform
  <2>1. \A c \in 1..Len(chunks') :
            IF c <= Len(chunks) THEN chunks'[c] = chunks[c] ELSE chunks'[c].dim = 0
    BY <1>1, <1>3, <1>5
  <2> QED BY <1>1, <1>5, <2>1, Appended DEF Embedded, Uniform
<1>8. /\ UNCHANGED <<deleted, embedder, weighed, graph, build, arms, disk, behind>>
      /\ docs' = docs + 1 /\ metaStale' = TRUE
      /\ linked' \subseteq linked /\ finalized' = (finalized /\ (blank \/ n = 0))
      /\ matrix' = [matrix EXCEPT !.current = FALSE]
      /\ Idle
  BY DEF Add, Outdate
<1>9. Dead' = Dead
  <2>1. deleted \subseteq 1..docs
    BY DEF TypeOK, Table
  <2> QED BY <1>1, <1>6, <1>8, <2>1 DEF Dead
<1>10. finalized' => Termed' = Termed
  <2> SUFFICES ASSUME finalized' PROVE Termed' = Termed
    OBVIOUS
  <2>1. blank \/ n = 0
    BY <1>8
  <2>2. CASE blank
    <3>1. new.terms = FALSE
      BY <2>2
    <3>2. \A c \in ChunkIds' : chunks'[c].terms <=> c \in ChunkIds /\ chunks[c].terms
      BY <1>6, <3>1
    <3> QED BY <1>6, <3>2 DEF Termed
  <2>3. CASE n = 0
    BY <1>1, <1>5, <1>6, <2>3 DEF Termed, ChunkIds
  <2> QED BY <2>1, <2>2, <2>3
<1>11. TypeOK'
  <2>1. Table(docs, deleted, chunks)'
    <3>1. docs' \in 0..MaxDocs /\ deleted' \subseteq 1..docs'
      BY <1>1, <1>8, CorpusAssumption DEF TypeOK, Table
    <3>2. \A c \in ChunkIds' : chunks'[c].doc \in 1..docs'
      BY <1>1, <1>6, <1>8
    <3> QED BY <1>1, <1>5, <3>1, <3>2 DEF Table, ChunkIds
  <2>2. /\ linked' \subseteq ChunkIds' /\ weighed' \subseteq ChunkIds'
        /\ finalized' \in BOOLEAN /\ metaStale' \in BOOLEAN
        /\ matrix' \in [rows : SUBSET Embedded', current : BOOLEAN]
    BY <1>6, <1>7, <1>8 DEF TypeOK
  <2>3. build' \in [on : BOOLEAN, pending : SUBSET ChunkIds', todo : SUBSET Nat,
                    failed : BOOLEAN, short : SUBSET ChunkIds']
    BY <1>6, <1>8 DEF TypeOK
  <2> QED BY <1>7, <1>8, <1>9, <2>1, <2>2, <2>3 DEF TypeOK
<1>12. CachesCurrent'
  BY <1>7, <1>8, <1>10 DEF CachesCurrent, TypeOK
<1>13. PastThreshold'
  BY <1>1, <1>5, <1>8, CorpusAssumption DEF PastThreshold
<1> QED
  BY <1>8, <1>11, <1>12, <1>13 DEF MatrixLive, OneOwner, Repaired, DiskCurrent, Idle, TypeOK

LEMMA RemoveKeeps ==
    ASSUME IndexInv, NEW d \in 1..docs, Remove(d)
    PROVE  IndexInv'
<1> USE DEF IndexInv
<1>1. /\ UNCHANGED <<docs, chunks, embedder, weights, build, arms, disk, behind>>
      /\ deleted' = deleted \union {d}
      /\ matrix' = [matrix EXCEPT !.current = FALSE]
      /\ Idle /\ EnsureLinked
  BY DEF Remove, Outdate
<1>2. /\ UNCHANGED <<ChunkIds, Embedded, Uniform, Termed, finalized, weighed>>
      /\ Dead' = Dead \union {c \in ChunkIds : chunks[c].doc = d}
  BY <1>1 DEF ChunkIds, Embedded, Uniform, Termed, Dead, weights
<1>3. /\ linked' \subseteq ChunkIds' /\ metaStale' = FALSE /\ linked' = ChunkIds'
  BY <1>1, <1>2 DEF EnsureLinked, CachesCurrent, TypeOK
<1>4. /\ graph' \in [there : BOOLEAN, nodes : SUBSET Embedded', tombs : SUBSET Dead',
                     sealed : BOOLEAN]
      /\ graph'.there = graph.there /\ graph'.nodes = graph.nodes
  BY <1>2 DEF Remove, TypeOK
<1>5. TypeOK'
  <2>1. Table(docs, deleted, chunks)'
    BY <1>1 DEF TypeOK, Table
  <2>2. matrix' \in [rows : SUBSET Embedded', current : BOOLEAN]
    BY <1>1, <1>2 DEF TypeOK
  <2> QED BY <1>1, <1>2, <1>3, <1>4, <2>1, <2>2 DEF TypeOK
<1>6. CachesCurrent'
  BY <1>1, <1>2, <1>3, <1>4 DEF CachesCurrent, TypeOK
<1> QED
  BY <1>1, <1>4, <1>5, <1>6 DEF MatrixLive, PastThreshold, OneOwner, Repaired, DiskCurrent,
     Idle, TypeOK

LEMMA AttachKeeps ==
    ASSUME IndexInv, SetEmbedder
    PROVE  IndexInv'
<1> USE DEF IndexInv
<1>1. /\ UNCHANGED <<docs, deleted, chunks, linked, metaStale, finalized, weighed, graph,
                     matrix, build, arms, disk, behind>>
      /\ embedder' = TRUE /\ Idle
  BY DEF SetEmbedder, store, links, weights
<1>2. UNCHANGED <<ChunkIds, Embedded, Uniform, Termed, Dead, Packed>>
  BY <1>1 DEF ChunkIds, Embedded, Uniform, Termed, Dead, Packed
<1>3. TypeOK' /\ CachesCurrent' /\ MatrixLive'
  BY <1>1, <1>2 DEF TypeOK, CachesCurrent, MatrixLive
<1> QED
  BY <1>1, <1>3 DEF PastThreshold, OneOwner, Repaired, DiskCurrent, Idle

LEMMA MoveKeeps ==
    ASSUME IndexInv, Move
    PROVE  IndexInv'
<1> USE DEF IndexInv
<1>1. /\ UNCHANGED <<docs, deleted, chunks, finalized, weighed, graph, embedder, build,
                     arms, disk, behind>>
      /\ linked' = ChunkIds /\ metaStale' = FALSE /\ Idle
      /\ matrix' \in [rows : {{}}, current : {FALSE}]
  BY DEF Move, store, weights, NoMatrix
<1>2. UNCHANGED <<ChunkIds, Embedded, Uniform, Termed, Dead>>
  BY <1>1 DEF ChunkIds, Embedded, Uniform, Termed, Dead
<1>3. TypeOK'
  BY <1>1, <1>2 DEF TypeOK
<1>4. CachesCurrent' /\ MatrixLive'
  BY <1>1, <1>2 DEF TypeOK, CachesCurrent, MatrixLive
<1> QED
  BY <1>1, <1>3, <1>4 DEF PastThreshold, OneOwner, Repaired, DiskCurrent, Idle

LEMMA SaveKeeps ==
    ASSUME IndexInv, Save
    PROVE  IndexInv'
<1> USE DEF IndexInv
<1>1. /\ UNCHANGED <<docs, deleted, chunks, finalized, weighed, graph, matrix, embedder,
                     build, arms, behind>>
      /\ EnsureLinked /\ Idle
      /\ disk' = [there |-> TRUE, docs |-> docs, deleted |-> deleted, chunks |-> chunks,
                  indexed |-> graph.there, nodes |-> graph.nodes, behind |-> behind]
  BY DEF Save, store, weights
<1>2. UNCHANGED <<ChunkIds, Embedded, Uniform, Termed, Dead, Packed>>
  BY <1>1 DEF ChunkIds, Embedded, Uniform, Termed, Dead, Packed
<1>3. linked' = ChunkIds /\ metaStale' = FALSE
  BY <1>1, <1>2 DEF EnsureLinked, CachesCurrent, TypeOK
<1>4. TypeOK'
  <2>1. Table(docs, deleted, chunks)' /\ Table(disk.docs, disk.deleted, disk.chunks)'
    BY <1>1 DEF TypeOK, Table
  <2>2. /\ disk'.there \in BOOLEAN /\ disk'.indexed \in BOOLEAN /\ disk'.behind \in BOOLEAN
        /\ disk'.nodes \subseteq EmbeddedIn(disk'.chunks)
    BY <1>1 DEF TypeOK, Embedded
  <2> QED BY <1>1, <1>2, <1>3, <2>1, <2>2 DEF TypeOK
<1>5. CachesCurrent' /\ MatrixLive'
  BY <1>1, <1>2, <1>3 DEF TypeOK, CachesCurrent, MatrixLive
<1>6. DiskCurrent'
  <2>1. build.pending = {}
    BY <1>1 DEF OneOwner, Idle, NoBuild
  <2> QED BY <1>1, <2>1 DEF DiskCurrent, CachesCurrent, Uniform
<1> QED
  BY <1>1, <1>4, <1>5, <1>6 DEF PastThreshold, OneOwner, Repaired, Idle

LEMMA LoadKeeps ==
    ASSUME IndexInv, Load
    PROVE  IndexInv'
<1> USE DEF IndexInv
<1>1. /\ UNCHANGED <<build, arms, disk>> /\ Idle
      /\ docs' = disk.docs /\ deleted' = disk.deleted /\ chunks' = disk.chunks
      /\ embedder' = FALSE /\ metaStale' = FALSE /\ finalized' = TRUE
      /\ behind' = disk.behind
  BY DEF Load
<1>2. /\ linked' = ChunkIds' /\ weighed' = Termed' /\ Termed' \subseteq ChunkIds'
  BY <1>1 DEF Load, ChunkIds, Termed
<1>3. /\ graph' \in [there : BOOLEAN, nodes : SUBSET Embedded', tombs : SUBSET Dead',
                     sealed : BOOLEAN]
      /\ graph'.there = disk.indexed /\ graph'.nodes = disk.nodes
  BY <1>1 DEF Load, NoGraph, TypeOK, Embedded
<1>4. matrix' \in [rows : SUBSET Embedded', current : {FALSE}]
  BY DEF Load, NoMatrix
<1>5. build = NoBuild /\ arms = {}
  BY <1>1 DEF OneOwner, Idle
<1>6. TypeOK'
  <2>1. Table(docs, deleted, chunks)' /\ Table(disk.docs, disk.deleted, disk.chunks)'
    BY <1>1 DEF TypeOK, Table
  <2>2. build' \in [on : BOOLEAN, pending : SUBSET ChunkIds', todo : SUBSET Nat,
                    failed : BOOLEAN, short : SUBSET ChunkIds']
    BY <1>1, <1>5 DEF NoBuild
  <2> QED BY <1>1, <1>2, <1>3, <1>4, <2>1, <2>2 DEF TypeOK
<1>7. CachesCurrent' /\ MatrixLive'
  BY <1>1, <1>2, <1>3, <1>4 DEF CachesCurrent, MatrixLive, DiskCurrent, Uniform
<1> QED
  BY <1>1, <1>3, <1>5, <1>6, <1>7 DEF PastThreshold, OneOwner, Repaired, DiskCurrent,
     NoBuild

-----------------------------------------------------------------------------
(* The steps of a build.                                                   *)

LEMMA StartKeeps ==
    ASSUME IndexInv, StartBuild
    PROVE  IndexInv'
<1> USE DEF IndexInv
<1>1. /\ UNCHANGED <<docs, deleted, chunks, graph, matrix, embedder, arms, disk, behind>>
      /\ EnsureLinked /\ EnsureFinalized /\ Idle
      /\ build'.on = TRUE /\ build'.pending = IF embedder THEN Pending ELSE {}
  BY DEF StartBuild, store, NoBuild
<1>2. /\ UNCHANGED <<ChunkIds, Embedded, Uniform, Termed, Dead, Packed>>
      /\ Pending \cap Embedded = {} /\ Pending \subseteq ChunkIds /\ Termed \subseteq ChunkIds
  BY <1>1 DEF ChunkIds, Embedded, Uniform, Termed, Dead, Packed, Pending
<1>3. linked' = ChunkIds /\ metaStale' = FALSE
  BY <1>1, <1>2 DEF EnsureLinked, CachesCurrent, TypeOK
<1>4. weighed' = Termed /\ finalized' = TRUE
  BY <1>1, <1>2 DEF EnsureFinalized, CachesCurrent, TypeOK
<1>5. build' \in [on : BOOLEAN, pending : SUBSET ChunkIds, todo : SUBSET Nat,
                  failed : BOOLEAN, short : SUBSET ChunkIds]
  <2>1. 0..(Batches(Cardinality(Pending)) - 1) \subseteq Nat
    OBVIOUS
  <2> QED BY <1>2, <2>1 DEF StartBuild, NoBuild
<1>6. TypeOK'
  <2>1. Table(docs, deleted, chunks)'
    BY <1>1 DEF TypeOK, Table
  <2> QED BY <1>1, <1>2, <1>3, <1>4, <1>5, <2>1 DEF TypeOK
<1>7. CachesCurrent' /\ MatrixLive'
  <2>1. build.pending = {}
    BY <1>1 DEF OneOwner, Idle, NoBuild
  <2> QED BY <1>1, <1>2, <1>3, <1>4, <2>1 DEF CachesCurrent, MatrixLive
<1> QED
  BY <1>1, <1>6, <1>7 DEF PastThreshold, OneOwner, Repaired, DiskCurrent, Idle

LEMMA FailKeeps ==
    ASSUME IndexInv, NEW b \in build.todo, EmbedFails(b)
    PROVE  IndexInv'
<1> USE DEF IndexInv
<1>1. /\ UNCHANGED <<docs, deleted, chunks, linked, metaStale, finalized, weighed, graph,
                     matrix, embedder, arms, disk, behind>>
      /\ build.on
  BY DEF EmbedFails, Ready, store, links, weights
<1>2. UNCHANGED <<ChunkIds, Embedded, Uniform, Termed, Dead, Packed>>
  BY <1>1 DEF ChunkIds, Embedded, Uniform, Termed, Dead, Packed
<1>3. /\ build' \in [on : BOOLEAN, pending : SUBSET ChunkIds, todo : SUBSET Nat,
                     failed : BOOLEAN, short : SUBSET ChunkIds]
      /\ build'.on = build.on /\ build'.pending = build.pending
  BY DEF TypeOK, EmbedFails
<1>4. TypeOK'
  <2>1. Table(docs, deleted, chunks)'
    BY <1>1 DEF TypeOK, Table
  <2> QED BY <1>1, <1>2, <1>3, <2>1 DEF TypeOK
<1>5. CachesCurrent' /\ MatrixLive'
  BY <1>1, <1>2, <1>3 DEF CachesCurrent, MatrixLive
<1> QED
  BY <1>1, <1>3, <1>4, <1>5 DEF PastThreshold, OneOwner, Repaired, DiskCurrent

LEMMA FinishKeeps ==
    ASSUME IndexInv, BuildFails \/ BuildOk
    PROVE  IndexInv'
<1> USE DEF IndexInv
<1>1. /\ UNCHANGED <<docs, deleted, chunks, linked, metaStale, finalized, weighed,
                     embedder, arms, disk>>
      /\ build.on /\ build' = NoBuild
  BY DEF BuildFails, BuildOk, Joined, store, links, weights
<1>2. /\ UNCHANGED <<ChunkIds, Embedded, Uniform, Termed, Dead, Packed>>
      /\ Uniform \subseteq Embedded
  BY <1>1 DEF ChunkIds, Embedded, Uniform, UniformIn, Termed, Dead, Packed
<1>3. /\ build' \in [on : {FALSE}, pending : {{}}, todo : SUBSET Nat,
                     failed : BOOLEAN, short : SUBSET ChunkIds]
  BY <1>1 DEF NoBuild
<1>4. Table(docs, deleted, chunks)'
  BY <1>1 DEF TypeOK, Table
<1>5. arms = {}
  BY <1>1 DEF OneOwner
<1>6. CASE BuildFails
  <2>1. /\ UNCHANGED <<graph, matrix>>
        /\ behind' = (behind \/ build.pending \cap Embedded # {})
    BY <1>6 DEF BuildFails
  <2>2. TypeOK'
    BY <1>1, <1>2, <1>3, <1>4, <2>1 DEF TypeOK
  <2>3. CachesCurrent' /\ MatrixLive'
    BY <1>1, <1>2, <2>1 DEF CachesCurrent, MatrixLive
  <2> QED
    BY <1>1, <1>3, <1>5, <2>1, <2>2, <2>3 DEF PastThreshold, OneOwner, Repaired, DiskCurrent
<1>7. CASE BuildOk
  <2>1. /\ behind' = (behind /\ ~embedder)
        /\ matrix' = [matrix EXCEPT !.current = FALSE]
        /\ graph' = IF embedder /\ Len(chunks) >= Threshold
                    THEN Sealed([NoGraph EXCEPT !.there = TRUE, !.nodes = Uniform])
                    ELSE graph
    BY <1>7 DEF BuildOk, Outdate
  <2>2. matrix' \in [rows : SUBSET Embedded, current : {FALSE}]
    BY <2>1 DEF TypeOK
  <2>3. graph' \in [there : BOOLEAN, nodes : SUBSET Embedded, tombs : SUBSET Dead,
                    sealed : BOOLEAN]
    BY <1>2, <2>1 DEF Sealed, NoGraph, TypeOK
  <2>4. TypeOK'
    BY <1>1, <1>2, <1>3, <1>4, <2>1, <2>2, <2>3 DEF TypeOK
  <2>5. embedder /\ Len(chunks) >= Threshold => graph'.nodes = Uniform
    BY <2>1 DEF Sealed, NoGraph
  <2>6. ~behind' /\ graph'.there => graph'.nodes = Uniform
    <3>1. CASE embedder
      BY <2>1, <2>5, <3>1 DEF PastThreshold
    <3>2. CASE ~embedder
      BY <2>1, <3>2 DEF CachesCurrent, OneOwner
    <3> QED BY <3>1, <3>2
  <2>7. CachesCurrent' /\ MatrixLive'
    BY <1>1, <1>2, <2>2, <2>6 DEF CachesCurrent, MatrixLive
  <2>8. PastThreshold'
    BY <1>1, <2>1 DEF PastThreshold
  <2> QED
    BY <1>1, <1>3, <1>5, <2>4, <2>7, <2>8 DEF OneOwner, Repaired, DiskCurrent
<1> QED BY <1>6, <1>7

LEMMA EmbedKeeps ==
    ASSUME IndexInv, NEW b \in build.todo, NEW n \in 0..Batch, NEW d \in Dims,
           EmbedBatch(b, n, d)
    PROVE  IndexInv'
<1> USE DEF IndexInv
<1> DEFINE given == {c \in Slice(b) : Rank(c) < b * Batch + n}
<1>1. /\ UNCHANGED <<docs, deleted, linked, metaStale, finalized, weighed, graph,
                     matrix, embedder, arms, disk, behind>>
      /\ build.on
      /\ chunks' = [c \in ChunkIds |->
                       IF c \in given THEN [chunks[c] EXCEPT !.dim = d] ELSE chunks[c]]
      /\ build' = [build EXCEPT !.todo = @ \ {b}, !.short = @ \union (Slice(b) \ given)]
  BY DEF EmbedBatch, Ready, links, weights
<1>2. /\ given \subseteq build.pending /\ Slice(b) \subseteq build.pending
      /\ build.pending \subseteq ChunkIds /\ d # 0 /\ d \in Dims
  BY CorpusAssumption DEF Slice, TypeOK
<1> HIDE DEF given
<1>3. chunks \in Seq(Chunk) /\ Len(chunks) \in Nat /\ \A c \in ChunkIds : chunks[c] \in Chunk
  BY LenProperties DEF TypeOK, Table, ChunkIds
<1>4. chunks' \in [ChunkIds -> Chunk]
  BY <1>1, <1>2, <1>3 DEF Chunk
<1>5. chunks' \in Seq(Chunk) /\ Len(chunks') = Len(chunks) /\ ChunkIds' = ChunkIds
  BY <1>3, <1>4, FunctionIsSeq DEF ChunkIds
<1>6. \A c \in ChunkIds : /\ chunks'[c].doc = chunks[c].doc
                          /\ chunks'[c].terms = chunks[c].terms
                          /\ chunks'[c].dim = IF c \in given THEN d ELSE chunks[c].dim
  BY <1>1, <1>3 DEF Chunk
<1>7. Termed' = Termed /\ Dead' = Dead
  <2>1. Termed' = Termed
    BY <1>5, <1>6 DEF Termed
  <2>2. Dead' = Dead
    <3>1. deleted' = deleted
      BY <1>1
    <3> QED BY <1>5, <1>6, <3>1 DEF Dead
  <2> QED BY <2>1, <2>2
<1>8. Embedded' = Embedded \union given
  BY <1>2, <1>5, <1>6 DEF Embedded, EmbeddedIn, ChunkIds
<1>9. /\ build' \in [on : BOOLEAN, pending : SUBSET ChunkIds, todo : SUBSET Nat,
                     failed : BOOLEAN, short : SUBSET ChunkIds]
      /\ build'.on = TRUE /\ build'.pending = build.pending
  BY <1>1, <1>2 DEF TypeOK
<1>10. TypeOK'
  <2>1. Table(docs, deleted, chunks)'
    <3>1. \A c \in ChunkIds : chunks[c].doc \in 1..docs
      BY DEF TypeOK, Table, ChunkIds
    <3> QED BY <1>1, <1>5, <1>6, <3>1 DEF TypeOK, Table, ChunkIds
  <2>2. /\ matrix \in [rows : SUBSET Embedded', current : BOOLEAN]
        /\ graph \in [there : BOOLEAN, nodes : SUBSET Embedded', tombs : SUBSET Dead',
                      sealed : BOOLEAN]
    BY <1>7, <1>8 DEF TypeOK
  <2> QED BY <1>1, <1>5, <1>9, <2>1, <2>2 DEF TypeOK
<1>11. CachesCurrent'
  <2>1. CASE build.pending \cap Embedded' = {}
    <3>1. given = {}
      BY <1>2, <1>8, <2>1
    <3>2. chunks' = chunks
      BY <1>1, <1>3, <3>1 DEF ChunkIds
    <3>3. UNCHANGED <<Embedded, Uniform, Packed>>
      BY <1>7, <3>2 DEF Embedded, Uniform, Packed
    <3> QED BY <1>1, <1>5, <1>7, <1>9, <3>3 DEF CachesCurrent
  <2>2. CASE build.pending \cap Embedded' # {}
    BY <1>1, <1>5, <1>7, <1>9, <2>2 DEF CachesCurrent
  <2> QED BY <2>1, <2>2
<1>12. MatrixLive'
  BY <1>1, <1>7 DEF MatrixLive
<1> QED
  BY <1>1, <1>5, <1>9, <1>10, <1>11, <1>12 DEF PastThreshold, OneOwner, Repaired, DiskCurrent

LEMMA StepKeeps == IndexInv /\ [Next]_vars => IndexInv'
<1> SUFFICES ASSUME IndexInv, [Next]_vars PROVE IndexInv'
  OBVIOUS
<1>1. CASE \E n \in Sizes, blank \in BOOLEAN : Add(n, blank)
  BY <1>1, AddKeeps
<1>2. CASE \E d \in 1..docs : Remove(d)
  BY <1>2, RemoveKeeps
<1>3. CASE Relink \/ LexicalSearch \/ DenseSearch \/ Explain
  BY <1>3, OwnerReads
<1>4. CASE SetEmbedder \/ Move
  BY <1>4, AttachKeeps, MoveKeeps
<1>5. CASE StartBuild \/ BuildFails \/ BuildOk
  BY <1>5, StartKeeps, FinishKeeps
<1>6. CASE \E b \in build.todo :
              EmbedFails(b) \/ \E n \in 0..Batch, d \in Dims : EmbedBatch(b, n, d)
  BY <1>6, FailKeeps, EmbedKeeps
<1>7. CASE StartHybrid \/ LexicalArm \/ DenseArm
  BY <1>7, HybridStarts, ArmsKeep
<1>8. CASE Save \/ Load
  BY <1>8, SaveKeeps, LoadKeeps
<1>9. CASE UNCHANGED vars
  <2>1. /\ UNCHANGED <<docs, deleted, chunks, embedder, linked, metaStale, finalized, weighed,
                       graph, matrix, build, arms, disk, behind>>
    BY <1>9 DEF vars, store, links, weights
  <2>2. Reads
    BY <2>1 DEF Reads, store, links, weights
  <2>3. arms' \subseteq {"lexical", "dense"}
    BY <2>1 DEF IndexInv, TypeOK
  <2> QED
    BY <2>1, <2>2, <2>3, ReadKeeps DEF IndexInv, OneOwner, Repaired
<1> QED
  BY <1>1, <1>2, <1>3, <1>4, <1>5, <1>6, <1>7, <1>8, <1>9 DEF Next

LEMMA IndexInvariant == Spec => []IndexInv
BY Initially, StepKeeps, PTL DEF Spec

-----------------------------------------------------------------------------
(* What a build without failures asks for.                                 *)

\* A batch for every rank: the batches of n chunks cover 0..n-1.
LEMMA Quotient ==
    ASSUME NEW r \in Nat, NEW B \in Nat \ {0}
    PROVE  /\ r \div B \in Nat
           /\ (r \div B) * B <= r /\ r <= (r \div B) * B + B - 1
OBVIOUS

LEMMA BatchesCover ==
    ASSUME NEW n \in Nat, NEW r \in 0..(n - 1)
    PROVE  \E b \in 0..(Batches(n) - 1) : r \in (b * Batch)..(b * Batch + Batch - 1)
<1> DEFINE q == r \div Batch
           m == (n + Batch - 1) \div Batch
<1>0. Batch \in Nat \ {0}
  BY CorpusAssumption
<1>1. q \in Nat /\ q * Batch <= r /\ r <= q * Batch + Batch - 1
  BY <1>0, Quotient
<1>2. m \in Nat /\ m * Batch <= n + Batch - 1 /\ n + Batch - 1 <= m * Batch + Batch - 1
  <2>1. n + Batch - 1 \in Nat
    BY <1>0
  <2> QED BY <1>0, <2>1, Quotient
<1>3. Batches(n) = m
  BY DEF Batches
<1> HIDE DEF q, m
<1>4. q < m
  <2> SUFFICES ASSUME q >= m PROVE FALSE
    BY <1>1, <1>2
  <2>1. q * Batch >= m * Batch
    BY <1>0, <1>1, <1>2
  <2> QED BY <1>0, <1>1, <1>2, <2>1
<1>5. q \in 0..(m - 1)
  BY <1>1, <1>2, <1>4
<1>6. r \in (q * Batch)..(q * Batch + Batch - 1)
  BY <1>0, <1>1
<1> QED BY <1>3, <1>5, <1>6

\* While no batch has failed, whatever lacks an embedding was left out of an answer or
\* is in a batch still to do.
Covered ==
    build.on /\ embedder /\ ~build.failed =>
        /\ Pending \subseteq build.pending
        /\ \A c \in build.pending \ Embedded :
              c \in build.short \/ \E b \in build.todo : c \in Slice(b)

LEMMA StartCovers ==
    ASSUME IndexInv, StartBuild
    PROVE  Covered'
<1> SUFFICES ASSUME embedder
             PROVE  /\ Pending' \subseteq build'.pending
                    /\ \A c \in build'.pending : \E b \in build'.todo : (c \in Slice(b))'
  BY DEF Covered, StartBuild
<1>1. /\ build'.pending = Pending /\ Pending' = Pending
      /\ build'.todo = 0..(Batches(Cardinality(Pending)) - 1)
  BY SameStore DEF StartBuild, NoBuild
<1> DEFINE n == Cardinality(Pending)
           rank(c) == Cardinality({e \in Pending : e < c})
<1>2. IsFiniteSet(Pending) /\ n \in Nat /\ Pending \subseteq Int
  <2>1. Len(chunks) \in Nat
    BY LenProperties DEF IndexInv, TypeOK, Table
  <2>2. IsFiniteSet(ChunkIds) /\ Pending \subseteq ChunkIds /\ ChunkIds \subseteq Int
    BY <2>1, FS_Interval DEF ChunkIds, Pending
  <2> QED BY <2>2, FS_Subset, FS_CardinalityType
<1>3. ASSUME NEW c \in Pending
      PROVE  \E b \in 0..(Batches(n) - 1) :
                rank(c) \in (b * Batch)..(b * Batch + Batch - 1)
  <2> DEFINE before == {e \in Pending : e < c}
  <2>1. before \subseteq Pending /\ before # Pending
    BY <1>2
  <2>2. Cardinality(before) \in Nat /\ Cardinality(before) < n
    BY <1>2, <2>1, FS_Subset, FS_CardinalityType
  <2>3. rank(c) \in 0..(n - 1)
    BY <1>2, <2>2
  <2> QED BY <1>2, <2>3, BatchesCover
<1>4. \A c \in Pending, b \in 0..(Batches(n) - 1) :
         (c \in Slice(b))' <=> rank(c) \in (b * Batch)..(b * Batch + Batch - 1)
  BY <1>1 DEF Slice, Rank
<1> QED BY <1>1, <1>3, <1>4

LEMMA EmbedCovers ==
    ASSUME IndexInv, Covered, NEW b \in build.todo, NEW n \in 0..Batch, NEW d \in Dims,
           EmbedBatch(b, n, d)
    PROVE  Covered'
<1> DEFINE given == {c \in Slice(b) : Rank(c) < b * Batch + n}
<1>1. /\ UNCHANGED embedder
      /\ chunks' = [c \in ChunkIds |->
                       IF c \in given THEN [chunks[c] EXCEPT !.dim = d] ELSE chunks[c]]
      /\ build' = [build EXCEPT !.todo = @ \ {b}, !.short = @ \union (Slice(b) \ given)]
  BY DEF EmbedBatch
<1>2. /\ build'.on = build.on /\ build'.failed = build.failed
      /\ build'.pending = build.pending /\ build'.todo = build.todo \ {b}
      /\ build'.short = build.short \union (Slice(b) \ given)
      /\ build.pending \subseteq ChunkIds
  BY <1>1 DEF IndexInv, TypeOK
<1>3. \A a : (Slice(a))' = Slice(a)
  BY <1>2 DEF Slice, Rank
<1>4. given \subseteq ChunkIds /\ d # 0
  BY <1>2, CorpusAssumption DEF Slice
<1> HIDE DEF given
<1>5. chunks \in Seq(Chunk) /\ Len(chunks) \in Nat /\ \A c \in ChunkIds : chunks[c] \in Chunk
  BY LenProperties DEF IndexInv, TypeOK, Table, ChunkIds
<1>6. chunks' \in [ChunkIds -> Chunk]
  BY <1>1, <1>4, <1>5 DEF Chunk
<1>7. ChunkIds' = ChunkIds
  BY <1>5, <1>6, FunctionIsSeq DEF ChunkIds
<1>8. Embedded' = Embedded \union given
  <2>1. \A c \in ChunkIds : chunks'[c].dim = IF c \in given THEN d ELSE chunks[c].dim
    BY <1>1, <1>5 DEF Chunk
  <2> QED BY <1>4, <1>7, <2>1 DEF Embedded, EmbeddedIn, ChunkIds
<1> QED BY <1>1, <1>2, <1>3, <1>7, <1>8 DEF Covered, Pending

LEMMA StepCovers == IndexInv /\ Covered /\ [Next]_vars => Covered'
<1> SUFFICES ASSUME IndexInv, Covered, [Next]_vars PROVE Covered'
  OBVIOUS
<1>1. CASE StartBuild
  BY <1>1, StartCovers
<1>2. CASE \E b \in build.todo, n \in 0..Batch, d \in Dims : EmbedBatch(b, n, d)
  BY <1>2, EmbedCovers
<1>3. CASE \E b \in build.todo : EmbedFails(b)
  BY <1>3 DEF EmbedFails, Covered, IndexInv, TypeOK
<1>4. CASE BuildFails \/ BuildOk
  <2>1. ~build'.on
    BY <1>4 DEF BuildFails, BuildOk, NoBuild
  <2> QED BY <2>1 DEF Covered
<1>5. CASE \/ \E n \in Sizes, blank \in BOOLEAN : Add(n, blank)
           \/ \E r \in 1..docs : Remove(r)
           \/ Relink \/ SetEmbedder \/ Move \/ LexicalSearch \/ DenseSearch \/ Explain
           \/ StartHybrid \/ LexicalArm \/ DenseArm \/ Save \/ Load
  <2>1. build' = build /\ ~build.on
    BY <1>5 DEF IndexInv, OneOwner, Idle, Add, Remove, Relink, SetEmbedder, Move,
       LexicalSearch, DenseSearch, Explain, StartHybrid, LexicalArm, DenseArm, Save, Load
  <2> QED BY <2>1 DEF Covered
<1>6. CASE UNCHANGED vars
  BY <1>6 DEF vars, store, Covered, Pending, Embedded, ChunkIds, Slice, Rank
<1> QED BY <1>1, <1>2, <1>3, <1>4, <1>5, <1>6 DEF Next

-----------------------------------------------------------------------------
(* Theorems.                                                               *)

\* The variables are of their types, and what refers to chunks and documents, in
\* memory and in the snapshot, refers to some that are there.
THEOREM Types == Spec => []TypeOK
<1>1. IndexInv => TypeOK
  BY DEF IndexInv
<1> QED BY <1>1, IndexInvariant, PTL

\* What the flags meta_stale_, finalized_, packed_valid_ with packed_epoch_ and the
\* presence of hnsw_ call current is current.
THEOREM Currency == Spec => []CachesCurrent
<1>1. IndexInv => CachesCurrent
  BY DEF IndexInv
<1> QED BY <1>1, IndexInvariant, PTL

LEMMA RowsAreLive ==
    ASSUME IndexInv
    PROVE  Repacked.rows \cap Dead = {}
BY DEF IndexInv, MatrixLive, Repacked, Packed

\* dense_search and dense_search_batch return no chunk of a removed document.
THEOREM Hidden == Spec => []DeletedHidden
<1>1. IndexInv => DeletedHidden
  <2> SUFFICES ASSUME IndexInv PROVE DeletedHidden
    OBVIOUS
  <2>1. DenseFound \cap Dead = {}
    BY RowsAreLive DEF DenseFound, Allowed
  <2> QED BY <2>1, RowsAreLive DEF DeletedHidden, BatchFound
<1> QED BY <1>1, IndexInvariant, PTL

\* dense_search finds every live chunk with an embedding of the dimension of the
\* first, unless build() failed half-way.
THEOREM Found == Spec => []DenseFull
<1>1. IndexInv => DenseFull
  <2> SUFFICES ASSUME IndexInv, ~behind, ~build.on
               PROVE  Uniform \ Dead \subseteq DenseFound
    BY DEF DenseFull
  <2>1. /\ build.pending = {}
        /\ matrix.current => matrix = Packed
        /\ graph.there => graph.nodes = Uniform
    BY DEF IndexInv, OneOwner, NoBuild, CachesCurrent
  <2>2. graph.tombs \subseteq Dead
    BY DEF IndexInv, TypeOK
  <2>3. Uniform \subseteq Embedded /\ Embedded \subseteq ChunkIds
    BY DEF Uniform, UniformIn, Embedded, EmbeddedIn, ChunkIds
  <2>4. Repacked.rows = Uniform \ Dead
    BY <2>1 DEF Repacked, Packed
  <2> QED BY <2>1, <2>2, <2>3, <2>4 DEF DenseFound, Allowed
<1> QED BY <1>1, IndexInvariant, PTL

\* The two retrievers of a hybrid search, run side by side after prepare_read, write
\* nothing that they share.
THEOREM SideBySide == Spec => ReadersReadOnly
<1>1. IndexInv /\ [Next]_vars =>
        [arms # {} => UNCHANGED <<store, links, weights, graph, matrix>>]_vars
  <2> SUFFICES ASSUME IndexInv, Next, arms # {}
               PROVE  UNCHANGED <<store, links, weights, graph, matrix>>
    OBVIOUS
  <2>1. ~Idle /\ ~build.on
    BY DEF Idle, IndexInv, OneOwner
  <2>2. LexicalArm \/ DenseArm
    BY <2>1 DEF Next, Add, Remove, Relink, SetEmbedder, Move, StartBuild, EmbedFails,
       EmbedBatch, Ready, BuildFails, BuildOk, Joined, LexicalSearch, DenseSearch, Explain,
       StartHybrid, Save, Load
  <2> QED BY <2>2, ArmsOnlyRead
<1> QED BY <1>1, IndexInvariant, PTL DEF Spec, ReadersReadOnly

\* build() that reports success asked for the embedding of every chunk without one, for
\* any batch size and number of workers.
THEOREM Reached == Spec => []BuildReachesAll
<1>1. Init => Covered
  BY DEF Init, NoBuild, Covered
<1>2. Covered => BuildReachesAll
  BY DEF Covered, BuildReachesAll, Joined, Pending
<1> QED BY <1>1, <1>2, StepCovers, IndexInvariant, PTL DEF Spec

\* lexical_search fills its k places, or finds all that match.
THEOREM Filled == Spec => []LexicalFull
<1>1. IndexInv => LexicalFull
  <2> DEFINE live == Cardinality(Termed \ Dead)
             lost == Cardinality(Termed \cap Dead)
  <2> SUFFICES ASSUME IndexInv, lost <= K + 2 * Cardinality(deleted), NEW S \in Tops
               PROVE  Cardinality(S \ Dead) >= IF live < K THEN live ELSE K
    BY DEF LexicalFull
  <2>1. Matching = Termed
    BY DEF IndexInv, CachesCurrent, Matching
  <2>2. IsFiniteSet(Termed) /\ IsFiniteSet(deleted)
    <3>1. Len(chunks) \in Nat /\ docs \in Nat /\ deleted \subseteq 1..docs
      BY LenProperties, CorpusAssumption DEF IndexInv, TypeOK, Table
    <3>2. IsFiniteSet(1..Len(chunks)) /\ IsFiniteSet(1..docs)
      BY <3>1, FS_Interval
    <3>3. Termed \subseteq 1..Len(chunks)
      BY DEF Termed, ChunkIds
    <3> QED BY <3>1, <3>2, <3>3, FS_Subset
  <2>3. /\ S \subseteq Termed
        /\ Cardinality(S) = IF Cardinality(Termed) < Fetch THEN Cardinality(Termed) ELSE Fetch
    BY <2>1 DEF Tops
  <2>4. K \in Nat /\ Cardinality(deleted) \in Nat /\ live \in Nat /\ lost \in Nat
    <3>1. IsFiniteSet(Termed \ Dead) /\ IsFiniteSet(Termed \cap Dead)
      BY <2>2, FS_Subset
    <3> QED BY <2>2, <3>1, FS_CardinalityType, CorpusAssumption
  <2>5. CASE Cardinality(Termed) < Fetch
    <3>1. S = Termed
      BY <2>2, <2>3, <2>5, FS_Subset
    <3> QED BY <2>4, <3>1
  <2>6. CASE ~(Cardinality(Termed) < Fetch) /\ deleted = {}
    <3>1. S \ Dead = S
      BY <2>6 DEF Dead
    <3>2. Cardinality(S \ Dead) = K
      BY <2>3, <2>6, <3>1 DEF Fetch
    <3> HIDE DEF live
    <3> QED BY <2>4, <3>2
  <2>7. CASE ~(Cardinality(Termed) < Fetch) /\ deleted # {}
    <3>1. Cardinality(S) = K + Cardinality(deleted) * 2 + K
      BY <2>3, <2>7 DEF Fetch
    <3>2. /\ IsFiniteSet(S) /\ IsFiniteSet(S \cap Dead)
          /\ Cardinality(S \cap Dead) <= lost
      <4>1. S \cap Dead \subseteq Termed \cap Dead
        BY <2>3
      <4> QED BY <2>2, <2>3, <4>1, FS_Subset
    <3>3. Cardinality(S \ Dead) = Cardinality(S) - Cardinality(S \cap Dead)
      BY <3>2, FS_Difference
    <3>4. Cardinality(S \cap Dead) \in Nat
      BY <3>2, FS_CardinalityType
    <3> QED BY <2>4, <3>1, <3>2, <3>3, <3>4
  <2> QED BY <2>5, <2>6, <2>7
<1> QED BY <1>1, IndexInvariant, PTL

-----------------------------------------------------------------------------
(* The cache of scores.                                                    *)

NoneTwice(l) == \A i, j \in DOMAIN l : i # j => l[i] # l[j]
IsList(l) == l \in Seq(Keys) /\ NoneTwice(l)
Front(l, n) == [i \in 1 .. (IF Len(l) < n THEN Len(l) ELSE n) |-> l[i]]

-----------------------------------------------------------------------------
LEMMA ListIsFunction ==
    ASSUME NEW l, IsList(l)
    PROVE  /\ Len(l) \in Nat /\ l \in [1 .. Len(l) -> Keys] /\ DOMAIN l = 1 .. Len(l)
           /\ \A i, j \in 1 .. Len(l) : i # j => l[i] # l[j]
BY LenProperties DEF IsList, NoneTwice

\* A list of distinct keys has as many members as it is long.
LEMMA ListCardinality ==
    ASSUME NEW l, IsList(l)
    PROVE  IsFiniteSet(Ran(l)) /\ Cardinality(Ran(l)) = Len(l)
<1>1. /\ Len(l) \in Nat /\ l \in [1 .. Len(l) -> Keys] /\ DOMAIN l = 1 .. Len(l)
      /\ \A i, j \in 1 .. Len(l) : i # j => l[i] # l[j]
  BY ListIsFunction
<1>2. l \in Surjection(1 .. Len(l), Ran(l)) /\ l \in Injection(1 .. Len(l), Ran(l))
  <2>1. l \in [1 .. Len(l) -> Ran(l)]
    BY <1>1 DEF Ran
  <2>2. \A t \in Ran(l) : \E s \in 1 .. Len(l) : l[s] = t
    BY <1>1 DEF Ran
  <2> QED
    BY <1>1, <2>1, <2>2 DEF Surjection, Injection, IsInjective
<1>3. IsFiniteSet(1 .. Len(l)) /\ Cardinality(1 .. Len(l)) = Len(l)
  <2>1. 1 \in Int /\ Len(l) \in Int
    BY <1>1
  <2>2. /\ IsFiniteSet(1 .. Len(l))
        /\ Cardinality(1 .. Len(l)) = IF 1 > Len(l) THEN 0 ELSE Len(l) - 1 + 1
    BY <2>1, FS_Interval
  <2> QED
    BY <2>2, <1>1
<1>4. ExistsBijection(1 .. Len(l), Ran(l))
  BY <1>2 DEF ExistsBijection, Bijection
<1> QED
  BY <1>3, <1>4, FS_Bijection

-----------------------------------------------------------------------------
\* A key that is not in a list, put first.
LEMMA PushIsList ==
    ASSUME NEW l, IsList(l), NEW k \in Keys, k \notin Ran(l)
    PROVE  /\ IsList(PushFront(l, k)) /\ Len(PushFront(l, k)) = Len(l) + 1
           /\ PushFront(l, k)[1] = k
           /\ \A i \in 2 .. Len(l) + 1 : PushFront(l, k)[i] = l[i - 1]
           /\ Ran(PushFront(l, k)) = Ran(l) \cup {k}
<1> DEFINE p == PushFront(l, k)
<1>1. /\ Len(l) \in Nat /\ l \in [1 .. Len(l) -> Keys] /\ DOMAIN l = 1 .. Len(l)
      /\ \A i, j \in 1 .. Len(l) : i # j => l[i] # l[j]
  BY ListIsFunction
<1>2. p \in [1 .. Len(l) + 1 -> Keys]
  BY <1>1 DEF PushFront
<1>3. p \in Seq(Keys) /\ Len(p) = Len(l) + 1 /\ DOMAIN p = 1 .. Len(l) + 1
  <2>1. Len(l) + 1 \in Nat
    BY <1>1
  <2> QED
    BY <1>2, <2>1, FunctionIsList
<1>4. p[1] = k /\ \A i \in 2 .. Len(l) + 1 : p[i] = l[i - 1] /\ i - 1 \in 1 .. Len(l)
  BY <1>1 DEF PushFront
<1>5. NoneTwice(p)
  <2> SUFFICES ASSUME NEW i \in 1 .. Len(l) + 1, NEW j \in 1 .. Len(l) + 1, i # j
               PROVE  p[i] # p[j]
    BY <1>3 DEF NoneTwice
  <2>1. CASE i = 1
    <3>1. j \in 2 .. Len(l) + 1
      BY <2>1
    <3>2. p[j] \in Ran(l)
      BY <1>1, <1>4, <3>1 DEF Ran
    <3> QED
      BY <3>2, <2>1, <1>4
  <2>2. CASE j = 1
    <3>1. i \in 2 .. Len(l) + 1
      BY <2>2
    <3>2. p[i] \in Ran(l)
      BY <1>1, <1>4, <3>1 DEF Ran
    <3> QED
      BY <3>2, <2>2, <1>4
  <2>3. CASE i # 1 /\ j # 1
    <3>1. i \in 2 .. Len(l) + 1 /\ j \in 2 .. Len(l) + 1 /\ i - 1 # j - 1
      BY <2>3
    <3> QED
      BY <3>1, <1>1, <1>4
  <2> QED
    BY <2>1, <2>2, <2>3
<1>6. Ran(p) = Ran(l) \cup {k}
  <2>1. Ran(p) \subseteq Ran(l) \cup {k}
    <3> SUFFICES ASSUME NEW i \in 1 .. Len(l) + 1 PROVE p[i] \in Ran(l) \cup {k}
      BY <1>3 DEF Ran
    <3>1. i = 1 \/ i \in 2 .. Len(l) + 1
      OBVIOUS
    <3> QED
      BY <3>1, <1>1, <1>4 DEF Ran
  <2>2. Ran(l) \subseteq Ran(p)
    <3> SUFFICES ASSUME NEW i \in 1 .. Len(l) PROVE l[i] \in Ran(p)
      BY <1>1 DEF Ran
    <3>1. i + 1 \in 2 .. Len(l) + 1 /\ i + 1 \in DOMAIN p /\ (i + 1) - 1 = i
      BY <1>1, <1>3
    <3>2. p[i + 1] = l[i]
      BY <3>1, <1>4
    <3> QED
      BY <3>1, <3>2 DEF Ran
  <2>3. k \in Ran(p)
    <3>1. 1 \in DOMAIN p
      BY <1>1, <1>3
    <3> QED
      BY <3>1, <1>4 DEF Ran
  <2> QED
    BY <2>1, <2>2, <2>3
<1> QED
  BY <1>3, <1>4, <1>5, <1>6 DEF IsList

\* A key that is in a list, moved to its front.
LEMMA MoveIsList ==
    ASSUME NEW l, IsList(l), NEW k \in Ran(l)
    PROVE  /\ IsList(MoveToFront(l, k)) /\ Len(MoveToFront(l, k)) = Len(l)
           /\ Ran(MoveToFront(l, k)) = Ran(l)
           /\ Place(l, k) \in 1 .. Len(l) /\ l[Place(l, k)] = k
           /\ \A i \in 1 .. Len(l) :
                MoveToFront(l, k)[i] = IF i = 1 THEN k
                                       ELSE IF i <= Place(l, k) THEN l[i - 1] ELSE l[i]
<1> DEFINE m == MoveToFront(l, k)
<1> DEFINE p == Place(l, k)
<1>1. /\ Len(l) \in Nat /\ l \in [1 .. Len(l) -> Keys] /\ DOMAIN l = 1 .. Len(l)
      /\ \A i, j \in 1 .. Len(l) : i # j => l[i] # l[j]
  BY ListIsFunction
<1>2. p \in 1 .. Len(l) /\ l[p] = k
  <2>1. \E i \in DOMAIN l : l[i] = k
    BY DEF Ran
  <2> QED
    BY <2>1, <1>1 DEF Place
<1> HIDE DEF p
<1>3. \A i \in 1 .. Len(l) : m[i] = IF i = 1 THEN k ELSE IF i <= p THEN l[i - 1] ELSE l[i]
  BY <1>1 DEF MoveToFront, p
<1>4. m \in [1 .. Len(l) -> Keys]
  <2>1. k \in Keys
    BY <1>1, <1>2
  <2>2. m = [i \in 1 .. Len(l) |-> IF i = 1 THEN k ELSE IF i <= p THEN l[i - 1] ELSE l[i]]
    BY <1>1 DEF MoveToFront, p
  <2>3. ASSUME NEW i \in 1 .. Len(l)
        PROVE  (IF i = 1 THEN k ELSE IF i <= p THEN l[i - 1] ELSE l[i]) \in Keys
    <3>1. CASE i # 1
      <4>1. i - 1 \in 1 .. Len(l)
        BY <1>1, <3>1
      <4> QED
        BY <4>1, <1>1, <3>1
    <3> QED
      BY <3>1, <2>1
  <2> QED
    BY <2>2, <2>3
<1>5. m \in Seq(Keys) /\ Len(m) = Len(l) /\ DOMAIN m = 1 .. Len(l)
  BY <1>1, <1>4, FunctionIsList
<1> HIDE DEF m
\* Where the member at a place of the list comes from.
<1> DEFINE from(i) == IF i = 1 THEN p ELSE IF i <= p THEN i - 1 ELSE i
<1>6. \A i \in 1 .. Len(l) : from(i) \in 1 .. Len(l) /\ m[i] = l[from(i)]
  BY <1>1, <1>2, <1>3
<1>7. \A i, j \in 1 .. Len(l) : i # j => from(i) # from(j)
  BY <1>1, <1>2
<1>8. NoneTwice(m)
  BY <1>1, <1>5, <1>6, <1>7 DEF NoneTwice
<1>9. Ran(m) = Ran(l)
  <2>1. Ran(m) \subseteq Ran(l)
    BY <1>1, <1>5, <1>6 DEF Ran
  <2>2. ASSUME NEW j \in 1 .. Len(l) PROVE l[j] \in Ran(m)
    <3>1. PICK i \in 1 .. Len(l) : from(i) = j
      <4>1. CASE j = p
        BY <4>1, <1>1, <1>2
      <4>2. CASE j < p
        <5>1. j + 1 \in 1 .. Len(l) /\ from(j + 1) = j
          BY <4>2, <1>1, <1>2
        <5> QED
          BY <5>1
      <4>3. CASE j > p
        BY <4>3, <1>1, <1>2
      <4> QED
        BY <4>1, <4>2, <4>3, <1>1, <1>2
    <3> QED
      BY <3>1, <1>5, <1>6 DEF Ran
  <2> QED
    BY <2>1, <2>2, <1>1 DEF Ran
<1> QED
  BY <1>2, <1>3, <1>5, <1>8, <1>9 DEF IsList, p, m

\* A list without its last member.
LEMMA PopIsList ==
    ASSUME NEW l, IsList(l), Len(l) # 0
    PROVE  /\ IsList(PopBack(l)) /\ Len(PopBack(l)) = Len(l) - 1
           /\ \A i \in 1 .. Len(l) - 1 : PopBack(l)[i] = l[i]
           /\ Ran(PopBack(l)) = Ran(l) \ {l[Len(l)]}
<1> DEFINE p == PopBack(l)
<1>1. /\ Len(l) \in Nat /\ l \in [1 .. Len(l) -> Keys] /\ DOMAIN l = 1 .. Len(l)
      /\ \A i, j \in 1 .. Len(l) : i # j => l[i] # l[j]
  BY ListIsFunction
<1>2. Len(l) \in Nat /\ Len(l) - 1 \in Nat /\ 1 .. Len(l) - 1 \subseteq 1 .. Len(l) /\ Len(l) \in 1 .. Len(l)
  BY <1>1
<1>3. p \in [1 .. Len(l) - 1 -> Keys] /\ \A i \in 1 .. Len(l) - 1 : p[i] = l[i]
  BY <1>1, <1>2 DEF PopBack
<1>4. p \in Seq(Keys) /\ Len(p) = Len(l) - 1 /\ DOMAIN p = 1 .. Len(l) - 1
  BY <1>2, <1>3, FunctionIsList
<1> HIDE DEF p
<1>5. NoneTwice(p)
  BY <1>1, <1>2, <1>3, <1>4 DEF NoneTwice
<1>6. Ran(p) = Ran(l) \ {l[Len(l)]}
  <2>1. ASSUME NEW i \in 1 .. Len(l) - 1 PROVE p[i] \in Ran(l) \ {l[Len(l)]}
    <3>1. i \in 1 .. Len(l) /\ i # Len(l)
      BY <1>2
    <3> QED
      BY <3>1, <1>1, <1>2, <1>3 DEF Ran
  <2>2. ASSUME NEW i \in 1 .. Len(l), l[i] # l[Len(l)] PROVE l[i] \in Ran(p)
    <3>1. i \in 1 .. Len(l) - 1
      BY <2>2, <1>1
    <3> QED
      BY <3>1, <1>3, <1>4 DEF Ran
  <2> QED
    BY <2>1, <2>2, <1>1, <1>4 DEF Ran
<1> QED
  BY <1>3, <1>4, <1>5, <1>6 DEF IsList, p

-----------------------------------------------------------------------------
LEMMA FrontIsList ==
    ASSUME NEW r, IsList(r), NEW n \in Nat
    PROVE  /\ IsList(Front(r, n))
           /\ Len(Front(r, n)) = IF Len(r) < n THEN Len(r) ELSE n
           /\ \A i \in 1 .. Len(Front(r, n)) : Front(r, n)[i] = r[i]
<1> DEFINE f == Front(r, n)
<1> DEFINE c == IF Len(r) < n THEN Len(r) ELSE n
<1>1. /\ Len(r) \in Nat /\ r \in [1 .. Len(r) -> Keys] /\ DOMAIN r = 1 .. Len(r)
      /\ \A i, j \in 1 .. Len(r) : i # j => r[i] # r[j]
  BY ListIsFunction
<1>2. c \in Nat /\ 1 .. c \subseteq 1 .. Len(r)
  BY <1>1
<1>3. f = [i \in 1 .. c |-> r[i]]
  BY DEF Front
<1> HIDE DEF f, c
<1>4. f \in [1 .. c -> Keys]
  BY <1>1, <1>2, <1>3
<1>5. f \in Seq(Keys) /\ Len(f) = c /\ DOMAIN f = 1 .. c
  BY <1>2, <1>4, FunctionIsList
<1>6. NoneTwice(f)
  BY <1>1, <1>2, <1>3, <1>5 DEF NoneTwice
<1> QED
  BY <1>3, <1>5, <1>6 DEF IsList, f, c

\* The front of a list is known by its length and its members.
LEMMA FrontIsUnique ==
    ASSUME NEW r, IsList(r), NEW n \in Nat, NEW x, IsList(x),
           Len(x) = IF Len(r) < n THEN Len(r) ELSE n,
           \A i \in 1 .. Len(x) : x[i] = r[i]
    PROVE  x = Front(r, n)
<1>1. IsList(Front(r, n)) /\ Len(Front(r, n)) = Len(x)
      /\ \A i \in 1 .. Len(Front(r, n)) : Front(r, n)[i] = r[i]
  BY FrontIsList
<1>2. x \in Seq(Keys) /\ Front(r, n) \in Seq(Keys)
  BY <1>1 DEF IsList
<1> QED
  BY <1>1, <1>2, SeqEqual

\* A use of a key leaves a list of all uses.
LEMMA TouchIsList ==
    ASSUME NEW r, IsList(r), NEW k \in Keys
    PROVE  IsList(Touch(r, k))
BY PushIsList, MoveIsList DEF Touch

\* A hit: the cache's list and the unbounded one move the same key.
LEMMA HitKeepsFront ==
    ASSUME NEW r, IsList(r), NEW n \in Nat, NEW k \in Ran(Front(r, n))
    PROVE  MoveToFront(Front(r, n), k) = Front(Touch(r, k), n)
<1> DEFINE o == Front(r, n)
<1>1. /\ IsList(o) /\ Len(o) = IF Len(r) < n THEN Len(r) ELSE n
      /\ \A i \in 1 .. Len(o) : o[i] = r[i]
  BY FrontIsList
<1> HIDE DEF o
<1>2. /\ Len(r) \in Nat /\ Len(o) \in Nat /\ Len(o) <= Len(r) /\ Len(o) <= n
      /\ DOMAIN r = 1 .. Len(r) /\ DOMAIN o = 1 .. Len(o)
      /\ \A i, j \in 1 .. Len(r) : i # j => r[i] # r[j]
  BY <1>1, ListIsFunction
<1>3. k \in Ran(o)
  BY DEF o
<1>4. k \in Ran(r)
  BY <1>1, <1>2, <1>3 DEF Ran
<1>5. /\ IsList(MoveToFront(o, k)) /\ Len(MoveToFront(o, k)) = Len(o)
      /\ Place(o, k) \in 1 .. Len(o) /\ o[Place(o, k)] = k
      /\ \A i \in 1 .. Len(o) :
           MoveToFront(o, k)[i] = IF i = 1 THEN k ELSE IF i <= Place(o, k) THEN o[i - 1] ELSE o[i]
  BY <1>1, <1>3, MoveIsList
<1>6. /\ IsList(MoveToFront(r, k)) /\ Len(MoveToFront(r, k)) = Len(r)
      /\ Place(r, k) \in 1 .. Len(r) /\ r[Place(r, k)] = k
      /\ \A i \in 1 .. Len(r) :
           MoveToFront(r, k)[i] = IF i = 1 THEN k ELSE IF i <= Place(r, k) THEN r[i - 1] ELSE r[i]
  BY <1>4, MoveIsList
<1>7. Place(o, k) = Place(r, k)
  <2>1. Place(o, k) \in 1 .. Len(r) /\ r[Place(o, k)] = k
    BY <1>1, <1>2, <1>5
  <2> QED
    BY <2>1, <1>2, <1>6
<1>8. \A i \in 1 .. Len(o) : MoveToFront(o, k)[i] = MoveToFront(r, k)[i]
  <2> SUFFICES ASSUME NEW i \in 1 .. Len(o)
               PROVE  MoveToFront(o, k)[i] = MoveToFront(r, k)[i]
    OBVIOUS
  <2>1. i \in 1 .. Len(r) /\ o[i] = r[i]
    BY <1>1, <1>2
  <2>2. i # 1 => i - 1 \in 1 .. Len(o)
    BY <1>2
  <2>3. i # 1 => o[i - 1] = r[i - 1]
    BY <2>2, <1>1
  <2> QED
    BY <2>1, <2>3, <1>5, <1>6, <1>7
<1>9. Touch(r, k) = MoveToFront(r, k)
  BY <1>4 DEF Touch
<1> QED
  BY <1>1, <1>5, <1>6, <1>8, <1>9, FrontIsUnique DEF o

\* A miss while there is room: nothing was ever dropped.
LEMMA RoomKeepsFront ==
    ASSUME NEW r, IsList(r), NEW n \in Nat, NEW k \in Keys, k \notin Ran(Front(r, n)),
           Len(Front(r, n)) < n
    PROVE  PushFront(Front(r, n), k) = Front(Touch(r, k), n)
<1> DEFINE o == Front(r, n)
<1>1. /\ IsList(o) /\ Len(o) = Len(r) /\ Len(r) < n
      /\ \A i \in 1 .. Len(o) : o[i] = r[i]
  <2>1. /\ IsList(o) /\ Len(o) = IF Len(r) < n THEN Len(r) ELSE n
        /\ \A i \in 1 .. Len(o) : o[i] = r[i]
    BY FrontIsList
  <2>2. Len(r) \in Nat
    BY ListIsFunction
  <2> QED
    BY <2>1, <2>2
<1>2. o = r
  BY <1>1, SeqEqual DEF IsList
<1> HIDE DEF o
<1>3. k \notin Ran(r)
  BY <1>2 DEF o
<1>4. IsList(PushFront(r, k)) /\ Len(PushFront(r, k)) = Len(r) + 1 /\ Len(r) \in Nat
  BY <1>3, PushIsList, ListIsFunction
<1>5. Len(PushFront(r, k)) = IF Len(PushFront(r, k)) < n THEN Len(PushFront(r, k)) ELSE n
  BY <1>1, <1>4
<1>6. PushFront(r, k) = Front(PushFront(r, k), n)
  BY <1>4, <1>5, FrontIsUnique
<1> QED
  BY <1>2, <1>3, <1>6 DEF Touch, o

\* A miss in a full cache: the last of the front is pushed out of it.
LEMMA FullKeepsFront ==
    ASSUME NEW r, IsList(r), NEW n \in Nat \ {0}, NEW k \in Keys, k \notin Ran(Front(r, n)),
           Len(Front(r, n)) = n
    PROVE  PopBack(PushFront(Front(r, n), k)) = Front(Touch(r, k), n)
<1> DEFINE o == Front(r, n)
<1> DEFINE q == PushFront(o, k)
<1> DEFINE t == Touch(r, k)
<1>1. /\ IsList(o) /\ Len(o) = n /\ n <= Len(r) /\ Len(r) \in Nat
      /\ \A i \in 1 .. n : o[i] = r[i]
  <2>1. /\ IsList(o) /\ Len(o) = IF Len(r) < n THEN Len(r) ELSE n
        /\ \A i \in 1 .. Len(o) : o[i] = r[i]
    BY FrontIsList
  <2>2. Len(r) \in Nat
    BY ListIsFunction
  <2> QED
    BY <2>1, <2>2
<1>2. k \notin Ran(o)
  OBVIOUS
<1> HIDE DEF o
<1>3. /\ IsList(q) /\ Len(q) = n + 1 /\ q[1] = k
      /\ \A i \in 2 .. n + 1 : q[i] = o[i - 1]
  BY <1>1, <1>2, PushIsList
<1> HIDE DEF q
<1>4. IsList(PopBack(q)) /\ Len(PopBack(q)) = n /\ \A i \in 1 .. n : PopBack(q)[i] = q[i]
  <2>1. Len(q) # 0 /\ Len(q) - 1 = n
    BY <1>3
  <2> QED
    BY <2>1, <1>3, PopIsList
<1>5. /\ IsList(t) /\ Len(t) \in Nat /\ n <= Len(t) /\ t[1] = k
      /\ \A i \in 2 .. n : t[i] = r[i - 1]
  <2>1. CASE k \in Ran(r)
    <3>1. /\ IsList(t) /\ Len(t) = Len(r) /\ Place(r, k) \in 1 .. Len(r) /\ r[Place(r, k)] = k
          /\ \A i \in 1 .. Len(r) :
               t[i] = IF i = 1 THEN k ELSE IF i <= Place(r, k) THEN r[i - 1] ELSE r[i]
      BY <2>1, MoveIsList DEF Touch
    <3>2. ~(Place(r, k) \in 1 .. n)
      <4>1. DOMAIN o = 1 .. n
        BY <1>1, ListIsFunction
      <4> QED
        BY <4>1, <1>1, <1>2, <3>1 DEF Ran
    <3>3. n < Place(r, k)
      BY <3>1, <3>2
    <3> QED
      BY <3>1, <3>3, <1>1
  <2>2. CASE k \notin Ran(r)
    <3>1. /\ IsList(t) /\ Len(t) = Len(r) + 1 /\ t[1] = k
          /\ \A i \in 2 .. Len(r) + 1 : t[i] = r[i - 1]
      BY <2>2, PushIsList DEF Touch
    <3> QED
      BY <3>1, <1>1
  <2> QED
    BY <2>1, <2>2
<1> HIDE DEF t
<1>6. \A i \in 1 .. n : PopBack(q)[i] = t[i]
  <2> SUFFICES ASSUME NEW i \in 1 .. n PROVE PopBack(q)[i] = t[i]
    OBVIOUS
  <2>1. CASE i = 1
    BY <2>1, <1>3, <1>4, <1>5
  <2>2. CASE i # 1
    <3>1. i \in 2 .. n + 1 /\ i \in 2 .. n /\ i - 1 \in 1 .. n
      BY <2>2
    <3> QED
      BY <3>1, <1>1, <1>3, <1>4, <1>5
  <2> QED
    BY <2>1, <2>2
<1>7. Len(PopBack(q)) = IF Len(t) < n THEN Len(t) ELSE n
  BY <1>4, <1>5
<1> QED
  BY <1>4, <1>5, <1>6, <1>7, FrontIsUnique DEF o, q, t

-----------------------------------------------------------------------------
\* Both lists are lists of keys, each once, the map has the keys of the bounded
\* one and the scores of the model.
ListsAre ==
    /\ IsList(order) /\ IsList(recent)
    /\ order = Front(recent, Capacity)
    /\ DOMAIN map = Ran(order)
    /\ \A k \in DOMAIN map : map[k] = Score[k]

Answers == {Score[k] : k \in Keys} \cup {NoScore}

\* A call: a place of its answer is right or still a miss.
CallIs ==
    /\ who \in Identities /\ asked \in Seq(Passages)
    /\ out \in Seq(Answers) /\ Len(out) <= Len(asked)
    /\ miss \in Seq(1 .. Len(out))
    /\ cPc \in {"look", "model", "fill", "answered"} =>
         \A i \in 1 .. Len(out) : out[i] = Score[Key(i)] \/ \E j \in 1 .. Len(miss) : miss[j] = i
    /\ cPc \in {"model", "fill", "answered"} => Len(out) = Len(asked)
    /\ cPc = "answered" => miss = << >>

CacheInv == ListsAre /\ CallIs

LEMMA CallLengths ==
    ASSUME CallIs
    PROVE  /\ Len(out) \in Nat /\ Len(asked) \in Nat /\ Len(miss) \in Nat
           /\ DOMAIN asked = 1 .. Len(asked) /\ asked \in [1 .. Len(asked) -> Passages]
           /\ \A i \in 1 .. Len(asked) : Key(i) \in Keys
<1>1. /\ Len(out) \in Nat /\ Len(asked) \in Nat /\ Len(miss) \in Nat
      /\ DOMAIN asked = 1 .. Len(asked) /\ asked \in [1 .. Len(asked) -> Passages]
  BY LenProperties DEF CallIs
<1>2. \A i \in 1 .. Len(asked) : Key(i) \in Keys
  BY <1>1 DEF Key, Keys, CallIs
<1> QED
  BY <1>1, <1>2

LEMMA InvInit == CacheInit => CacheInv
<1> SUFFICES ASSUME CacheInit PROVE CacheInv
  OBVIOUS
<1>1. IsList(<< >>) /\ Len(<< >>) = 0
  BY EmptySeq DEF IsList, NoneTwice
<1>2. << >> = Front(<< >>, Capacity)
  <2>1. Len(<< >>) = IF Len(<< >>) < Capacity THEN Len(<< >>) ELSE Capacity
    BY <1>1, CacheAssumption
  <2>2. \A i \in 1 .. Len(<< >>) : FALSE
    BY <1>1
  <2>3. Capacity \in Nat
    BY CacheAssumption
  <2> QED
    BY <1>1, <2>1, <2>2, <2>3, FrontIsUnique
<1>3. ListsAre
  BY <1>1, <1>2 DEF ListsAre, CacheInit, Ran
<1>4. CallIs
  BY EmptySeq, <1>1 DEF CallIs, CacheInit
<1> QED
  BY <1>3, <1>4 DEF CacheInv

\* put() of a key that was just used: the list stays the front of all uses,
\* and the map has what the list has.
LEMMA PutKeepsLists ==
    ASSUME ListsAre, NEW k \in Keys, Put(k, Score[k]), recent' = Touch(recent, k)
    PROVE  ListsAre'
<1>1. /\ IsList(order) /\ IsList(recent) /\ order = Front(recent, Capacity)
      /\ DOMAIN map = Ran(order) /\ Capacity \in Nat \ {0} /\ Len(order) \in Nat
      /\ \A q \in DOMAIN map : map[q] = Score[q]
  BY CacheAssumption, ListIsFunction DEF ListsAre
<1>2. IsList(recent')
  BY <1>1, TouchIsList
<1>3. Len(order) <= Capacity
  <2>1. Len(order) = IF Len(recent) < Capacity THEN Len(recent) ELSE Capacity
    BY <1>1, FrontIsList
  <2>2. Len(recent) \in Nat
    BY <1>1, ListIsFunction
  <2> QED
    BY <1>1, <2>1, <2>2
<1>4. CASE k \in DOMAIN map
  <2>1. map' = [map EXCEPT ![k] = Score[k]] /\ order' = MoveToFront(order, k)
    BY <1>4 DEF Put
  <2>2. /\ IsList(order') /\ Ran(order') = Ran(order)
        /\ order' = Front(recent', Capacity)
    <3>1. IsList(MoveToFront(order, k)) /\ Ran(MoveToFront(order, k)) = Ran(order)
      BY <1>1, <1>4, MoveIsList
    <3>2. Capacity \in Nat /\ k \in Ran(Front(recent, Capacity))
      BY <1>1, <1>4
    <3>3. MoveToFront(Front(recent, Capacity), k) = Front(Touch(recent, k), Capacity)
      BY <1>1, <3>2, HitKeepsFront
    <3> QED
      BY <1>1, <2>1, <3>1, <3>3
  <2>3. DOMAIN map' = DOMAIN map /\ \A q \in DOMAIN map' : map'[q] = Score[q]
    BY <1>1, <2>1
  <2> QED
    BY <1>1, <1>2, <2>2, <2>3 DEF ListsAre
<1>5. CASE k \notin DOMAIN map
  <2> DEFINE list == PushFront(order, k)
  <2>1. /\ IsList(list) /\ Len(list) = Len(order) + 1 /\ list[1] = k
        /\ \A i \in 2 .. Len(order) + 1 : list[i] = order[i - 1]
        /\ Ran(list) = Ran(order) \cup {k}
    BY <1>1, <1>5, PushIsList
  <2>2. Cardinality(DOMAIN map) = Len(order)
    BY <1>1, ListCardinality
  <2>3. CASE Len(order) + 1 > Capacity
    <3>1. /\ order' = PopBack(list)
          /\ map' = [q \in (DOMAIN map \cup {k}) \ {list[Len(list)]} |->
                       IF q = k THEN Score[k] ELSE map[q]]
      BY <1>5, <2>2, <2>3 DEF Put
    <3>2. Len(list) # 0
      BY <1>1, <2>1
    <3>3. IsList(order') /\ Ran(order') = Ran(list) \ {list[Len(list)]}
      BY <2>1, <3>1, <3>2, PopIsList
    <3>4. order' = Front(recent', Capacity)
      <4>1. Len(Front(recent, Capacity)) = Capacity /\ k \notin Ran(Front(recent, Capacity))
        BY <1>1, <1>3, <1>5, <2>3
      <4> QED
        BY <1>1, <3>1, <4>1, FullKeepsFront
    <3>5. DOMAIN map' = Ran(order') /\ \A q \in DOMAIN map' : map'[q] = Score[q]
      BY <1>1, <2>1, <3>1, <3>3
    <3> QED
      BY <1>2, <3>3, <3>4, <3>5 DEF ListsAre
  <2>4. CASE ~(Len(order) + 1 > Capacity)
    <3>1. /\ order' = list
          /\ map' = [q \in DOMAIN map \cup {k} |-> IF q = k THEN Score[k] ELSE map[q]]
      BY <1>5, <2>2, <2>4 DEF Put
    <3>2. order' = Front(recent', Capacity)
      <4>1. Len(Front(recent, Capacity)) < Capacity /\ k \notin Ran(Front(recent, Capacity))
        BY <1>1, <1>3, <1>5, <2>4
      <4> QED
        BY <1>1, <3>1, <4>1, RoomKeepsFront
    <3>3. DOMAIN map' = Ran(order') /\ \A q \in DOMAIN map' : map'[q] = Score[q]
      BY <1>1, <2>1, <3>1
    <3> QED
      BY <1>2, <2>1, <3>1, <3>2, <3>3 DEF ListsAre
  <2> QED
    BY <2>3, <2>4
<1> QED
  BY <1>4, <1>5

-----------------------------------------------------------------------------
\* Steps that leave the lists alone.
LEMMA ListsUntouched ==
    ASSUME ListsAre, UNCHANGED <<order, map, recent>>
    PROVE  ListsAre'
BY DEF ListsAre

LEMMA AskKeeps == CacheInv /\ Ask => CacheInv'
<1> SUFFICES ASSUME CacheInv, Ask PROVE CacheInv'
  OBVIOUS
<1>1. ListsAre'
  BY ListsUntouched DEF CacheInv, Ask
<1>2. PICK n \in 1 .. MaxAsked : asked' \in [1 .. n -> Passages] /\ who' \in Identities
  BY DEF Ask
<1>3. n \in Nat
  BY CacheAssumption
<1>4. asked' \in Seq(Passages) /\ Len(asked') = n
  BY <1>2, <1>3, FunctionIsList
<1>5. << >> \in Seq(Answers) /\ << >> \in Seq(1 .. 0) /\ Len(<< >>) = 0
  BY EmptySeq
<1>6. out' = << >> /\ miss' = << >> /\ cPc' = "look"
  BY DEF Ask
<1>7. CallIs'
  BY <1>2, <1>3, <1>4, <1>5, <1>6 DEF CallIs, Key, Answers, Keys
<1> QED
  BY <1>1, <1>7 DEF CacheInv

LEMMA LookUpKeeps == CacheInv /\ LookUp => CacheInv'
<1> SUFFICES ASSUME CacheInv, LookUp PROVE CacheInv'
  OBVIOUS
<1> DEFINE i == Len(out) + 1
<1>1. /\ Len(out) \in Nat /\ Len(asked) \in Nat /\ Len(miss) \in Nat /\ Len(out) < Len(asked)
      /\ out \in Seq(Answers) /\ miss \in Seq(1 .. Len(out)) /\ cPc = "look"
      /\ \A j \in 1 .. Len(asked) : Key(j) \in Keys
      /\ \A j \in 1 .. Len(out) : out[j] = Score[Key(j)] \/ \E x \in 1 .. Len(miss) : miss[x] = j
  BY CallLengths DEF CacheInv, LookUp, CallIs
<1>2. i \in 1 .. Len(asked) /\ Key(i) \in Keys /\ Len(out) + 1 \in Nat
  BY <1>1
<1>3. UNCHANGED <<map, who, asked, cPc>> /\ \A j : Key(j)' = Key(j)
  BY DEF LookUp, Key
<1>4. miss \in Seq(1 .. i)
  BY <1>1, SeqMonotonic
<1>5. CASE Key(i) \in DOMAIN map
  <2>1. /\ out' = Append(out, map[Key(i)]) /\ order' = MoveToFront(order, Key(i))
        /\ recent' = Touch(recent, Key(i)) /\ miss' = miss
    BY <1>5 DEF LookUp
  <2>2. map[Key(i)] = Score[Key(i)] /\ Score[Key(i)] \in Answers
    BY <1>2, <1>5 DEF CacheInv, ListsAre, Answers
  <2>3. /\ out' \in Seq(Answers) /\ Len(out') = i /\ out'[i] = Score[Key(i)]
        /\ \A j \in 1 .. Len(out) : out'[j] = out[j]
    BY <1>1, <2>1, <2>2
  <2>4. CallIs'
    <3>1. \A j \in 1 .. Len(out') : out'[j] = Score[Key(j)'] \/ \E x \in 1 .. Len(miss') : miss'[x] = j
      <4> SUFFICES ASSUME NEW j \in 1 .. Len(out')
                   PROVE  out'[j] = Score[Key(j)'] \/ \E x \in 1 .. Len(miss') : miss'[x] = j
        OBVIOUS
      <4>1. j = i \/ j \in 1 .. Len(out)
        BY <1>1, <2>3
      <4> QED
        BY <4>1, <1>1, <1>3, <2>1, <2>3
    <3>2. who' \in Identities /\ asked' \in Seq(Passages) /\ cPc' = "look"
      BY <1>1, <1>3 DEF CacheInv, CallIs
    <3>3. Len(out') <= Len(asked') /\ miss' \in Seq(1 .. Len(out'))
      BY <1>1, <1>3, <1>4, <2>1, <2>3
    <3> QED
      BY <2>3, <3>1, <3>2, <3>3 DEF CallIs, Answers, Keys, Key
  <2>5. ListsAre'
    <3>1. /\ IsList(order) /\ IsList(recent) /\ order = Front(recent, Capacity)
          /\ DOMAIN map = Ran(order) /\ Capacity \in Nat
          /\ \A q \in DOMAIN map : map[q] = Score[q]
      BY CacheAssumption DEF CacheInv, ListsAre
    <3>2. IsList(order') /\ Ran(order') = Ran(order)
      BY <1>5, <2>1, <3>1, MoveIsList
    <3>3. Key(i) \in Ran(Front(recent, Capacity))
      BY <1>5, <3>1
    <3>4. MoveToFront(Front(recent, Capacity), Key(i)) = Front(Touch(recent, Key(i)), Capacity)
      BY <3>1, <3>3, HitKeepsFront
    <3>5. IsList(recent')
      BY <1>2, <2>1, <3>1, TouchIsList
    <3> QED
      BY <1>3, <2>1, <3>1, <3>2, <3>4, <3>5 DEF ListsAre
  <2> QED
    BY <2>4, <2>5 DEF CacheInv
<1>6. CASE Key(i) \notin DOMAIN map
  <2>1. /\ out' = Append(out, NoScore) /\ miss' = Append(miss, i) /\ UNCHANGED <<order, recent>>
    BY <1>6 DEF LookUp
  <2>2. /\ out' \in Seq(Answers) /\ Len(out') = i
        /\ \A j \in 1 .. Len(out) : out'[j] = out[j]
    <3>1. NoScore \in Answers
      BY DEF Answers
    <3> QED
      BY <1>1, <2>1, <3>1
  <2>3. /\ miss' \in Seq(1 .. i) /\ Len(miss') = Len(miss) + 1 /\ miss'[Len(miss) + 1] = i
        /\ \A x \in 1 .. Len(miss) : miss'[x] = miss[x]
    <3>1. i \in 1 .. i
      BY <1>1
    <3> QED
      BY <1>1, <1>4, <2>1, <3>1
  <2>4. \A j \in 1 .. Len(out') : out'[j] = Score[Key(j)'] \/ \E x \in 1 .. Len(miss') : miss'[x] = j
    <3> SUFFICES ASSUME NEW j \in 1 .. Len(out')
                 PROVE  out'[j] = Score[Key(j)'] \/ \E x \in 1 .. Len(miss') : miss'[x] = j
      OBVIOUS
    <3>1. CASE j = i
      <4>1. Len(miss) + 1 \in 1 .. Len(miss')
        BY <1>1, <2>3
      <4> QED
        BY <4>1, <3>1, <2>3
    <3>2. CASE j \in 1 .. Len(out)
      <4>1. \A x \in 1 .. Len(miss) : x \in 1 .. Len(miss')
        BY <1>1, <2>3
      <4> QED
        BY <4>1, <3>2, <1>1, <1>3, <2>2, <2>3
    <3> QED
      BY <3>1, <3>2, <1>1, <2>2
  <2>5. CallIs'
    <3>1. who' \in Identities /\ asked' \in Seq(Passages) /\ cPc' = "look"
      BY <1>1, <1>3 DEF CacheInv, CallIs
    <3>2. Len(out') <= Len(asked')
      BY <1>1, <1>3, <2>2
    <3> QED
      BY <2>2, <2>3, <2>4, <3>1, <3>2 DEF CallIs, Answers, Keys, Key
  <2>6. ListsAre'
    BY <1>3, <2>1, ListsUntouched DEF CacheInv
  <2> QED
    BY <2>5, <2>6 DEF CacheInv
<1> QED
  BY <1>5, <1>6

\* The steps that only move on.
LEMMA MovesKeep == CacheInv /\ (EndLookUp \/ AskModel \/ EndFill) => CacheInv'
<1> SUFFICES ASSUME CacheInv, EndLookUp \/ AskModel \/ EndFill PROVE CacheInv'
  OBVIOUS
<1>1. UNCHANGED <<order, map, recent, who, asked, out, miss>>
  BY DEF EndLookUp, AskModel, EndFill
<1>2. ListsAre'
  BY <1>1, ListsUntouched DEF CacheInv
<1>3. CallIs'
  <2>1. CASE EndLookUp
    BY <1>1, <2>1 DEF CacheInv, CallIs, EndLookUp, Key, Answers, Keys
  <2>2. CASE AskModel
    BY <1>1, <2>2 DEF CacheInv, CallIs, AskModel, Key, Answers, Keys
  <2>3. CASE EndFill
    BY <1>1, <2>3 DEF CacheInv, CallIs, EndFill, Key, Answers, Keys
  <2> QED
    BY <2>1, <2>2, <2>3
<1> QED
  BY <1>2, <1>3 DEF CacheInv

LEMMA FillKeeps == CacheInv /\ Fill => CacheInv'
<1> SUFFICES ASSUME CacheInv, Fill PROVE CacheInv'
  OBVIOUS
<1> DEFINE i == Head(miss)
<1>1. /\ Len(out) \in Nat /\ Len(asked) \in Nat /\ Len(miss) \in Nat /\ miss # << >>
      /\ out \in Seq(Answers) /\ miss \in Seq(1 .. Len(out)) /\ cPc = "fill"
      /\ Len(out) = Len(asked)
      /\ \A j \in 1 .. Len(asked) : Key(j) \in Keys
      /\ \A j \in 1 .. Len(out) : out[j] = Score[Key(j)] \/ \E x \in 1 .. Len(miss) : miss[x] = j
  BY CallLengths DEF CacheInv, Fill, CallIs
<1>2. i = miss[1] /\ 1 \in 1 .. Len(miss) /\ i \in 1 .. Len(out) /\ Key(i) \in Keys
  BY <1>1
<1>3. /\ out' = [out EXCEPT ![i] = Score[Key(i)]] /\ Put(Key(i), Score[Key(i)])
      /\ recent' = Touch(recent, Key(i)) /\ miss' = Tail(miss)
      /\ UNCHANGED <<who, asked, cPc>> /\ \A j : Key(j)' = Key(j)
  BY DEF Fill, Key
<1>4. ListsAre'
  BY <1>2, <1>3, PutKeepsLists DEF CacheInv
<1>5. /\ out' \in Seq(Answers) /\ Len(out') = Len(out)
      /\ \A j \in 1 .. Len(out) : out'[j] = IF j = i THEN Score[Key(i)] ELSE out[j]
  <2>1. Score[Key(i)] \in Answers
    BY <1>2 DEF Answers
  <2> QED
    BY <1>1, <1>2, <1>3, <2>1, ExceptSeq
<1>6. /\ miss' \in Seq(1 .. Len(out)) /\ Len(miss') = Len(miss) - 1
      /\ \A x \in 1 .. Len(miss) - 1 : miss'[x] = miss[x + 1]
  BY <1>1, <1>3
<1>7. \A j \in 1 .. Len(out') : out'[j] = Score[Key(j)'] \/ \E x \in 1 .. Len(miss') : miss'[x] = j
  <2> SUFFICES ASSUME NEW j \in 1 .. Len(out'), j # i, out[j] # Score[Key(j)]
               PROVE  \E x \in 1 .. Len(miss') : miss'[x] = j
    BY <1>3, <1>5
  <2>1. PICK x \in 1 .. Len(miss) : miss[x] = j
    BY <1>1, <1>5
  <2>2. x - 1 \in 1 .. Len(miss) - 1 /\ (x - 1) + 1 = x
    BY <1>1, <1>2, <2>1
  <2>3. miss'[x - 1] = j
    BY <1>6, <2>1, <2>2
  <2> QED
    BY <1>6, <2>2, <2>3
<1>8. CallIs'
  <2>1. who' \in Identities /\ asked' \in Seq(Passages) /\ cPc' = "fill"
    BY <1>1, <1>3 DEF CacheInv, CallIs
  <2>2. Len(out') = Len(asked') /\ Len(out') <= Len(asked') /\ miss' \in Seq(1 .. Len(out'))
    BY <1>1, <1>3, <1>5, <1>6
  <2> QED
    BY <1>5, <1>7, <2>1, <2>2 DEF CallIs, Answers, Keys, Key
<1> QED
  BY <1>4, <1>8 DEF CacheInv

LEMMA ClearKeeps == CacheInv /\ ClearCache => CacheInv'
<1> SUFFICES ASSUME CacheInv, ClearCache PROVE CacheInv'
  OBVIOUS
<1>1. /\ order' = << >> /\ map' = << >> /\ recent' = << >> /\ cPc' = "idle"
      /\ UNCHANGED <<who, asked, out, miss>>
  BY DEF ClearCache
<1>2. IsList(<< >>) /\ Len(<< >>) = 0
  BY EmptySeq DEF IsList, NoneTwice
<1>3. << >> = Front(<< >>, Capacity)
  <2>1. Len(<< >>) = IF Len(<< >>) < Capacity THEN Len(<< >>) ELSE Capacity
    BY <1>2, CacheAssumption
  <2>2. \A i \in 1 .. Len(<< >>) : FALSE
    BY <1>2
  <2>3. Capacity \in Nat
    BY CacheAssumption
  <2> QED
    BY <1>2, <2>1, <2>2, <2>3, FrontIsUnique
<1>4. ListsAre'
  BY <1>1, <1>2, <1>3 DEF ListsAre, Ran
<1>5. CallIs'
  BY <1>1 DEF CacheInv, CallIs, Answers, Keys, Key
<1> QED
  BY <1>4, <1>5 DEF CacheInv

\* The invariant is inductive.
THEOREM CacheInvariant == CacheSpec => []CacheInv
<1>1. CacheInv /\ [CacheNext]_cacheVars => CacheInv'
  <2> SUFFICES ASSUME CacheInv, [CacheNext]_cacheVars PROVE CacheInv'
    OBVIOUS
  <2>1. CASE Ask
    BY <2>1, AskKeeps
  <2>2. CASE LookUp
    BY <2>2, LookUpKeeps
  <2>3. CASE EndLookUp \/ AskModel \/ EndFill
    BY <2>3, MovesKeep
  <2>4. CASE Fill
    BY <2>4, FillKeeps
  <2>5. CASE ClearCache
    BY <2>5, ClearKeeps
  <2>6. CASE UNCHANGED cacheVars
    BY <2>6 DEF cacheVars, CacheInv, ListsAre, CallIs, Key, Answers, Keys
  <2> QED
    BY <2>1, <2>2, <2>3, <2>4, <2>5, <2>6 DEF CacheNext
<1> QED
  BY <1>1, InvInit, PTL DEF CacheSpec

\* The list and the map drop the same entry, what stays is what was used last,
\* and scores through the cache are the model's own (cache.hpp:34-56,
\* reranker.hpp:152-196): for every capacity, every set of passages, rerankers
\* that share the cache, and every sequence of calls, failures and clears.
THEOREM CacheIsFaithful == CacheSpec => []CacheFaithful
<1>1. CacheInv => CacheFaithful
  <2> SUFFICES ASSUME CacheInv PROVE CacheFaithful
    OBVIOUS
  <2>1. /\ IsList(order) /\ IsList(recent) /\ order = Front(recent, Capacity)
        /\ DOMAIN map = Ran(order) /\ Capacity \in Nat
        /\ \A q \in DOMAIN map : map[q] = Score[q]
    BY CacheAssumption DEF CacheInv, ListsAre
  <2>2. Len(order) <= Capacity
    <3>1. Len(order) = IF Len(recent) < Capacity THEN Len(recent) ELSE Capacity
      BY <2>1, FrontIsList
    <3>2. Len(recent) \in Nat
      BY <2>1, ListIsFunction
    <3> QED
      BY <2>1, <3>1, <3>2
  <2>3. LruAgrees
    BY <2>1, <2>2 DEF LruAgrees, IsList, NoneTwice
  <2>4. KeepsMostRecent
    BY <2>1 DEF KeepsMostRecent, Front
  <2>5. ASSUME cPc = "answered"
        PROVE  Len(out) = Len(asked) /\ \A i \in DOMAIN asked : out[i] = Score[Key(i)]
    <3>1. miss = << >> /\ Len(miss) = 0
      BY <2>5, EmptySeq DEF CacheInv, CallIs
    <3>2. DOMAIN asked = 1 .. Len(asked)
      BY CallLengths DEF CacheInv
    <3>3. \A j \in 1 .. Len(miss) : FALSE
      BY <3>1
    <3> QED
      BY <2>5, <3>2, <3>3 DEF CacheInv, CallIs
  <2>6. ScoresAreTheModels
    BY <2>1, <2>5 DEF ScoresAreTheModels
  <2> QED
    BY <2>3, <2>4, <2>6 DEF CacheFaithful
<1> QED
  BY <1>1, CacheInvariant, PTL

-----------------------------------------------------------------------------
(* The handler: a retrieve answers within what was asked.                   *)

\* What a list of hits is made of: chunks a reranker can score, each once.
Scorable == DOMAIN RankScore
TextsOk == RankScore \in [Scorable -> Int] /\ Tokens \in [Scorable -> Nat]
Hit == [chunk : Scorable, score : Int]
EachOnce(hits) == \A i, j \in DOMAIN hits : i # j => hits[i].chunk # hits[j].chunk
HitsOk(hits) == hits \in Seq(Hit) /\ EachOnce(hits)

-----------------------------------------------------------------------------
(* Lists.                                                                  *)

\* Head0 keeps the first members.
LEMMA HeadIs ==
    ASSUME NEW T, NEW s \in Seq(T), NEW n \in Nat
    PROVE  /\ Head0(s, n) \in Seq(T)
           /\ Len(Head0(s, n)) = AtMost(Len(s), n)
           /\ Len(Head0(s, n)) \in Nat /\ Len(Head0(s, n)) <= Len(s) /\ Len(Head0(s, n)) <= n
           /\ \A i \in 1 .. Len(Head0(s, n)) : Head0(s, n)[i] = s[i]
           /\ Head0(s, n) = SubSeq(s, 1, Len(Head0(s, n)))
<1> DEFINE a == AtMost(Len(s), n)
<1>1. Len(s) \in Nat
  BY LenProperties
<1>2. a \in Nat /\ a <= Len(s) /\ a <= n
  BY <1>1 DEF AtMost
<1>3. Head0(s, n) = SubSeq(s, 1, a)
  BY DEF Head0
<1> HIDE DEF a
<1>4. SubSeq(s, 1, a) \in Seq(T)
  BY <1>1, <1>2, SubSeqProperties
<1>5. Len(SubSeq(s, 1, a)) = a /\ \A i \in 1 .. a : SubSeq(s, 1, a)[i] = s[i]
  BY <1>1, <1>2, SubSeqProperties
<1> QED BY <1>2, <1>3, <1>4, <1>5 DEF a

LEMMA HitsAre ==
    ASSUME NEW hits, HitsOk(hits)
    PROVE  /\ hits \in Seq(Hit) /\ Len(hits) \in Nat /\ DOMAIN hits = 1 .. Len(hits)
           /\ \A i \in 1 .. Len(hits) : hits[i] \in Hit
           /\ \A i, j \in 1 .. Len(hits) : hits[i].chunk = hits[j].chunk => i = j
<1>1. hits \in Seq(Hit)
  BY DEF HitsOk
<1>2. Len(hits) \in Nat /\ DOMAIN hits = 1 .. Len(hits)
  BY <1>1, LenProperties
<1>3. \A i \in 1 .. Len(hits) : hits[i] \in Hit
  BY <1>1, ElementOfSeq
<1> QED BY <1>1, <1>2, <1>3 DEF HitsOk, EachOnce

\* Hits picked from a list of hits are a list of hits.
LEMMA PickedOk ==
    ASSUME NEW hits, HitsOk(hits), NEW S \in SUBSET DOMAIN hits
    PROVE  HitsOk(Selected(hits, S))
<1> DEFINE t == Selected(hits, S)
<1>1. /\ hits \in Seq(Hit) /\ DOMAIN hits = 1 .. Len(hits)
      /\ \A i, j \in 1 .. Len(hits) : hits[i].chunk = hits[j].chunk => i = j
  BY HitsAre
<1>2. t \in Seq(Hit) /\ \E p : SelectedFrom(t, hits, S, p)
  BY <1>1, SelectedIs
<1> HIDE DEF t
<1>3. PICK p : SelectedFrom(t, hits, S, p)
  BY <1>2
<1>4. Len(t) \in Nat
  BY <1>2, LenProperties
<1>5. ASSUME NEW i \in DOMAIN t, NEW j \in DOMAIN t, i # j PROVE t[i].chunk # t[j].chunk
  <2>1. i \in 1 .. Len(t) /\ j \in 1 .. Len(t)
    BY <1>3 DEF SelectedFrom
  <2>2. p[i] \in S /\ p[j] \in S
    BY <1>3, <2>1 DEF SelectedFrom
  <2>3. p[i] \in 1 .. Len(hits) /\ p[j] \in 1 .. Len(hits)
    BY <1>1, <2>2
  <2>4. i < j \/ j < i
    BY <1>4, <1>5, <2>1
  <2>5. p[i] < p[j] \/ p[j] < p[i]
    BY <1>3, <2>1, <2>4 DEF SelectedFrom
  <2>6. Len(hits) \in Nat
    BY <1>1, LenProperties
  <2>7. p[i] # p[j]
    BY <2>3, <2>5, <2>6
  <2>8. t[i] = hits[p[i]] /\ t[j] = hits[p[j]]
    BY <1>3, <2>1 DEF SelectedFrom
  <2> QED BY <1>1, <2>3, <2>7, <2>8
<1> QED BY <1>2, <1>5 DEF HitsOk, EachOnce, t

LEMMA HeadOk ==
    ASSUME NEW hits, HitsOk(hits), NEW n \in Nat
    PROVE  HitsOk(Head0(hits, n))
<1> DEFINE t == Head0(hits, n)
<1>1. /\ hits \in Seq(Hit) /\ Len(hits) \in Nat
      /\ \A i, j \in 1 .. Len(hits) : hits[i].chunk = hits[j].chunk => i = j
  BY HitsAre
<1>2. /\ t \in Seq(Hit) /\ Len(t) \in Nat /\ Len(t) <= Len(hits)
      /\ \A i \in 1 .. Len(t) : t[i] = hits[i]
  BY <1>1, HeadIs
<1> HIDE DEF t
<1>3. DOMAIN t = 1 .. Len(t) /\ \A i \in 1 .. Len(t) : i \in 1 .. Len(hits)
  <2>1. DOMAIN t = 1 .. Len(t)
    BY <1>2, LenProperties
  <2> QED BY <1>1, <1>2, <2>1
<1>4. EachOnce(t)
  BY <1>1, <1>2, <1>3 DEF EachOnce
<1> QED BY <1>2, <1>4 DEF HitsOk, t

-----------------------------------------------------------------------------
(* The sort by score and the rerank.                                       *)

\* Hits in the order of a stable sort by score.
Precedes(hits, i, j) ==
    hits[i].score > hits[j].score \/ (hits[i].score = hits[j].score /\ i < j)
ByRank(hits) == {q \in (DOMAIN hits) \X (DOMAIN hits) : Precedes(hits, q[1], q[2])}

LEMMA RanksOrdered ==
    ASSUME NEW hits \in Seq(Hit)
    PROVE  /\ Orders(ByRank(hits), DOMAIN hits)
           /\ \A i \in DOMAIN hits :
                 Before(ByRank(hits), DOMAIN hits, i) = {j \in DOMAIN hits : Precedes(hits, j, i)}
           /\ \A i, j \in DOMAIN hits : <<i, j>> \in ByRank(hits) <=> Precedes(hits, i, j)
<1> DEFINE D == DOMAIN hits
           R == ByRank(hits)
<1>1. \A i, j \in D : <<i, j>> \in R <=> Precedes(hits, i, j)
  BY DEF ByRank
<1>2. \A i \in D : i \in Int /\ hits[i].score \in Int
  <2> TAKE i \in D
  <2>1. Len(hits) \in Nat /\ i \in 1 .. Len(hits)
    BY LenProperties
  <2>2. hits[i] \in Hit
    BY <2>1, ElementOfSeq
  <2> QED BY <2>1, <2>2 DEF Hit
<1>3. \A i \in D : Before(R, D, i) = {j \in D : Precedes(hits, j, i)}
  BY <1>1 DEF Before
<1> HIDE DEF R, D
<1>4. \A i \in D : <<i, i>> \notin R
  BY <1>1, <1>2 DEF Precedes
<1>5. \A i, j \in D : i # j => <<i, j>> \in R \/ <<j, i>> \in R
  BY <1>1, <1>2 DEF Precedes
<1>6. \A i, j, k \in D : <<i, j>> \in R /\ <<j, k>> \in R => <<i, k>> \in R
  BY <1>1, <1>2 DEF Precedes
<1> QED BY <1>1, <1>3, <1>4, <1>5, <1>6 DEF Orders, D, R

\* The sort puts every hit in a place of its own, none before a better one.
LEMMA ByScoreIs ==
    ASSUME NEW hits \in Seq(Hit)
    PROVE  /\ ByScore(hits) \in Seq(Hit)
           /\ Len(ByScore(hits)) = Len(hits)
           /\ \E p \in [1 .. Len(hits) -> 1 .. Len(hits)] :
                 /\ \A m, n \in 1 .. Len(hits) : p[m] = p[n] => m = n
                 /\ \A m \in 1 .. Len(hits) : ByScore(hits)[m] = hits[p[m]]
                 /\ \A m, n \in 1 .. Len(hits) :
                       m < n => ByScore(hits)[m].score >= ByScore(hits)[n].score
<1> DEFINE D == 1 .. Len(hits)
           R == ByRank(hits)
           p == Listed(R, D)
           t == ByScore(hits)
<1>1. /\ Len(hits) \in Nat /\ DOMAIN hits = D
      /\ \A i \in D : hits[i] \in Hit
  BY LenProperties, ElementOfSeq
<1>2. IsFiniteSet(D) /\ Cardinality(D) = Len(hits)
  <2>1. 1 \in Int /\ Len(hits) \in Int
    BY <1>1
  <2>2. IsFiniteSet(D) /\ Cardinality(D) = IF 1 > Len(hits) THEN 0 ELSE Len(hits) - 1 + 1
    BY <2>1, FS_Interval
  <2> HIDE DEF D
  <2> QED BY <1>1, <2>2
<1>3. /\ Orders(R, D)
      /\ \A i \in D : Before(R, D, i) = {j \in D : Precedes(hits, j, i)}
      /\ \A i, j \in D : <<i, j>> \in R <=> Precedes(hits, i, j)
  <2> HIDE DEF D, R
  <2> QED BY <1>1, RanksOrdered DEF R
<1>4. ASSUME NEW m \in D PROVE t[m] = hits[p[m]]
  <2>1. t[m] = hits[CHOOSE i \in D : 1 + Cardinality({j \in D : Precedes(hits, j, i)}) = m]
    BY <1>1 DEF ByScore, Precedes
  <2>2. p[m] = CHOOSE x \in D : Cardinality(Before(R, D, x)) = m - 1
    BY <1>1, <1>2 DEF Listed
  <2>3. \A i \in D : 1 + Cardinality({j \in D : Precedes(hits, j, i)}) = m
                      <=> Cardinality(Before(R, D, i)) = m - 1
    <3> TAKE i \in D
    <3> DEFINE b == {j \in D : Precedes(hits, j, i)}
    <3>1. b \in SUBSET D
      OBVIOUS
    <3>2. Before(R, D, i) = b
      BY <1>3
    <3> HIDE DEF b
    <3>3. Cardinality(b) \in Nat
      BY <1>2, <3>1, FS_Subset, FS_CardinalityType
    <3>4. m \in Int
      BY <1>1
    <3>5. 1 + Cardinality(b) = m <=> Cardinality(b) = m - 1
      BY <3>3, <3>4
    <3> QED BY <3>2, <3>5 DEF b
  <2> HIDE DEF D, R, p, t
  <2> QED BY <2>1, <2>2, <2>3
<1>5. /\ p \in [D -> D]
      /\ \A m, n \in D : m < n <=> <<p[m], p[n]>> \in R
  <2> HIDE DEF D, R
  <2>1. IsFiniteSet(D) /\ Orders(R, D)
    BY <1>2, <1>3
  <2>2. /\ p \in [1 .. Cardinality(D) -> D]
        /\ \A m, n \in 1 .. Cardinality(D) : m < n <=> <<p[m], p[n]>> \in R
    BY <2>1, InPlaces
  <2>3. 1 .. Cardinality(D) = D
    BY <1>2 DEF D
  <2> QED BY <2>2, <2>3
<1>6. t = [m \in D |-> t[m]]
  BY <1>1 DEF ByScore
<1>7. t \in [D -> Hit]
  <2> HIDE DEF t, p, D
  <2>1. \A m \in D : t[m] \in Hit
    BY <1>1, <1>4, <1>5
  <2> QED BY <1>6, <2>1
<1>8. t \in Seq(Hit) /\ Len(t) = Len(hits)
  <2> HIDE DEF t
  <2> QED BY <1>1, <1>7, FunctionIsList
<1>9. ASSUME NEW m \in D, NEW n \in D, p[m] = p[n] PROVE m = n
  <2> HIDE DEF p, R
  <2>1. p[m] \in D
    BY <1>5
  <2>2. <<p[m], p[m]>> \notin R
    BY <1>3, <2>1 DEF Orders
  <2>3. ~(m < n) /\ ~(n < m)
    BY <1>5, <1>9, <2>2
  <2> QED BY <1>1, <2>3
<1>10. ASSUME NEW m \in D, NEW n \in D, m < n PROVE t[m].score >= t[n].score
  <2> HIDE DEF p, R, t, D
  <2>1. p[m] \in D /\ p[n] \in D /\ Precedes(hits, p[m], p[n])
    BY <1>3, <1>5, <1>10
  <2>2. hits[p[m]].score \in Int /\ hits[p[n]].score \in Int
    BY <1>1, <2>1 DEF Hit
  <2>3. hits[p[m]].score >= hits[p[n]].score
    BY <2>1, <2>2 DEF Precedes
  <2> QED BY <1>4, <2>3
<1> HIDE DEF t, p
<1> QED BY <1>4, <1>5, <1>8, <1>9, <1>10 DEF t

\* The first n hits are ranked by the reranker's scores.
TopRanked(hits, n) ==
    \A i, j \in DOMAIN hits : i < j /\ j <= n =>
       /\ hits[j].score = RankScore[hits[j].chunk]
       /\ hits[i].score >= hits[j].score

\* The rerank scores and sorts the first n hits and leaves the others: no hit
\* is lost or doubled.
LEMMA RerankTopIs ==
    ASSUME TextsOk, NEW hits, HitsOk(hits), NEW n \in Nat
    PROVE  HitsOk(RerankTop(hits, n)) /\ TopRanked(RerankTop(hits, n), n)
<1> DEFINE top == AtMost(n, Len(hits))
           scored == [i \in 1 .. top |-> [hits[i] EXCEPT !.score = RankScore[hits[i].chunk]]]
           first == ByScore(scored)
           rest == SubSeq(hits, top + 1, Len(hits))
           t == RerankTop(hits, n)
<1>1. /\ hits \in Seq(Hit) /\ Len(hits) \in Nat /\ DOMAIN hits = 1 .. Len(hits)
      /\ \A i \in 1 .. Len(hits) : hits[i] \in Hit
      /\ \A i, j \in 1 .. Len(hits) : hits[i].chunk = hits[j].chunk => i = j
  BY HitsAre
<1>2. top \in Nat /\ top <= Len(hits) /\ (top = n \/ top = Len(hits))
  BY <1>1 DEF AtMost
<1>3. t = first \o rest
  BY DEF RerankTop
<1> HIDE DEF top
<1>0. n \in Nat /\ top \in Nat /\ Len(hits) \in Nat /\ top <= Len(hits)
  BY <1>1, <1>2
<1>n. top = n \/ top = Len(hits)
  BY <1>2
<1>4. ASSUME NEW i \in 1 .. top
      PROVE  /\ scored[i] \in Hit
             /\ scored[i].chunk = hits[i].chunk
             /\ scored[i].score = RankScore[hits[i].chunk]
  <2>1. i \in 1 .. Len(hits)
    BY <1>0
  <2>2. hits[i] \in Hit
    BY <1>1, <2>1
  <2>3. RankScore[hits[i].chunk] \in Int
    BY <2>2 DEF Hit, TextsOk
  <2>4. scored[i] = [hits[i] EXCEPT !.score = RankScore[hits[i].chunk]]
    OBVIOUS
  <2> HIDE DEF scored
  <2> QED BY <2>2, <2>3, <2>4 DEF Hit
<1>5. scored \in [1 .. top -> Hit]
  <2>1. scored = [i \in 1 .. top |-> scored[i]]
    OBVIOUS
  <2> HIDE DEF scored
  <2> QED BY <1>4, <2>1
<1>6. scored \in Seq(Hit) /\ Len(scored) = top
  <2> HIDE DEF scored
  <2> QED BY <1>2, <1>5, FunctionIsList
<1> HIDE DEF scored, t
<1>7. /\ first \in Seq(Hit) /\ Len(first) = top
      /\ \E p \in [1 .. top -> 1 .. top] :
            /\ \A l, m \in 1 .. top : p[l] = p[m] => l = m
            /\ \A m \in 1 .. top : first[m] = scored[p[m]]
            /\ \A l, m \in 1 .. top : l < m => first[l].score >= first[m].score
  BY <1>6, ByScoreIs
<1> HIDE DEF first
<1>8. PICK p \in [1 .. top -> 1 .. top] :
            /\ \A l, m \in 1 .. top : p[l] = p[m] => l = m
            /\ \A m \in 1 .. top : first[m] = scored[p[m]]
            /\ \A l, m \in 1 .. top : l < m => first[l].score >= first[m].score
  BY <1>7
<1>9. /\ rest \in Seq(Hit)
      /\ Len(rest) = Len(hits) - top
      /\ \A i \in 1 .. Len(hits) - top : rest[i] = hits[top + i]
  <2>1. top + 1 \in Int /\ Len(hits) \in Int
    BY <1>0
  <2>2. \A i \in (top + 1) .. Len(hits) : hits[i] \in Hit
    <3>1. \A i \in (top + 1) .. Len(hits) : i \in 1 .. Len(hits)
      BY <1>0
    <3> QED BY <1>1, <3>1
  <2>3. /\ rest \in Seq(Hit)
        /\ Len(rest) = IF top + 1 <= Len(hits) THEN Len(hits) - (top + 1) + 1 ELSE 0
        /\ \A i \in 1 .. Len(hits) - (top + 1) + 1 : rest[i] = hits[(top + 1) + i - 1]
    BY <2>1, <2>2, SubSeqProperties
  <2> HIDE DEF rest
  <2>4. Len(rest) = Len(hits) - top
    BY <1>0, <2>3
  <2>5. ASSUME NEW i \in 1 .. Len(hits) - top PROVE rest[i] = hits[top + i]
    <3>1. i \in 1 .. Len(hits) - (top + 1) + 1 /\ (top + 1) + i - 1 = top + i
      BY <1>0
    <3> QED BY <2>3, <3>1
  <2> QED BY <2>3, <2>4, <2>5
<1> HIDE DEF rest
<1>10. /\ t \in Seq(Hit) /\ Len(t) = Len(hits) /\ DOMAIN t = 1 .. Len(hits)
       /\ \A i \in 1 .. Len(hits) : t[i] = IF i <= top THEN first[i] ELSE rest[i - top]
  <2>1. /\ t \in Seq(Hit) /\ Len(t) = Len(first) + Len(rest)
        /\ \A i \in 1 .. Len(first) + Len(rest) :
              t[i] = IF i <= Len(first) THEN first[i] ELSE rest[i - Len(first)]
    <3>1. first \in Seq(Hit) /\ rest \in Seq(Hit)
      BY <1>7, <1>9
    <3> QED BY <1>3, <3>1, ConcatProperties
  <2>2. Len(first) + Len(rest) = Len(hits) /\ Len(first) = top
    <3>1. Len(first) = top /\ Len(rest) = Len(hits) - top
      BY <1>7, <1>9
    <3> QED BY <1>0, <3>1
  <2>3. DOMAIN t = 1 .. Len(t)
    BY <2>1, LenProperties
  <2> QED BY <2>1, <2>2, <2>3
<1> DEFINE from == [i \in 1 .. Len(hits) |-> IF i <= top THEN p[i] ELSE i]
<1>11. ASSUME NEW i \in 1 .. Len(hits)
       PROVE  /\ from[i] \in 1 .. Len(hits)
              /\ i <= top => from[i] \in 1 .. top
              /\ ~(i <= top) => from[i] = i
              /\ t[i].chunk = hits[from[i]].chunk
  <2>1. CASE i <= top
    <3>1. i \in 1 .. top /\ from[i] = p[i]
      BY <1>2, <2>1
    <3> HIDE DEF from
    <3>2. p[i] \in 1 .. top
      BY <1>8, <3>1
    <3>3. p[i] \in 1 .. Len(hits)
      BY <1>0, <3>2
    <3>4. t[i] = scored[p[i]]
      BY <1>8, <1>10, <2>1, <3>1
    <3>5. t[i].chunk = hits[p[i]].chunk
      BY <1>4, <3>2, <3>4
    <3> QED BY <2>1, <3>1, <3>2, <3>3, <3>5
  <2>2. CASE ~(i <= top)
    <3>1. from[i] = i
      BY <2>2
    <3> HIDE DEF from
    <3>2. i - top \in 1 .. Len(hits) - top /\ top + (i - top) = i
      BY <1>0, <2>2
    <3>3. t[i] = hits[i]
      BY <1>9, <1>10, <2>2, <3>2
    <3> QED BY <2>2, <3>1, <3>3
  <2> QED BY <2>1, <2>2
<1>12. ASSUME NEW i \in 1 .. Len(hits), NEW j \in 1 .. Len(hits), from[i] = from[j]
       PROVE  i = j
  <2>1. i <= top /\ j <= top => from[i] = p[i] /\ from[j] = p[j]
    OBVIOUS
  <2> HIDE DEF from
  <2>2. CASE i <= top /\ j <= top
    <3>1. i \in 1 .. top /\ j \in 1 .. top
      BY <1>2, <2>2
    <3> QED BY <1>8, <1>12, <2>1, <2>2, <3>1
  <2>3. CASE ~(i <= top) /\ ~(j <= top)
    BY <1>11, <1>12, <2>3
  <2>4. CASE i <= top /\ ~(j <= top)
    <3>1. from[i] \in 1 .. top /\ from[j] = j
      BY <1>11, <2>4
    <3> QED BY <1>2, <1>12, <2>4, <3>1
  <2>5. CASE ~(i <= top) /\ j <= top
    <3>1. from[j] \in 1 .. top /\ from[i] = i
      BY <1>11, <2>5
    <3> QED BY <1>2, <1>12, <2>5, <3>1
  <2> QED BY <2>2, <2>3, <2>4, <2>5
<1> HIDE DEF from
<1>13. HitsOk(t)
  <2>1. ASSUME NEW i \in DOMAIN t, NEW j \in DOMAIN t, i # j PROVE t[i].chunk # t[j].chunk
    <3>1. i \in 1 .. Len(hits) /\ j \in 1 .. Len(hits)
      BY <1>10
    <3>2. from[i] # from[j]
      BY <1>12, <2>1, <3>1
    <3> QED BY <1>1, <1>11, <3>1, <3>2
  <2> QED BY <1>10, <2>1 DEF HitsOk, EachOnce
<1>14. TopRanked(t, n)
  <2> SUFFICES ASSUME NEW i \in 1 .. Len(hits), NEW j \in 1 .. Len(hits), i < j, j <= n
               PROVE  /\ t[j].score = RankScore[t[j].chunk]
                      /\ t[i].score >= t[j].score
    BY <1>10 DEF TopRanked
  <2>1. i \in 1 .. top /\ j \in 1 .. top
    <3>1. j <= top
      BY <1>0, <1>n
    <3> QED BY <1>0, <3>1
  <2>2. i <= top /\ j <= top
    BY <1>2, <2>1
  <2>3. t[i] = first[i] /\ t[j] = first[j]
    BY <1>10, <2>2
  <2>4. p[j] \in 1 .. top /\ first[j] = scored[p[j]]
    BY <1>8, <2>1
  <2>5. scored[p[j]].score = RankScore[scored[p[j]].chunk]
    BY <1>4, <2>4
  <2>6. first[i].score >= first[j].score
    BY <1>8, <2>1
  <2> QED BY <2>3, <2>4, <2>5, <2>6
<1> QED BY <1>13, <1>14 DEF t

-----------------------------------------------------------------------------
(* The tail: the trim to k and the token budget.                           *)

\* A set of numbers up to a that has every number below its members is an
\* interval.
LEMMA DownSet ==
    ASSUME NEW a \in Nat, NEW F \in SUBSET (1 .. a), \A n \in F : \A m \in 1 .. n : m \in F
    PROVE  \E b \in 0 .. a : F = 1 .. b /\ Cardinality(F) = b
<1> DEFINE S == {n \in 1 .. (a + 1) : n \notin F}
<1>1. S \in SUBSET Nat /\ a + 1 \in S
  OBVIOUS
<1>2. PICK x \in S : \A y \in S : x <= y
  <2> HIDE DEF S
  <2> QED BY <1>1, LeastNumber
<1>3. x \in Nat /\ x - 1 \in 0 .. a /\ x \notin F
  BY <1>2
<1>4. \A n \in 1 .. (x - 1) : n \in F
  <2> TAKE n \in 1 .. (x - 1)
  <2>1. n \in 1 .. (a + 1) /\ ~(x <= n)
    BY <1>3
  <2>2. n \notin S
    BY <1>2, <2>1
  <2> QED BY <2>1, <2>2
<1>5. \A n \in F : n \in 1 .. (x - 1)
  <2> TAKE n \in F
  <2>1. n \in 1 .. a /\ x >= 1
    BY <1>2
  <2>2. ~(x <= n)
    <3>1. ASSUME x <= n PROVE FALSE
      <4>1. x \in 1 .. n
        BY <1>3, <2>1, <3>1
      <4> QED BY <1>3, <4>1
    <3> QED BY <3>1
  <2> QED BY <1>3, <2>1, <2>2
<1> HIDE DEF S
<1>6. F = 1 .. (x - 1)
  BY <1>4, <1>5
<1>7. Cardinality(1 .. (x - 1)) = x - 1
  <2>1. 1 \in Int /\ x - 1 \in Int
    BY <1>3
  <2>2. Cardinality(1 .. (x - 1)) = IF 1 > x - 1 THEN 0 ELSE (x - 1) - 1 + 1
    BY <2>1, FS_Interval
  <2> QED BY <1>3, <2>2
<1> QED BY <1>3, <1>6, <1>7

LEMMA TokensAre ==
    ASSUME TextsOk, NEW hits \in Seq(Hit), NEW r
    PROVE  TokensOf(r, hits) \in Nat
<1> DEFINE w == [i \in DOMAIN hits |-> TextTokens(r, hits[i])]
<1>1. Len(hits) \in Nat /\ DOMAIN hits = 1 .. Len(hits)
  BY LenProperties
<1>2. \A i \in DOMAIN hits : TextTokens(r, hits[i]) \in Nat
  <2> TAKE i \in DOMAIN hits
  <2>1. hits[i] \in Hit
    BY <1>1, ElementOfSeq
  <2> QED BY <2>1 DEF TextTokens, Hit, TextsOk
<1>3. w \in [DOMAIN hits -> Nat]
  BY <1>2
<1>4. IsFiniteSet(DOMAIN hits)
  <2>1. 1 \in Int /\ Len(hits) \in Int
    BY <1>1
  <2> QED BY <1>1, <2>1, FS_Interval
<1> HIDE DEF w
<1>5. \E g : Adds(g, DOMAIN hits, w)
  BY <1>3, <1>4, SumIs
<1>6. SumOf(w) \in Nat
  <2>1. DOMAIN hits \in SUBSET DOMAIN hits
    OBVIOUS
  <2> QED BY <1>5, <2>1 DEF Adds
<1> QED BY <1>6 DEF TokensOf, w

\* What fits the budget: the first hits, up to the first that bursts it.
Fitting(r, hits, b) ==
    /\ Budgeted(r, hits) = SubSeq(hits, 1, b)
    /\ r.tokenBudget = Unset => b = Len(hits)
    /\ r.tokenBudget # Unset /\ b > 1 => TokensOf(r, SubSeq(hits, 1, b)) <= r.tokenBudget
    /\ r.tokenBudget # Unset /\ b < Len(hits) =>
          ~(TokensOf(r, SubSeq(hits, 1, b + 1)) <= r.tokenBudget)

LEMMA BudgetedIs ==
    ASSUME NEW hits \in Seq(Hit), NEW r
    PROVE  \E b \in 0 .. Len(hits) : Fitting(r, hits, b)
<1> DEFINE under(m) == TokensOf(r, SubSeq(hits, 1, m)) <= r.tokenBudget
           fits == {n \in 1 .. Len(hits) : \A m \in 2 .. n : under(m)}
<1>1. Len(hits) \in Nat
  BY LenProperties
<1>2. CASE r.tokenBudget = Unset
  <2>1. Budgeted(r, hits) = hits /\ SubSeq(hits, 1, Len(hits)) = hits
    BY <1>2, SubSeqFull DEF Budgeted
  <2>2. Len(hits) \in 0 .. Len(hits)
    BY <1>1
  <2> QED BY <1>2, <2>1, <2>2 DEF Fitting
<1>3. CASE r.tokenBudget # Unset
  <2>1. Budgeted(r, hits) = SubSeq(hits, 1, Cardinality(fits))
    BY <1>3 DEF Budgeted
  <2> HIDE DEF under
  <2>2. fits \in SUBSET (1 .. Len(hits)) /\ \A n \in fits : \A m \in 1 .. n : m \in fits
    BY <1>1
  <2>3. PICK b \in 0 .. Len(hits) : fits = 1 .. b /\ Cardinality(fits) = b
    <3> HIDE DEF fits
    <3> QED BY <1>1, <2>2, DownSet
  <2>4. b > 1 => under(b)
    <3> SUFFICES ASSUME b > 1 PROVE under(b)
      OBVIOUS
    <3>1. b \in 1 .. b /\ b \in 2 .. b
      BY <1>1
    <3>2. b \in fits
      BY <2>3, <3>1
    <3> QED BY <3>1, <3>2
  <2>5. b < Len(hits) => ~under(b + 1)
    <3> SUFFICES ASSUME b < Len(hits), under(b + 1) PROVE FALSE
      OBVIOUS
    <3>1. b \in Nat /\ b + 1 \in 1 .. Len(hits) /\ b + 1 \notin 1 .. b
      BY <1>1
    <3>2. \A m \in 2 .. (b + 1) : m = b + 1 \/ (m \in 2 .. b /\ b \in 1 .. b)
      BY <3>1
    <3>3. \A m \in 2 .. b : b \in 1 .. b => under(m)
      BY <2>3
    <3>4. \A m \in 2 .. (b + 1) : under(m)
      BY <3>2, <3>3
    <3>5. b + 1 \in fits
      BY <3>1, <3>4
    <3> HIDE DEF fits
    <3> QED BY <2>3, <3>1, <3>5
  <2> HIDE DEF fits
  <2> QED BY <1>3, <2>1, <2>3, <2>4, <2>5 DEF Fitting, under
<1> QED BY <1>2, <1>3

\* Each hit of a list of hits is of a chunk of its own.
LEMMA ChunksCounted ==
    ASSUME NEW hits, HitsOk(hits)
    PROVE  Cardinality(Chunks(hits)) = Len(hits)
<1> DEFINE f == [i \in 1 .. Len(hits) |-> hits[i].chunk]
           C == Chunks(hits)
<1>1. /\ Len(hits) \in Nat /\ DOMAIN hits = 1 .. Len(hits)
      /\ \A i, j \in 1 .. Len(hits) : hits[i].chunk = hits[j].chunk => i = j
  BY HitsAre
<1>2. f \in Surjection(1 .. Len(hits), C) /\ f \in Injection(1 .. Len(hits), C)
  <2>1. f \in [1 .. Len(hits) -> C]
    BY <1>1 DEF Chunks
  <2>2. \A c \in C : \E i \in 1 .. Len(hits) : f[i] = c
    BY <1>1 DEF Chunks
  <2>3. \A i, j \in 1 .. Len(hits) : f[i] = f[j] => i = j
    BY <1>1
  <2> HIDE DEF f, C
  <2> QED BY <2>1, <2>2, <2>3 DEF Surjection, Injection, IsInjective
<1> HIDE DEF f, C
<1>3. IsFiniteSet(1 .. Len(hits)) /\ Cardinality(1 .. Len(hits)) = Len(hits)
  <2>1. 1 \in Int /\ Len(hits) \in Int
    BY <1>1
  <2>2. /\ IsFiniteSet(1 .. Len(hits))
        /\ Cardinality(1 .. Len(hits)) = IF 1 > Len(hits) THEN 0 ELSE Len(hits) - 1 + 1
    BY <2>1, FS_Interval
  <2> QED BY <1>1, <2>2
<1>4. ExistsBijection(1 .. Len(hits), C)
  BY <1>2 DEF ExistsBijection, Bijection
<1>5. Cardinality(C) = Len(hits)
  BY <1>3, <1>4, FS_Bijection
<1> QED BY <1>5 DEF C

-----------------------------------------------------------------------------
(* The reply.                                                              *)

\* A good hit is missing only where the reply is full or the next hit bursts
\* the budget.
NoneMissing(r, hits, k, reply) ==
    \A i \in DOMAIN hits :
       Good(r, hits[i]) /\ hits[i].chunk \notin Chunks(reply) =>
          \/ Len(reply) = k
          \/ /\ r.tokenBudget # Unset
             /\ \E h \in {hits[j] : j \in 1 .. i} :
                   /\ h.chunk \notin Chunks(reply)
                   /\ TokensOf(r, Append(reply, h)) > r.tokenBudget

\* The hits a rerank left in place are in the order of its scores.
RanksKept(hits, n, reply) ==
    \A i, j \in DOMAIN reply : i < j /\ j <= n /\ hits[j] = reply[j] =>
       /\ reply[j].score = RankScore[reply[j].chunk]
       /\ reply[i].score >= reply[j].score

LEMMA ReplyIs ==
    ASSUME TextsOk, NEW hits, HitsOk(hits), NEW k \in Nat, NEW r,
           r.tokenBudget \in Int \cup {Unset},
           NEW reply, reply = Budgeted(r, Trimmed(r, hits, k))
    PROVE  /\ Len(reply) <= k
           /\ Cardinality(Chunks(reply)) = Len(reply)
           /\ \A i \in DOMAIN reply : Good(r, reply[i])
           /\ r.tokenBudget # Unset /\ Len(reply) > 1 => TokensOf(r, reply) <= r.tokenBudget
           /\ NoneMissing(r, hits, k, reply)
           /\ \A n \in Nat : TopRanked(hits, n) => RanksKept(hits, n, reply)
<1> DEFINE G == {i \in DOMAIN hits : Good(r, hits[i])}
           good == GoodOnes(r, hits)
           cut == Trimmed(r, hits, k)
<1>1. /\ hits \in Seq(Hit) /\ Len(hits) \in Nat /\ DOMAIN hits = 1 .. Len(hits)
      /\ \A i \in 1 .. Len(hits) : hits[i] \in Hit
      /\ \A i, j \in 1 .. Len(hits) : hits[i].chunk = hits[j].chunk => i = j
  BY HitsAre
<1>2. good = Selected(hits, G) /\ G \in SUBSET DOMAIN hits
  BY DEF GoodOnes
<1>3. cut = Head0(good, k)
  BY DEF Trimmed
<1>4. G \in SUBSET (1 .. Len(hits)) /\ \A i \in G : Good(r, hits[i])
  BY <1>1
<1>4a. \A i \in DOMAIN hits : Good(r, hits[i]) => i \in G
  OBVIOUS
<1> HIDE DEF G, good, cut
<1>5. HitsOk(good) /\ Len(good) <= Len(hits) /\ \E p : SelectedFrom(good, hits, G, p)
  BY <1>1, <1>2, PickedOk, SelectedIs
<1>6. PICK p : SelectedFrom(good, hits, G, p)
  BY <1>5
<1>7. good \in Seq(Hit) /\ Len(good) \in Nat
  BY <1>5, HitsAre
<1>8. /\ HitsOk(cut) /\ cut \in Seq(Hit)
      /\ Len(cut) = AtMost(Len(good), k)
      /\ \A i \in 1 .. Len(cut) : cut[i] = good[i]
  BY <1>3, <1>5, <1>7, HeadIs, HeadOk
<1>9. /\ Len(cut) \in Nat /\ Len(cut) <= Len(good) /\ Len(cut) <= k
      /\ Len(cut) = Len(good) \/ Len(cut) = k
  BY <1>7, <1>8 DEF AtMost
<1>10. PICK b \in 0 .. Len(cut) : Fitting(r, cut, b)
  BY <1>8, BudgetedIs
<1>11. b \in Nat /\ b <= Len(cut)
  BY <1>9
<1>12. reply = SubSeq(cut, 1, b) /\ SubSeq(cut, 1, b) = Head0(cut, b)
  <2>1. reply = SubSeq(cut, 1, b)
    BY <1>10 DEF Fitting, cut
  <2>2. AtMost(Len(cut), b) = b
    BY <1>9, <1>11 DEF AtMost
  <2> QED BY <2>1, <2>2 DEF Head0
<1>13. /\ HitsOk(reply) /\ reply \in Seq(Hit)
       /\ Len(reply) = b /\ DOMAIN reply = 1 .. b
       /\ \A i \in 1 .. b : reply[i] = cut[i]
  <2>1. reply = Head0(cut, b)
    BY <1>12
  <2>2. HitsOk(reply)
    BY <1>8, <1>11, <2>1, HeadOk
  <2>3. /\ Len(reply) = AtMost(Len(cut), b)
        /\ \A i \in 1 .. Len(reply) : reply[i] = cut[i]
    BY <1>8, <1>11, <2>1, HeadIs
  <2>4. AtMost(Len(cut), b) = b
    BY <1>9, <1>11 DEF AtMost
  <2>5. reply \in Seq(Hit) /\ DOMAIN reply = 1 .. Len(reply)
    BY <2>2, HitsAre
  <2> QED BY <2>2, <2>3, <2>4, <2>5
<1>14. ASSUME NEW m \in 1 .. Len(good)
       PROVE  /\ p[m] \in G /\ p[m] \in 1 .. Len(hits)
              /\ good[m] = hits[p[m]]
  BY <1>4, <1>6 DEF SelectedFrom
<1>15. ASSUME NEW m \in 1 .. b
       PROVE  m \in 1 .. Len(good) /\ reply[m] = hits[p[m]]
  <2>1. m \in 1 .. Len(good) /\ m \in 1 .. Len(cut)
    BY <1>7, <1>9, <1>11
  <2> QED BY <1>8, <1>13, <1>14, <2>1
<1>16. Len(reply) <= k
  BY <1>9, <1>11, <1>13
<1>17. Cardinality(Chunks(reply)) = Len(reply)
  BY <1>13, ChunksCounted
<1>18. \A i \in DOMAIN reply : Good(r, reply[i])
  <2> TAKE i \in DOMAIN reply
  <2>1. i \in 1 .. b
    BY <1>13
  <2>2. p[i] \in G /\ reply[i] = hits[p[i]]
    BY <1>14, <1>15, <2>1
  <2> QED BY <1>4, <2>2
<1>19. r.tokenBudget # Unset /\ Len(reply) > 1 => TokensOf(r, reply) <= r.tokenBudget
  BY <1>10, <1>12, <1>13 DEF Fitting
<1>20. NoneMissing(r, hits, k, reply)
  <2> SUFFICES ASSUME NEW i \in DOMAIN hits, Good(r, hits[i]),
                      hits[i].chunk \notin Chunks(reply), Len(reply) # k
               PROVE  /\ r.tokenBudget # Unset
                      /\ \E h \in {hits[j] : j \in 1 .. i} :
                            /\ h.chunk \notin Chunks(reply)
                            /\ TokensOf(r, Append(reply, h)) > r.tokenBudget
    BY DEF NoneMissing
  <2>1. PICK m \in 1 .. Len(good) : p[m] = i
    BY <1>4a, <1>6 DEF SelectedFrom
  <2>2. m \notin 1 .. b
    <3>1. ASSUME m \in 1 .. b PROVE FALSE
      <4>1. reply[m] = hits[i] /\ m \in DOMAIN reply
        BY <1>13, <1>15, <2>1, <3>1
      <4> QED BY <4>1 DEF Chunks
    <3> QED BY <3>1
  <2>3. b < m
    BY <1>7, <1>11, <2>2
  <2>4. b < Len(cut)
    <3>1. b # k
      BY <1>13
    <3>2. b < Len(good)
      BY <1>7, <1>11, <2>3
    <3> QED BY <1>9, <1>11, <3>1, <3>2
  <2> DEFINE j == p[b + 1]
             h == hits[j]
  <2>5. b + 1 \in 1 .. Len(good) /\ b + 1 \in 1 .. Len(cut)
    BY <1>7, <1>9, <1>11, <2>4
  <2>6. j \in 1 .. Len(hits) /\ cut[b + 1] = h
    BY <1>8, <1>14, <2>5
  <2>7. j \in 1 .. i
    <3>1. b + 1 = m \/ b + 1 < m
      BY <1>7, <1>11, <2>3
    <3>2. j = i \/ j < i
      BY <1>6, <2>1, <2>5, <3>1 DEF SelectedFrom
    <3>3. i \in Nat /\ j \in Nat /\ 1 <= j
      BY <1>1, <2>6
    <3> HIDE DEF j
    <3> QED BY <3>2, <3>3
  <2>8. h.chunk \notin Chunks(reply)
    <3> SUFFICES ASSUME NEW l \in DOMAIN reply, h.chunk = reply[l].chunk PROVE FALSE
      BY DEF Chunks
    <3>1. l \in 1 .. b
      BY <1>13
    <3>2. l \in 1 .. Len(good) /\ reply[l] = hits[p[l]] /\ p[l] \in 1 .. Len(hits)
      BY <1>14, <1>15, <3>1
    <3>3. j = p[l]
      BY <1>1, <2>6, <3>2
    <3>4. l < b + 1
      BY <1>11, <3>1
    <3>5. p[l] < j
      BY <1>6, <2>5, <3>2, <3>4 DEF SelectedFrom
    <3> HIDE DEF j
    <3> QED BY <1>1, <2>6, <3>3, <3>5
  <2>9. r.tokenBudget # Unset
    BY <1>10, <2>4, <1>11, <1>9 DEF Fitting
  <2>10. TokensOf(r, Append(reply, h)) > r.tokenBudget
    <3>1. ~(TokensOf(r, SubSeq(cut, 1, b + 1)) <= r.tokenBudget)
      BY <1>10, <2>4, <2>9 DEF Fitting
    <3>2. SubSeq(cut, 1, b + 1) = Append(reply, h)
      <4>0. h \in Hit
        BY <1>1, <2>6
      <4> HIDE DEF h
      <4>1. Append(reply, h) = reply \o <<h>>
        BY <1>13, <4>0, AppendIsConcat
      <4>2. SubSeq(cut, 1, b + 1) = SubSeq(cut, 1, (b + 1) - 1) \o <<cut[b + 1]>>
        <5>1. 1 \in 1 .. Len(cut) /\ b + 1 \in 1 .. Len(cut)
          BY <1>9, <2>5
        <5> QED BY <1>8, <5>1, SubSeqRecursiveSecond
      <4>3. (b + 1) - 1 = b
        BY <1>11
      <4> QED BY <1>12, <2>6, <4>1, <4>2, <4>3
    <3>3. Append(reply, h) \in Seq(Hit)
      <4>1. h \in Hit
        BY <1>1, <2>6
      <4> HIDE DEF h
      <4> QED BY <1>13, <4>1, AppendProperties
    <3> HIDE DEF h
    <3>4. TokensOf(r, Append(reply, h)) \in Nat
      BY <3>3, TokensAre
    <3>5. r.tokenBudget \in Int
      BY <2>9
    <3>6. ~(TokensOf(r, Append(reply, h)) <= r.tokenBudget)
      BY <3>1, <3>2
    <3> QED BY <3>4, <3>5, <3>6
  <2> QED BY <2>7, <2>8, <2>9, <2>10
<1>21. ASSUME NEW n \in Nat, TopRanked(hits, n) PROVE RanksKept(hits, n, reply)
  <2> SUFFICES ASSUME NEW i \in DOMAIN reply, NEW j \in DOMAIN reply,
                      i < j, j <= n, hits[j] = reply[j]
               PROVE  /\ reply[j].score = RankScore[reply[j].chunk]
                      /\ reply[i].score >= reply[j].score
    BY DEF RanksKept
  <2>1. i \in 1 .. b /\ j \in 1 .. b
    BY <1>13
  <2>2. /\ i \in 1 .. Len(good) /\ j \in 1 .. Len(good)
        /\ p[i] \in 1 .. Len(hits) /\ p[j] \in 1 .. Len(hits)
        /\ reply[i] = hits[p[i]] /\ reply[j] = hits[p[j]]
    BY <1>14, <1>15, <2>1
  <2>3. j \in 1 .. Len(hits)
    BY <1>1, <1>5, <1>7, <2>2
  <2>4. p[j] = j
    BY <1>1, <2>2, <2>3
  <2>5. p[i] < j
    BY <1>6, <2>2, <2>4 DEF SelectedFrom
  <2>6. p[i] \in DOMAIN hits /\ j \in DOMAIN hits
    BY <1>1, <2>2, <2>4
  <2> QED BY <1>21, <2>2, <2>4, <2>5, <2>6 DEF TopRanked
<1> QED BY <1>16, <1>17, <1>18, <1>19, <1>20, <1>21

-----------------------------------------------------------------------------
(* The handler's invariant.                                                *)

\* What a host attaches: searches that find each chunk at most once.
ServerOk(s) ==
    /\ s.maxK \in Nat
    /\ \A how \in {"rewritten", "sparse", "dense", "hybrid", "fused"} : HitsOk(s.finds[how])

RequestOk(r) ==
    /\ r.k \in Nat \cup {Unset} /\ r.topN \in Nat \cup {Unset}
    /\ r.candidateK \in Nat \cup {Unset} /\ r.tokenBudget \in Int \cup {Unset}

\* A retrieve that was not refused, and its parameters.
Begun(srv, ask, par) ==
    /\ ask.method = "retrieve" /\ "retrieve" \notin srv.hooks
    /\ par.k = AtMost(Given(ask.k, 10), srv.maxK)
    /\ par.k \in Nat /\ par.topN \in Nat /\ par.candidateK \in Nat

\* Its hits, ranked only by a reranker that works.
RanksOf(ask, works, par, hits, ranked) ==
    /\ HitsOk(hits)
    /\ ranked => ask.rerank # "no" /\ works /\ TopRanked(hits, par.topN)

RetrieveInv ==
    /\ ServerOk(hSrv) /\ RequestOk(hAsk)
    /\ hPc = "received" => ~hRanked
    /\ hPc = "recall" => Begun(hSrv, hAsk, hParams) /\ ~hRanked
    /\ hPc = "finish" => /\ Begun(hSrv, hAsk, hParams)
                         /\ RanksOf(hAsk, Reranker = "works", hParams, hHits, hRanked)
    /\ Replied => /\ Begun(hSrv, hAsk, hParams)
                  /\ RanksOf(hAsk, Reranker = "works", hParams, hHits, hRanked)
                  /\ hRanked <=> hAsk.rerank # "no" /\ Reranker = "works"
                  /\ hReply = Budgeted(hAsk, Trimmed(hAsk, hHits, hParams.k))

\* What is refused for want of a part is not advertised.
RefusalsHonest ==
    ~HookAlone(hSrv) /\ hPc = "refused" =>
       /\ hReply = "CapabilityMissing" => hAsk.method \notin Advertised(hSrv)
       /\ hReply = "OptionUnsupported" => hAsk.mode \notin Advertised(hSrv)
       /\ hAsk.method = "embed" /\ hSrv.embedder = "none" => "embed" \notin Advertised(hSrv)

HandlerInv == RetrieveInv /\ RefusalsHonest

\* The methods other than retrieve.
OtherMethod ==
    \/ RerankMethod \/ Transform \/ Embed \/ EmbedSparse \/ EmbedMulti
    \/ GraphMethod \/ MemoryBuild \/ MemoryRecall \/ IndexReadOnly \/ Feedback

LEMMA ParsedAre ==
    ASSUME NEW r, RequestOk(r), NEW maxK \in Nat
    PROVE  /\ Parsed0(r, maxK).k = AtMost(Given(r.k, 10), maxK)
           /\ Parsed0(r, maxK).k \in Nat
           /\ Parsed0(r, maxK).topN \in Nat
           /\ Parsed0(r, maxK).candidateK \in Nat
<1> DEFINE k == AtMost(Given(r.k, 10), maxK)
           topN == TopN(r, k)
           candidateK == Given(r.candidateK, AtLeast(topN, 4 * k))
<1>1. k \in Nat
  BY DEF RequestOk, Given, AtMost
<1>2. Parsed0(r, maxK) = [k |-> k, topN |-> topN, candidateK |-> candidateK]
  BY DEF Parsed0
<1> HIDE DEF k
<1>3. topN \in Nat
  <2>1. Given(r.topN, AtLeast(k, 10)) \in Nat
    BY <1>1 DEF RequestOk, Given, AtLeast
  <2> QED BY <1>1, <2>1 DEF TopN, AtLeast
<1> HIDE DEF topN
<1>4. candidateK \in Nat
  <2>1. 4 * k \in Nat
    BY <1>1
  <2>2. AtLeast(topN, 4 * k) \in Nat
    BY <1>3, <2>1 DEF AtLeast
  <2> QED BY <2>2 DEF RequestOk, Given
<1> HIDE DEF candidateK
<1> QED BY <1>1, <1>2, <1>3, <1>4 DEF k

LEMMA OthersEnd ==
    ASSUME OtherMethod
    PROVE  /\ hPc = "received" /\ hAsk.method # "retrieve" /\ hAsk.method \notin hSrv.hooks
           /\ hPc' \in {"replied", "refused"}
           /\ UNCHANGED <<hSrv, hAsk, hParams, hHits, hRanked>>
<1>1. CASE RerankMethod
  BY <1>1 DEF RerankMethod, Received, Refused, Answered
<1>2. CASE Transform
  BY <1>2 DEF Transform, Received, Refused, Answered
<1>3. CASE Embed
  BY <1>3 DEF Embed, Received, Refused, Answered
<1>4. CASE EmbedSparse
  BY <1>4 DEF EmbedSparse, Received, Refused, Answered
<1>5. CASE EmbedMulti
  BY <1>5 DEF EmbedMulti, Received, Refused, Answered
<1>6. CASE GraphMethod
  BY <1>6 DEF GraphMethod, Received, Refused, Answered
<1>7. CASE MemoryBuild
  BY <1>7 DEF MemoryBuild, Received, Refused, Answered
<1>8. CASE MemoryRecall
  BY <1>8 DEF MemoryRecall, Received, Refused, Answered
<1>9. CASE IndexReadOnly
  BY <1>9 DEF IndexReadOnly, Received, Refused, Answered
<1>10. CASE Feedback
  BY <1>10 DEF Feedback, Received, Refused, Answered
<1> QED BY <1>1, <1>2, <1>3, <1>4, <1>5, <1>6, <1>7, <1>8, <1>9, <1>10 DEF OtherMethod

LEMMA RetrieveStep ==
    ASSUME TextsOk, RetrieveInv, HandlerNext
    PROVE  RetrieveInv'
<1>0. ServerOk(hSrv) /\ RequestOk(hAsk)
  BY DEF RetrieveInv
<1>1. CASE Hooked
  BY <1>0, <1>1 DEF Hooked, Answered, RetrieveInv, Replied
<1>2. CASE ParseRetrieve
  <2>0. hPc = "received" /\ hAsk.method = "retrieve" /\ "retrieve" \notin hSrv.hooks /\ ~hRanked
    BY <1>2 DEF ParseRetrieve, Received, RetrieveInv
  <2>1. CASE hPc' = "refused" /\ UNCHANGED <<hSrv, hAsk, hParams, hHits, hRanked>>
    BY <1>0, <2>1 DEF RetrieveInv, Replied
  <2>2. CASE /\ hParams' = Parsed0(hAsk, hSrv.maxK) /\ hPc' = "recall"
             /\ UNCHANGED <<hSrv, hAsk, hHits, hRanked, hReply>>
    <3>1. hSrv.maxK \in Nat
      BY <1>0 DEF ServerOk
    <3>2. /\ hParams'.k = AtMost(Given(hAsk.k, 10), hSrv.maxK)
          /\ hParams'.k \in Nat /\ hParams'.topN \in Nat /\ hParams'.candidateK \in Nat
      BY <1>0, <2>2, <3>1, ParsedAre
    <3>3. Begun(hSrv, hAsk, hParams')
      BY <2>0, <3>2 DEF Begun
    <3> QED BY <1>0, <2>0, <2>2, <3>3 DEF RetrieveInv, Replied
  <2> QED BY <1>2, <2>1, <2>2 DEF ParseRetrieve, Refused
<1>3. CASE Recall
  <2>0. hPc = "recall" /\ Begun(hSrv, hAsk, hParams) /\ ~hRanked
    BY <1>3 DEF Recall, RetrieveInv
  <2>1. \A how \in {"rewritten", "sparse", "dense", "hybrid", "fused"} :
           HitsOk(hSrv.finds[how]) /\ HitsOk(Kept(hAsk, hSrv.finds[how]))
    <3> TAKE how \in {"rewritten", "sparse", "dense", "hybrid", "fused"}
    <3> DEFINE found == hSrv.finds[how]
    <3>1. HitsOk(found)
      BY <1>0 DEF ServerOk
    <3> HIDE DEF found
    <3>2. HitsOk(Kept(hAsk, found))
      <4> DEFINE S == {i \in DOMAIN found : FilterKeeps(hAsk.filter, found[i].chunk)}
      <4>1. S \in SUBSET DOMAIN found
        OBVIOUS
      <4>2. Kept(hAsk, found) = Selected(found, S)
        BY DEF Kept
      <4> HIDE DEF S
      <4> QED BY <3>1, <4>1, <4>2, PickedOk
    <3> QED BY <3>1, <3>2 DEF found
  <2>2. CASE hPc' = "refused" /\ UNCHANGED <<hSrv, hAsk, hParams, hHits, hRanked>>
    BY <1>0, <2>2 DEF RetrieveInv, Replied
  <2>3. CASE \E hits : HitsOk(hits) /\ Recalled(hits)
    <3>1. PICK hits : HitsOk(hits) /\ Recalled(hits)
      BY <2>3
    <3>2. hParams.candidateK \in Nat
      BY <2>0 DEF Begun
    <3>3. HitsOk(hHits')
      BY <3>1, <3>2, HeadOk DEF Recalled
    <3> QED BY <1>0, <2>0, <3>1, <3>3 DEF Recalled, RetrieveInv, RanksOf, Replied
  <2>4. \/ hPc' = "refused" /\ UNCHANGED <<hSrv, hAsk, hParams, hHits, hRanked>>
        \/ \E hits : HitsOk(hits) /\ Recalled(hits)
    <3>1. CASE Rewrites /\ Recalled(hSrv.finds.rewritten)
      BY <2>1, <3>1
    <3>2. CASE ~Rewrites /\ hAsk.mode = "sparse" /\ Recalled(hSrv.finds.sparse)
      BY <2>1, <3>2
    <3>3. CASE Recalled(Kept(hAsk, hSrv.finds.dense))
      BY <2>1, <3>3
    <3>4. CASE Refused("BackendUnavailable")
      BY <3>4 DEF Refused
    <3>5. CASE Recalled(Kept(hAsk, hSrv.finds[IF hAsk.fusion = "" THEN "hybrid" ELSE "fused"]))
      <4> DEFINE how == IF hAsk.fusion = "" THEN "hybrid" ELSE "fused"
      <4>1. how \in {"rewritten", "sparse", "dense", "hybrid", "fused"}
        OBVIOUS
      <4>2. Recalled(Kept(hAsk, hSrv.finds[how]))
        BY <3>5
      <4> HIDE DEF how
      <4> QED BY <2>1, <4>1, <4>2
    <3> QED BY <1>3, <3>1, <3>2, <3>3, <3>4, <3>5 DEF Recall
  <2> QED BY <2>2, <2>3, <2>4
<1>4. CASE Rerank
  <2>0. /\ hPc = "finish" /\ hAsk.rerank # "no" /\ Reranker = "works"
        /\ hHits' = RerankTop(hHits, hParams.topN) /\ hRanked' = TRUE
        /\ UNCHANGED <<hSrv, hAsk, hPc, hParams, hReply>>
    BY <1>4 DEF Rerank
  <2>1. Begun(hSrv, hAsk, hParams) /\ HitsOk(hHits)
    BY <2>0 DEF RetrieveInv, RanksOf
  <2>2. hParams.topN \in Nat
    BY <2>1 DEF Begun
  <2>3. HitsOk(hHits') /\ TopRanked(hHits', hParams.topN)
    BY <2>0, <2>1, <2>2, RerankTopIs
  <2>4. Reranker' = Reranker
    BY <2>0 DEF Reranker
  <2> QED BY <1>0, <2>0, <2>1, <2>3, <2>4 DEF RetrieveInv, RanksOf, Replied
<1>5. CASE Finish
  <2>0. /\ hPc = "finish" /\ ~Reranks
        /\ hReply' = Budgeted(hAsk, Trimmed(hAsk, hHits, hParams.k)) /\ hPc' = "replied"
        /\ UNCHANGED <<hSrv, hAsk, hParams, hHits, hRanked>>
    BY <1>5 DEF Finish, Answered
  <2>1. /\ Begun(hSrv, hAsk, hParams)
        /\ RanksOf(hAsk, Reranker = "works", hParams, hHits, hRanked)
    BY <2>0 DEF RetrieveInv
  <2>2. hRanked <=> hAsk.rerank # "no" /\ Reranker = "works"
    BY <2>0, <2>1 DEF Reranks, RanksOf
  <2>3. Reranker' = Reranker
    BY <2>0 DEF Reranker
  <2> QED BY <1>0, <2>0, <2>1, <2>2, <2>3 DEF RetrieveInv, Replied
<1>6. CASE OtherMethod
  <2>1. /\ hAsk.method # "retrieve" /\ hPc' \in {"replied", "refused"}
        /\ UNCHANGED <<hSrv, hAsk, hParams, hHits, hRanked>>
    BY <1>6, OthersEnd
  <2> QED BY <1>0, <2>1 DEF RetrieveInv, Replied
<1> QED BY <1>1, <1>2, <1>3, <1>4, <1>5, <1>6 DEF HandlerNext, OtherMethod

LEMMA RefusalStep ==
    ASSUME RetrieveInv, RefusalsHonest, HandlerNext
    PROVE  RefusalsHonest'
<1>1. CASE hPc' # "refused"
  BY <1>1 DEF RefusalsHonest
<1>2. CASE hPc' = "refused"
  <2>1. CASE ParseRetrieve
    <3>1. /\ hAsk.method = "retrieve" /\ UNCHANGED <<hSrv, hAsk>>
          /\ hReply' \in {"InvalidParams", "OptionUnsupported"}
          /\ hReply' = "OptionUnsupported" => hAsk.mode = "sparse" /\ ~hSrv.splade
      BY <1>2, <2>1 DEF ParseRetrieve, Received, Refused
    <3>2. ~hSrv.splade => "sparse" \notin Advertised(hSrv)
      BY DEF Advertised, Offers
    <3> QED BY <3>1, <3>2 DEF RefusalsHonest
  <2>2. CASE Recall
    <3>1. UNCHANGED <<hSrv, hAsk>> /\ hReply' = "BackendUnavailable"
      BY <1>2, <2>2 DEF Recall, Recalled, Refused
    <3>2. hAsk.method = "retrieve"
      BY <2>2 DEF Recall, RetrieveInv, Begun
    <3> QED BY <3>1, <3>2 DEF RefusalsHonest
  <2>3. CASE RerankMethod
    <3>1. /\ hAsk.method = "rerank" /\ "rerank" \notin hSrv.hooks /\ UNCHANGED <<hSrv, hAsk>>
          /\ hReply' \in {"CapabilityMissing", "InvalidParams", "BackendUnavailable"}
          /\ hReply' = "CapabilityMissing" => hSrv.reranker = "none" /\ hSrv.colbert = "none"
      BY <1>2, <2>3 DEF RerankMethod, Received, Refused, Answered, Reranker
    <3>2. "rerank" \in Advertised(hSrv) =>
             hSrv.reranker # "none" \/ hSrv.colbert # "none" \/ "rerank" \in hSrv.hooks
      BY DEF Advertised, Offers
    <3> QED BY <3>1, <3>2 DEF RefusalsHonest
  <2>4. CASE Transform
    <3>1. /\ hAsk.method = "transform" /\ "transform" \notin hSrv.hooks /\ UNCHANGED <<hSrv, hAsk>>
          /\ hReply' \in {"CapabilityMissing", "InvalidParams", "BackendUnavailable"}
          /\ hReply' = "CapabilityMissing" => hSrv.generator = "none"
      BY <1>2, <2>4 DEF Transform, Received, Refused, Answered
    <3>2. "transform" \in Advertised(hSrv) =>
             hSrv.generator # "none" \/ "transform" \in hSrv.hooks
      BY DEF Advertised, Offers
    <3> QED BY <3>1, <3>2 DEF RefusalsHonest
  <2>5. CASE Embed
    <3>1. /\ hAsk.method = "embed" /\ "embed" \notin hSrv.hooks /\ UNCHANGED <<hSrv, hAsk>>
          /\ hReply' \in {"InvalidParams", "BackendUnavailable"}
      BY <1>2, <2>5 DEF Embed, Received, Refused, Answered
    <3>2. "embed" \in Advertised(hSrv) =>
             hSrv.embedder # "none" \/ "embed" \in hSrv.hooks
      BY DEF Advertised, Offers
    <3> QED BY <3>1, <3>2 DEF RefusalsHonest
  <2>6. CASE EmbedSparse
    <3>1. /\ hAsk.method = "embed_sparse" /\ "embed_sparse" \notin hSrv.hooks
          /\ UNCHANGED <<hSrv, hAsk>>
          /\ hReply' \in {"CapabilityMissing", "InvalidParams"}
          /\ hReply' = "CapabilityMissing" => ~hSrv.splade
      BY <1>2, <2>6 DEF EmbedSparse, Received, Refused, Answered
    <3>2. "embed_sparse" \in Advertised(hSrv) =>
             hSrv.splade \/ "embed_sparse" \in hSrv.hooks
      BY DEF Advertised, Offers
    <3> QED BY <3>1, <3>2 DEF RefusalsHonest
  <2>7. CASE EmbedMulti
    <3>1. /\ hAsk.method = "embed_multi" /\ "embed_multi" \notin hSrv.hooks
          /\ UNCHANGED <<hSrv, hAsk>>
          /\ hReply' \in {"CapabilityMissing", "InvalidParams", "BackendUnavailable"}
          /\ hReply' = "CapabilityMissing" => hSrv.colbert = "none"
      BY <1>2, <2>7 DEF EmbedMulti, Received, Refused, Answered
    <3>2. "embed_multi" \in Advertised(hSrv) =>
             hSrv.colbert # "none" \/ "embed_multi" \in hSrv.hooks
      BY DEF Advertised, Offers
    <3> QED BY <3>1, <3>2 DEF RefusalsHonest
  <2>8. CASE GraphMethod \/ MemoryBuild \/ MemoryRecall
    <3>1. /\ hAsk.method \in {"graph", "memory_build", "memory_recall"}
          /\ UNCHANGED <<hSrv, hAsk>>
          /\ hReply' \in {"InvalidParams", "BackendUnavailable"}
      BY <1>2, <2>8 DEF GraphMethod, MemoryBuild, MemoryRecall, Received, Refused, Answered
    <3> QED BY <3>1 DEF RefusalsHonest
  <2>9. CASE IndexReadOnly
    <3>1. /\ hAsk.method \in {"index_add", "index_delete"} /\ hAsk.method \notin hSrv.hooks
          /\ ~hSrv.writable /\ UNCHANGED <<hSrv, hAsk>>
          /\ hReply' = "CapabilityMissing"
      BY <1>2, <2>9 DEF IndexReadOnly, Received, Refused
    <3>2. \A m \in {"index_add", "index_delete"} :
             m \in Advertised(hSrv) => hSrv.writable \/ "index_add" \in hSrv.hooks
      BY DEF Advertised, Offers
    <3>3. HookAlone(hSrv)' = HookAlone(hSrv)
      BY <3>1 DEF HookAlone
    <3>4. "index_add" \in hSrv.hooks => HookAlone(hSrv)
      BY <3>1 DEF HookAlone
    <3> QED BY <3>1, <3>2, <3>3, <3>4 DEF RefusalsHonest
  <2>10. CASE Hooked \/ Rerank \/ Finish \/ Feedback
    <3>1. hPc' = "replied" \/ (hPc = "finish" /\ hPc' = hPc)
      BY <2>10 DEF Hooked, Rerank, Finish, Feedback, Answered
    <3> QED BY <1>2, <3>1
  <2> QED BY <2>1, <2>2, <2>3, <2>4, <2>5, <2>6, <2>7, <2>8, <2>9, <2>10 DEF HandlerNext
<1> QED BY <1>1, <1>2

\* What the invariant says of a reply and of a refusal.
LEMMA InvariantAnswers ==
    ASSUME TextsOk, HandlerInv
    PROVE  RepliesHonest
<1>1. ReplyWithinAsk
  <2> SUFFICES ASSUME Replied PROVE ReplyWithinAsk
    BY DEF ReplyWithinAsk
  <2>1. /\ RequestOk(hAsk)
        /\ Begun(hSrv, hAsk, hParams)
        /\ RanksOf(hAsk, Reranker = "works", hParams, hHits, hRanked)
        /\ hRanked <=> hAsk.rerank # "no" /\ Reranker = "works"
        /\ hReply = Budgeted(hAsk, Trimmed(hAsk, hHits, hParams.k))
    BY DEF HandlerInv, RetrieveInv
  <2>2. /\ HitsOk(hHits) /\ hParams.k \in Nat /\ hParams.topN \in Nat
        /\ hAsk.tokenBudget \in Int \cup {Unset}
        /\ hRanked => TopRanked(hHits, hParams.topN)
        /\ hParams.k = AtMost(Given(hAsk.k, 10), hSrv.maxK)
    BY <2>1 DEF RequestOk, Begun, RanksOf
  <2>3. /\ Len(hReply) <= hParams.k
        /\ Cardinality(Chunks(hReply)) = Len(hReply)
        /\ \A i \in DOMAIN hReply : Good(hAsk, hReply[i])
        /\ hAsk.tokenBudget # Unset /\ Len(hReply) > 1 => TokensOf(hAsk, hReply) <= hAsk.tokenBudget
        /\ NoneMissing(hAsk, hHits, hParams.k, hReply)
        /\ \A n \in Nat : TopRanked(hHits, n) => RanksKept(hHits, n, hReply)
    <3>1. /\ HitsOk(hHits) /\ hParams.k \in Nat
          /\ hAsk.tokenBudget \in Int \cup {Unset}
          /\ hReply = Budgeted(hAsk, Trimmed(hAsk, hHits, hParams.k))
      BY <2>1, <2>2
    <3> QED BY <3>1, ReplyIs
  <2>4. hRanked => RanksKept(hHits, hParams.topN, hReply)
    BY <2>2, <2>3
  <2> QED BY <2>1, <2>2, <2>3, <2>4 DEF ReplyWithinAsk, NoneMissing, RanksKept
<1>2. CapabilitiesHonest
  <2>1. "rewrite" \in Advertised(hSrv) => hSrv.generator # "none" \/ "transform" \in hSrv.hooks
    BY DEF Advertised, Offers
  <2>2. "rerank" \in Advertised(hSrv) =>
           hSrv.reranker # "none" \/ hSrv.colbert # "none" \/ "rerank" \in hSrv.hooks
    BY DEF Advertised, Offers
  <2>3. ~HookAlone(hSrv) /\ "rewrite" \in Advertised(hSrv) /\ hAsk.rewrite # "" => Rewrites
    BY <2>1 DEF HookAlone, Rewrites
  <2>4. ~HookAlone(hSrv) /\ "rerank" \in Advertised(hSrv) => Reranker # "none"
    BY <2>2 DEF HookAlone, Reranker
  <2>5. RefusalsHonest
    BY DEF HandlerInv
  <2> QED BY <2>3, <2>4, <2>5 DEF CapabilitiesHonest, RefusalsHonest
<1> QED BY <1>1, <1>2 DEF RepliesHonest

\* Property RepliesHonest, for every server, every request and every length of
\* the lists (handler.hpp:375-422): a retrieve answers no more than it was
\* asked for and leaves out no good hit it had room for, a rerank that fails
\* changes nothing, and what is advertised is not refused for want of a part.
THEOREM RepliesAreHonest ==
    ASSUME NEW servers, NEW requests, TextsOk,
           \A s \in servers : ServerOk(s), \A r \in requests : RequestOk(r)
    PROVE  HandlerInit(servers, requests) /\ [][HandlerNext]_handlerVars => []RepliesHonest
<1>1. HandlerInit(servers, requests) => HandlerInv
  BY DEF HandlerInit, HandlerInv, RetrieveInv, RefusalsHonest, Replied
<1>2. HandlerInv /\ [HandlerNext]_handlerVars => HandlerInv'
  <2> SUFFICES ASSUME HandlerInv, [HandlerNext]_handlerVars PROVE HandlerInv'
    OBVIOUS
  <2>1. CASE HandlerNext
    BY <2>1, RetrieveStep, RefusalStep DEF HandlerInv
  <2>2. CASE UNCHANGED handlerVars
    BY <2>2 DEF handlerVars, HandlerInv, RetrieveInv, RefusalsHonest, Replied, Reranker
  <2> QED BY <2>1, <2>2
<1>3. HandlerInv => RepliesHonest
  BY InvariantAnswers
<1> QED BY <1>1, <1>2, <1>3, PTL
===============================================================================
