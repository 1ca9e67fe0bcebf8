# TLA+ models of rag-cpp

This directory holds TLA+ models of rag-cpp, the TLC configurations that check
them on small instances, and TLAPS proofs of what matters most for every value
of the constants. Paths such as `src/store/wal.cpp` and `include/rag/...` are
relative to the repository's root, which is `src/` from here.

Contents: [the system](#the-system), [modules](#modules), [the checks](#the-checks),
[bounds](#bounds), [fairness](#fairness), [proofs](#proofs),
[assumptions](#assumptions-about-the-environment), [findings](#findings),
[not modelled](#what-is-not-modelled), [plan](#plan).

## The system

rag-cpp is a retrieval library. Documents are cut into chunks, chunks are
indexed lexically (BM25) and as vectors (a flat matrix and an HNSW graph), a
query runs through a pipeline of retrieval, fusion and reranking, and a server
(RCP over stdio or HTTP) offers all of that to clients. A corpus lives in one
snapshot file, with an optional write-ahead log beside it.

| Component | State | Operations | Hard behaviour | Correct when |
|---|---|---|---|---|
| **Write-ahead log** `src/store/wal.cpp` | file descriptor, byte count, sync mode; the file itself | open, append, append_batch, replay, truncate, close | partial write, failed fsync in the middle of a group, crash between any two system calls, power loss that rolls the file back | an acknowledged record is on the device and replay returns it; a record never acknowledged does not harm others; the byte count does not miss one |
| **Snapshot container** `src/store/container.cpp` | sections by tag; the file, its temporary files | serialize, parse, write_file, sweep_orphan_temps, read_file | several processes saving to one path, crash or power loss between write, fsync, rename and directory fsync, reuse of process ids | a reader sees a whole old or whole new file; a reported save is never undone; a sweep removes all garbage and nothing else |
| **Corpus** `src/index/corpus.cpp` | documents, tombstones, chunks, BM25 postings, embeddings, packed matrix with its epoch, HNSW graph, log | add, add_documents, upsert, remove, build, search, save, load, open_wal, checkpoint | log and table must change together; caches keyed on flags and epochs; recovery by replay; over-fetch that makes up for tombstones | recovery gives the same table, ids included; every cache agrees with the table when it is read; k live hits whenever there are k |
| **RCP handlers** `include/rag/rcp/handler.hpp`, `convert.hpp` | engine, options, hooks | capabilities, retrieve, rerank, transform, embed/\*, graph, memory/\*, feedback, index/add, index/delete | a request of several documents fails half way; persist after a mutation; parts that are absent, fail or are replaced; the order of reranking, threshold, cut and budget | a success reply is true after any later crash; what is advertised is done; a reply keeps to what was asked |
| **Server, command line** `include/rag/rcp/server.hpp`, `cli/main.cpp` | the handler, a transport | serve, ingest, search | restart after a crash | requests run one after the other; a restart recovers before it serves |
| **HNSW** `src/index/hnsw.cpp` | nodes, layers, links (growing or sealed form), id map, superseded and deleted sets, quantised codes | add, build_batch, remove, compact, search, search_filtered, seal, unseal, serialize, deserialize | one id added, removed, added again; two forms of the links; a parallel build with waves | one live node for a live id, none for a removed one, through every operation and a save; links stay within the degree bounds and reach live nodes |
| **Vector store** `src/index/vector_store.cpp` | slots, id map, vectors, dead set, HNSW graph | add, remove, build, search, save, load | the arena and the graph change at different times; in-place save | the graph and the arena give the same live ids |
| **BM25** `src/lexical/bm25.cpp` | postings, lengths, idf and block maxima | add, finalize, search | statistics that are stale between add and finalize | a query sees every chunk added before it |
| **Embedders** `include/rag/dense/backends.hpp`, `src/dense/*` | a model in this process, a server or a remote peer; decorators that retry and fall back | embed | a backend that fails in several ways, answers short; nested decorators | an answer is of the texts that were asked; a tree with a part that always answers never fails for a transient cause |
| **Bridge** `include/rag/bridge/*`, `src/bridge/*` | a peer and its pipe, the buffer of what was read past a line | call | the peer dies in mid-line, a write fails half way; lines carry no number | an answer belongs to its request |
| **Plugins** `include/rag/plugin/*`, `src/plugin/*` | factories by name, loaded libraries, the host's IO | register, create, load_plugin_dir | nested specifications, names registered over | a name resolves to what was registered last |
| **Caches** `include/rag/cache/cache.hpp`, `CachingReranker` | a list and a map of entries | get, put, clear; a rerank that looks up, asks and fills | capacity: an entry leaves while a rerank is under way | list and map are one another's image, the scores are the model's own |
| **Parallel loops** `include/rag/util/parallel.hpp` | none | parallel_for, parallel_blocks, parallel_for_strided | rounding of the shares, shares that are empty or begin past the end | every index exactly once |
| **Pipeline, fusion, rerankers** `src/pipeline`, `src/fusion`, `src/rerank` | a context threaded through stages: pool, lists, candidates | hybrid, feedback, filter, rerank, MMR, dartboard, autocut, dedup, stitch, cut | widths that must grow with k, ties, folding of neighbours, an embedder that is absent or offline | k results where there are k; agreement of the lists is kept; a fold loses nothing and is complete |
| **Graph retrieval** `src/graph/graph.cpp`, `include/rag/engine.hpp` | the document graph, communities, the cache by document count | build, local and global search | propagation in place, the cache after adds and deletes | communities are connected and settled; the graph covers what was added |
| **RAPTOR** `src/raptor/raptor.cpp` | nodes by level | build, retrieve | summaries and embeddings that fail, clusters that are too small | a forest over the chunks that loses none |
| **Strategies** hyde, crag, ralm, colbert, cascade | per call | one search around models | each model may fail, answer nothing or answer short | a failure degrades the result and does not lose it |
| **SPLADE** `src/sparse/splade.cpp` | impacts, co-occurrence graph, configuration, tokenizer | build, search, serialize, deserialize | the blob keeps part of it | what is stored is found after a reload |
| **Loaders, chunkers** `src/loaders`, `src/text` | per call | walk a directory, detect, extract, cut | one bad file among many, nested tables, hidden markup, cut streams, boundaries that collide | every file is accounted for, text comes through whole and in order, no line is lost |
| **Rest** eval, pq, gpu, C interface | per call | formulas, numeric kernels, forwarding | none that interleaves | out of a model checker's reach for the most part |

How they interact. The corpus calls the log before it changes its table, and
reads it only in `open_wal()`; `save()` writes a container; `checkpoint()` is a
save followed by a truncation of the log. The RCP handlers call the corpus for
every document of a request, build, and then persist. Nothing here takes a lock
around the corpus: it has one owner at a time, and requests are served one after
the other. What does interleave: the steps of a call with a crash, a power loss
or a failing system call; several processes that save to one path; the workers
of the parallel loops; and a client with a server that restarts.

## Modules

| Module | Models | Composes |
|---|---|---|
| `Wal` | the log: one file, one owner | |
| `Wal_proofs` | theorems about `Wal` | extends `Wal` |
| `AtomicFile` | what `write_file()` promises: a register | |
| `SnapshotFile` | `write_file()` and `sweep_orphan_temps()` in several processes | implements `AtomicFile` |
| `SnapshotFile_proofs` | theorems about `SnapshotFile`, the implementation of `AtomicFile` among them | extends `SnapshotFile` |
| `DurableCorpus` | document table, log, snapshot and RCP handlers: what an acknowledgement is worth | an instance of `Wal`; takes from `SnapshotFile` that a save is one atomic, durable step |
| `DurableCorpus_proofs` | theorems about `DurableCorpus` | extends `DurableCorpus`, an instance of `Wal_proofs` |
| `Hnsw` | the graph index as operators on a record | |
| `Waves` | the workers of a wave of `build_batch()` | extends `Hnsw` |
| `VectorMap` | what a vector store promises: a map from ids to vectors, and a file | |
| `VectorStore` | the vector database: arena, graph and file | extends `Hnsw`; implements `VectorMap` |
| `VectorStore_proofs` | theorems about `VectorStore`, the implementation of `VectorMap` among them, `Waves` and `Shares` | extends these and `Orders_proofs` |
| `CorpusIndex` | chunks and what is derived from them: lazy repairs, builds, searches, save and load | |
| `Wand` | BM25's block-max WAND search against the exhaustive one | |
| `Fusion` | the four fusions as operators | extends `Sums`, `Selections` |
| `Rerankers` | the selections of MMR and dartboard, the cut at the elbow, near-duplicates, neighbours, as operators | extends `Fusion` |
| `Pipeline` | a query through the stages of every shipped composition | extends `Rerankers` |
| `DocGraph` | the document graph, its communities and searches, the engine's cache of it | |
| `Raptor` | the tree of summaries as it is built | |
| `Strategies` | cascade, HyDE, multi-query, REPLUG, RETRO, in-context, corrective retrieval | extends `Fusion` |
| `Splade` | the sparse index with its blob | |
| `Chunking` | the chunkers of text, code, unknown structure and sentences | |
| `Inflate` | the DEFLATE decoder | |
| `Office` | documents in ZIP containers | |
| `Markup` | HTML, RTF and CSV as readers of symbols and events | |
| `Extraction` | from a directory of files to documents | extends `Markup` |
| `Cache` | the LRU cache and the reranker that scores through it | |
| `Shares` | how a parallel region is split and run | |
| `Backends` | embedders built from a specification, and the calls through them to a peer | |
| `Handler` | the RCP methods that do not write, and what a server advertises | extends `Selections` |
| `Sums` | the sum and the product of an operator over a set | |
| `Selections` | parts of lists: sorting, cutting, the part at a set of places | |
| `Search_proofs` | theorems about `Wand`, `DocGraph`, `Splade`, `Raptor` and `Strategies` | extends these and `Orders_proofs` |
| `Serving_proofs` | theorems about `CorpusIndex`, one for each of its properties, `Cache` and `Handler` | extends these and `Orders_proofs` |
| `Components_proofs` | theorems about `Pipeline`, `Chunking` and `Extraction` | extends these and `Orders_proofs` |
| `Orders_proofs` | lemmas that several of the proofs need: induction, orders of finite sets, lists, sums | |
| `MCSearch`, `MCIngest`, `MCServing`, `MCHandler` | small inputs for the modules from `Wand` to `Handler` | |
| `MCComponents` | those modules side by side, one run | extends the three |
| `MC*` | the instances TLC checks (`CorpusIndex` needs none: `CorpusIndex.cfg`) | |

### `Wal` and the code

`file` is the log as the kernel holds it, `stable` what the device is known to
hold. A frame is its record and whether all its bytes are there. `bytes` is
`bytes_`, counted in frames. A call is four steps: `StartAppend` (frames are
encoded), one `WriteFrame` per frame the `write()` loop gets through, then
`SyncOk` or `SyncError`; `WriteError` leaves the loop at any frame, cut inside a
frame or between two, and leaves what it wrote in the file, as the code does.
`append()` is the group of one. `truncate()` is `StartTruncate` followed by its
sync. `Open` is `open_wal()`'s replay followed by `Wal::open()`, which positions
at the end of the file whatever replay skipped. `Crash` keeps the file;
`PowerLoss` picks from `PowerLossImages` (at least what the last sync covered,
then any prefix of the rest, the last frame perhaps torn; or the old log when a
truncation was not synced).

Frames are counted, not bytes: torn means any proper prefix. Behind a buried
fragment `replay()` either stops or reports corruption; which one depends on
lengths the model leaves out (`MayFailReplay`).

### `SnapshotFile` and the code

Each process is at one place of `write_file()` (`pc`). `temps` are the temporary
files in the directory by name, a name being the process id and a random part;
`dest` is the file at the destination and `possible` the files a power loss may
leave there, which a directory sync reduces to one. The actions follow the code
line by line: `Create`, `Write`, `Sync`, `Rename`, `SyncDir`, then the sweep,
whose test of the owner (`Look`) and removal (`Remove`) are two steps because
other processes run in between. `Abandon` is every error return. `Die` leaves the temporary file
behind; `Start` gives the same id to a new process. `dirSync` says whether the
file system can sync directories; the code treats that sync as best effort.

`AtomicFile` is the promise: a save replaces the whole value at once or changes
nothing, and a power loss brings back at most a value whose replacement was not
settled. The refinement mapping reads the destination (`Read`: the image of a
whole file, `Corrupt` for one that fails the checksum).

### `DurableCorpus` and the code

`mem` is the document table: documents in order of their ids, and tombstones. A
document is its uri and the number of the write that made it. `snap` is the
snapshot file. A request is a list of items in `todo`: RCP index/add (an upsert
per document, which is a logged remove and a logged add), the library's
`add_document()`/`add_documents()` (one group commit), RCP index/delete.
Each logged mutation is `StartLog`, `WriteLog`..., then `Apply` (sync, then the
table changes) or `ApplyFails` (the table stays). What the callers do with an
error is the code's: `upsert_document()` and `index_delete()` ignore that of a
remove, `index_add` stops at the first error and leaves the documents before it.
Then `Build`, and `persist()`: nothing, a save, or a checkpoint by the size of
the log. `Restart` is `cmd_serve`: load the snapshot, replay the log onto it
(adds as upserts, removes by their recorded id), open the log. The server with
no log (`logged = FALSE`) saves after every request.

`promise` is history: for each uri the sets of live writes a client may expect.
A success reply makes it a single set, a request that is running or failed widens
it. `next`, `settled`, `ghost` and `upto` are history too.

### `Hnsw`, `VectorStore` and the code

A graph is a record whose fields are those of `HnswIndex`: `nodes` (id, vector,
superseded), `links` (per node and layer, the growing form), `csr` (per layer and
node, the sealed form), `top` and `entry`, `deleted`, `ords` and `indexed` (the lazy map
from ids to nodes), and the numbers of rows in the float arena (`floats`)
and in its quantised mirror (`codes`). Nodes are counted from 1. `Add`, `BuildBatch`, `Remove`,
`Compact`, `Seal`, `Unseal`, `Search`, `Serialize` and `Deserialize` are the methods of these
names. A wave of `build_batch()` is one step (`LinkWave`): its nodes search the graph as
it is before any of them is linked, and back-links are grouped by the neighbour that
takes them. That its workers never see each other is what `Waves` shows.

`undefined` becomes true when the code reads or writes outside its arrays: a link to
a layer that a node does not have, a walk over float rows that were dropped.
What a build does then is anything; the model keeps the fact and stops using the graph, and `Crash` is
one of the outcomes.

`arena` is the list of rows, `built` says whether the graph is in use, `disk` is the file.
`AddRow` and `Replace` are `add()`, `RemoveRow` is `remove()`, and `Find` is what a search
changes: it seals the graph. `Save` compacts and truncates the file, `Written` is
the write that may be cut short; between the two the file is torn. `Load`
takes the rows and the graph of a whole file. The owner of a store serializes its calls, as
`vector_store.hpp` asks for.

Vectors are points whose mutual distances all differ, so there are no ties to
break; scores are only compared. Levels are chosen freely where the code draws them.
Product quantisation, the binary and matryoshka codes and the arithmetic of
scores are left out; the SQ8 codes are present or absent.

**`Waves`.** The second phase of `build_batch()` with a step for each search of a share (`SearchFor`), for the
serial part between the two parallel loops (`ApplyOwn`: own links, entry, the sorted links back and their groups) and, for each group,
one for reading a list and one for writing it (`ReadList`, `WriteList`), in any order, which includes every split the host may choose. It uses `Hnsw` for the
walk, the choice of links and the staging; `BuildIsSerial` compares the end with `BuildBatch`, and asks that no two workers have one list.

### `CorpusIndex` and the code

`docs`, `deleted` and `chunks` are `docs_`, `deleted_docs_` and `chunks_`; a chunk is its
document, whether the tokenizer found any term in it, and the dimension of its embedding (0
for none). Four structures are derived from them and repaired by the first reader that needs
them: `linked` are the chunks whose `meta` pointer points into `docs_` (`meta_stale_` says when
to relink; growing `docs_` may move the documents or not), `weighed` the postings with a
precomputed weight (`finalized_`), `graph` the nodes, tombstones and form of `hnsw_`, and `matrix`
the packed embeddings, `current` while `packed_valid_` holds and `packed_epoch_ = epoch_`. The
epoch itself is not a variable: it only grows, so "stamped with the current epoch" is all that is
ever asked of it (`Outdate`).

`Add`, `Remove`, `Move`, `Save`, `Load`, `Explain`, `LexicalSearch` and `DenseSearch` are the
methods of these names, as they are after a log that is not open (`DurableCorpus` has the log);
`Relink` is every accessor that only relinks. A build is `StartBuild`, then its batches in any
order the workers allow, each `EmbedBatch` (the embedder may answer with fewer vectors than it
was asked for, and in another dimension than before) or `EmbedFails` (the worker's share skips the rest), then
`BuildFails` or `BuildOk`. A hybrid search is `StartHybrid`, which runs `prepare_read()`, and the two
arms. `DenseFound` and `BatchFound` are the chunks a search by vector can return and
`Tops` those BM25 can answer with before removed documents are dropped; which of them come first is a matter of scores.

Left out: the metadata filter, which can only remove hits; the order of hits; the query's
own dimension; a graph's recall (`Hnsw` has that), so that a search in a graph is taken to reach all its nodes. `behind`
is history: a build failed after it had stored some embeddings, and nothing has been built
since. Such chunks are in neither the graph nor a matrix packed before
(`src/index/corpus.cpp:258` returns before the graph and the epoch move), a case the comment at
`include/rag/index/corpus.hpp:288-291` does not list; `CachesCurrent` and `DenseFull` except it by name.

### The query path and the code

**`Wand`.** A term's postings are the documents it occurs in; the product of idf, query
frequency and precomputed weight is one number per posting. The cursors, the heap and the
threshold are the variables; an iteration of the loop of `search_wand()` is `WandStop`,
`WandPrune` (the block bound of the aligned cursors cannot reach the threshold), `WandScore` or
`WandAlign`, with `SkipTo` as in the code. `NothingLost` compares with `Exhaustive`, the path
`search()` takes below the WAND threshold. Sums of floats are sums of integers.

**`Fusion`, `Rerankers`, `Pipeline`.** A corpus is what the stages look at: the terms of each chunk, the
place of its embedding on a line, its document and its lines. `stages` is the rest of the
composition, and each stage one action on the candidates (`cands`); `fetched` and `ranked` are history, the
candidates as retrieved and as last scored. Scores that the code divides are brought to a
common denominator. The compositions are the shipped ones.

**`DocGraph`.** A document is its number; similarities are small integers and a link counts
`LinkWeight`. `Engine::graph()` is a build of several steps (`BuildGraph`, one round of label propagation
each), reused while the number of documents is the same. The mass of the personalised PageRank is
abstracted to the set of documents it reaches. Removal does not change the
number of documents, so the graph keeps what was removed; that it misses nothing that was added is `GraphCoversAdded`.

**`Raptor`, `Strategies`, `Splade`.** A node's embedding is a place on a line and its parent's the
mean of its children's; an action is one level. A strategy is a plan of inputs and of the models that work
or fail; its steps are the calls in the order of the code. The cascade and ColBERT sort stably; corrective retrieval does not (`std::sort`, `src/crag/crag.cpp:82`), so the order of equal grades
is left open (`Sorts`). In `Splade` impacts are
integers in the order of the code's logarithms, terms that weigh no more than `MinWeight` are left out of vectors and queries as the code leaves them out, the blob keeps neither the configuration nor the tokenizer, and a
load rebuilds the postings from the vectors.

### Ingestion and the code

**`Chunking`.** A line is its kind; what the chunkers look at (first word, indent, size, role) is a
table of constants. The windows with their overlap, the breadcrumb, the claim of the
comments above a definition, the inference of a structure from what repeats, and the breakpoints of the semantic chunker are
the code's; the overlap's and the sizes' units are lines and small numbers.

**`Inflate`.** A small alphabet (two bytes, an end, two copies) with canonical tables built as the code
builds them. A stream is what a writer meant, encoded by the model's own writer and possibly cut, or noise bits.
Each step reads a block header or one symbol. `InflateInverts` is that decoding inverts encoding.

**`Office`, `Markup`, `Extraction`.** A document is the tree its writer saw (paragraphs, tables, cells, parts, references; words, blocks,
hidden elements) and the reader works on the events it is written as. `Extraction` is the recursive walk flattened to one entry a
step, with what `extract_bytes()` and `extract_file()` decide from the extension, the first bytes, zero bytes, size and
converters. A hollow element, one closed in its own tag, is known to lose text and excepted by name (`HasHollow`).
The HTML reader works on symbols: `<`, `>`, `/`, a tag's name, a word. As in `html_to_text()` (`src/loaders/loaders.cpp:37-61`) a `<` opens a tag that runs to the next `>`, whatever
is between and also inside an element that is skipped, and one without a `>` ends the text. So three things that HTML allows are misread: a `<` in a script with no `>` of its own, which takes the
script's end tag for its own text, so that everything up to the end of a later script, or of the file, is lost; a `>` in a comment, behind which the rest of the comment is shown; and a lone `<` in the text. They are among the inputs, named by `Misread`, and `TextSurvives` holds
what it says of a body up to the first of them (`SoundItems`): the text before is exact, what comes behind may be lost, and nothing hidden is shown unless it is a comment or a lone `<` that was misread. A `<` and `>` that happen to pair in a script, and a comment without `>`, are read rightly, and `TextSurvives` covers them.

### Serving and the code

**`Cache`.** `order` is the list, `map` the map, `recent` the history of uses without bound. A rerank is `Ask`,
one `LookUp` per passage, `AskModel`, one `Fill` per miss: `rerank_cached` keeps no snapshot, so a fill evicts what a
later look-up of the next call might have had. Several rerankers share the cache.

**`Shares`.** A region is a loop, a length and a width; the splitter runs the shares in any order. `Underflows` is a block that begins past the end:
`hi - lo` wraps, and the one caller of `parallel_blocks` reserves that many hits (`src/index/corpus.cpp:607-609`), so the share throws and
nothing more runs. It happens from 513 rows and 32 workers on; the header (`parallel.hpp:71`) says that the body gets contiguous blocks.

**`Backends`.** A plan is the specification (a list of components that name one another by place), the host's IO and the
plugin directory; `Build` is `create_from`. A call is a stack of frames, one for each decorator it is in; `Descend` asks the part
inside, `PassUp` returns a reply to the frame below. A line channel has its buffer, the peer's pipe and `alive_`: `WriteLine`, `ReadLine` (any piece of the pipe at
a time), and the peer answers anything or dies between two lines or inside one.

**`Handler`.** A server is a record of the parts attached and of what its engine would find; a request a record of options. A retrieve is
`ParseRetrieve`, `Recall`, `Rerank` (or not), `Finish`; every other method is one action with its refusals. A filter is a list of nodes.
`Advertised` is `capabilities()`.

### One run for the parts

`MCComponents` puts these modules side by side: a behaviour chooses one (`part`), gives it an input of its set and runs it, while the others rest where their
smallest input leaves them. They share no state in the code either: where one calls another (the handler an engine, a strategy a
corpus), the callee's outcomes are inputs of the caller. The parts that do share state are composed in modules of their own: `DurableCorpus` with `Wal`,
`VectorStore` with `Hnsw`, `CorpusIndex` with its arms.

## The checks

| Run | Instance | States | Shows |
|---|---|---|---|
| `wal` | 2 records, groups up to 2, 4 frames | 701,750 | `AckedReplayed`, `AckedDurable`: every acknowledged record is in the log and on the device through every failure, and replay returns it unless a fragment is buried; `SizeCoversAcked`: the checkpoint signal never misses one |
| `wal_torn` | the same | | without that condition it fails, see the findings |
| `snapshot` | 2 process ids, 3 saves | 47,866 | `NeverTorn`, `ReportedIsDurable`, `LiveTempKept` (no sweep takes the file of a running save, even under a reused id), `OrphansSwept` (every orphan is removed in the end), `IsRegister` (implements `AtomicFile`) |
| `durability` | 2 uris, 3 writes, requests of up to 2, checkpoint at 2 frames, every fault | 162,709 | `AckedWritesSurvive`: a restart at any moment serves what clients were told; `ReplayIsExact`: it rebuilds the very table that was lost, ids included |
| `checkpoint_crash` | 1 uri, crashes only | | `NothingResurrected` fails between the save and the truncate of a checkpoint |
| `upsert_crash` | 1 uri, crashes only | | `AckedWritesIntact` fails between the two records of an upsert |
| `vectors` | 2 ids, 4 vectors, 4 writes, levels 0 and 1, 1 save | 111,632 | `LinksSound` (degree bounds, links only to nodes of the layer), `GraphAgrees` (graph and arena hold the same live vectors, one node each), `AnswersAreBest` (a wide search answers the best within reach), `UndefinedOnlyThere` (the code leaves its arrays in two situations only), `IsMap` (implements `VectorMap`) |
| `hnsw_shape` | the same, `drop_floats` off | | `ShapeKept` fails: a node loses layers through seal and unseal |
| `hnsw_drop` | the same, `drop_floats` on | | `VectorsKept` fails: the last copy of the vectors is cleared |
| `index` | 2 documents, 3 chunks, 2 dimensions, batches of 2, 2 workers, graph from 3 chunks on | 661,547 | `CachesCurrent` (what a flag calls current is current), `DeletedHidden` (no search finds a chunk of a removed document), `DenseFull` (a dense search reaches every live chunk of the working dimension), `LexicalFull` (a lexical search fills its k places), `BuildReachesAll` (a build that succeeds asked for every missing embedding), `ReadersReadOnly` (the arms of a hybrid search write nothing they share) |
| `components` | one of 15 parts and an input of its set, see [bounds](#bounds) | 289,789 | the eighteen properties below |
| `filter_ignored` | 5 servers, requests of every method | | `FilterHolds` fails: sparse recall and rewrites ignore the filter |

| Property of `components` | Says |
|---|---|
| `NothingLost` | WAND's results carry the exhaustive scores, and what it passed over is no better than any of the k it holds, at every step |
| `UnanimityKept` | a fusion never inverts what all lists agree on |
| `KeepsWhatWasAsked` | fewer than k results only when there is no more, or the rest was folded into them |
| `RefinementSound` | refinements keep the leader and the order, and once folded no two results could be folded together |
| `GraphSound` | communities are connected and, unless the rounds ran out, settled; the cached graph covers what was added; a local search stays connected to its seeds |
| `ForestCovers` | the levels of the tree are a forest over the chunks at every moment, and none falls out where single nodes are carried up |
| `StrategiesDegrade` | failing models narrow an answer as named, and empty it only where nothing could be found |
| `SparseSurvivesReload` | through saves and loads an index finds what holds a stable term, and with the default configuration all it found before |
| `BuildIsSerial` | however the workers of a build interleave, no two have one list, and the graph is that of waves linked in one step |
| `ChunkingSound` | no line is lost, only what may be repeated is, and a definition keeps its comments unless a full chunk took them |
| `InflateInverts` | what is decoded is what was encoded, or a beginning of it when the stream is cut |
| `DocumentsWhole` | rows of tables stay records, cells keep their row, every part is read once and in order |
| `FilesAccounted` | every wanted file the walk reached is reported once, and a document exists exactly for the good ones |
| `TextSurvives` | the text of HTML, up to the first sign that is misread, and of RTF is what a reader sees; CSV read back is the table written |
| `CacheFaithful` | list and map agree, hold the most recently used, and every score is the model's |
| `EachItemOnce` | every index of a parallel region is run exactly once |
| `AnswersAreOwn` | an answer is of the texts asked, and a tree with a part that always answers never ends in a transient failure |
| `RepliesHonest` | a reply keeps to k, threshold and budget, and is not smaller than it could be; what is advertised is done, but for hooks that stand alone |

The two properties of `durability` hold outside six named states (`Exposed`), each of
which is a reason in the code why the disk can hold something else than what was
acknowledged: a fragment buried in the log; a whole frame left by a call that
failed (`ghost`); the window of a checkpoint (`Window`); the middle of an upsert
(`HalfUpsert`); a log that adds a uri that is already live at that point
(`SameUriTwice`: replay replaces what `add_document()` did not); an upsert
whose remove could not be logged or which met two live documents (`NotReplaced`).
Naming them is half of the result: there is no seventh.

Every property of a passing run has a mutant in `PROJECT.json`, a change of one
definition as a slip in the code would make it, under which TLC finds that
property violated. The mutated forms stand before the definitions they replace,
each marked "Broken variant".

## Bounds

- `Wal`: `MaxLog` 4 frames with groups of 2 leave room for a fragment with
  acknowledged frames on both sides, for a group cut in the middle, and for a
  truncation between two fills. `bytes` is bounded by the same constant because
  a failed truncation keeps it above the size of the file. The proofs have no bound.
- `SnapshotFile`: `MaxSaves` 3 with 2 process ids gives two racing saves while
  the leftovers of a third are swept, under a reused id. The proofs have no bound on
  processes or saves.
- `DurableCorpus`: `MaxWrites` 3 documents or deletes, `MaxItems` 2 per request,
  `MaxLog` 4, two uris and the empty one; enough for two documents of one uri and
  a delete, an upsert over a live document followed by another request, a checkpoint
  in the middle, and a crash in each. A larger instance (4 writes, 5 frames, checkpoint at 3;
  6.1 million states) was checked once with the same result; it takes eleven
  minutes and is not among the runs. `CheckpointAt` differs between the runs so that a
  checkpoint happens (3 in `checkpoint_crash`) or does not (4 in `upsert_crash`).

- `VectorStore`: `M` 1 gives at most 2 links in layer 0 and 1 above, so 4 writes (4
  nodes, superseded ones included) make every kind of pruning happen; `WaveDivisor` 1 makes waves of two
  nodes (16 in the code); a graph is built from 2 vectors on; `MaxSaves` 1 leaves writes before and
  after a reload. A new store is created only where there is nothing to load.

- `CorpusIndex`: 3 chunks in 2 documents, some without chunks, some without terms. A batch of 2 makes the last batch incomplete and two workers
  run side by side; a third chunk crosses the threshold, so the same corpus is searched with and without
  a graph; two dimensions make ragged rows. With so few chunks removed documents never hold more than
  `LexicalFull` allows them (K + 2 per removed document); beyond that bound the code returns fewer than k hits although k match,
  which is why the bound is in the property, and the theorem `Filled` shows that it suffices for any sizes.

- `components`: `Wand` has 2 terms, 4 documents, blocks of 2 and 1 or 2 results, all weights up to 2 with one term's rising: blocks that prune, cursors that meet
  and part, ties. `Pipeline` has 4 chunks of 2 documents, every composition, fusion and kind of embedder, k 1 and 3. `DocGraph` has 4 documents with every mixture of the likenesses that matter and
  removals in between; label propagation stops after 2 rounds, so both ends of its loop happen. `Raptor` has up to 5 leaves. `Waves` has 6 vectors in two orders, or 4 behind 2 that were added, with every choice of levels 0 and 1 and two workers: waves of two nodes whose links back meet in a list. `Strategies` has 4 chunks and every plan of the
  sets in `MCSearch`. `Chunking` has lines of 10 kinds, documents of 4 lines in all combinations and 4 long ones. `Inflate` has all streams of up to 3 codes in four tables, all
  noise of 6 bits. `Office` and `Extraction` have the documents, directories and tables of `MCIngest`, each with a fault in each place; HTML has every body of 3 out of 11 items and RTF of 3 out of 7, so whatever is misread has something before, behind and between. `Cache` has 2 rerankers, 2 passages and room for 2: a key more
  than fits and a touch before an eviction. `Shares` has lengths to 8 and widths to 4, which have empty shares, more shares than items and shares past the end. `Backends` has 9 specifications, 3 requests and 2 threads where the width allows.
  `Handler` has 5 servers and some 300 requests. The constants are small stand-ins for the code's thresholds (blocks of 128, 60 of RRF, 24 lines), named beside each constant.

Symmetry is used where it is sound: over the records of `Wal`, the uris of
`DurableCorpus` and the ids of `VectorStore`, in runs without liveness properties. `MCSnapshotFile` checks
liveness and uses none.

## Fairness

Only `SnapshotFile` states fairness: weak fairness of `Save(p)`, the steps a
process takes of its own accord once `write_file()` was called. The function
runs to its end without waiting for anybody, so a process that is not stopped
takes its next step. Nothing is assumed about starting a save, dying or
starting a process. `OrphansSwept` rests on it. The other modules state
safety only. A retry loop has no liveness of its own to state: its attempts are counted, and what it waits for is a peer of which nothing is known.

## Proofs

`Wal_proofs`, `SnapshotFile_proofs`, `DurableCorpus_proofs`, `VectorStore_proofs`, `Components_proofs`, `Search_proofs`, `Serving_proofs` and what they share, `Orders_proofs`, are checked by TLAPS for all values of
the constants (the bounds are any natural numbers, records and processes any set). Where a module's initial states are a set of inputs, the theorem takes any set whose members have the types that its hypotheses name.
Every inductive invariant was checked by TLC on the instance of its run before it was proved.

**Wal.** `IInv` is `TypeOK` and four more parts. `AckedWhole`: acknowledged frames are
whole. `GroupWhole`: so are the frames that the running call has written, which
become acknowledged at once when its sync succeeds. `AckedStable`: the device holds the
acknowledged frames unaltered, and while there are any the file extends what the device
holds. `CutIsEmpty`: in a log being cut nothing is acknowledged, which
is why a half-done truncation may bring back the old file. `TypeCorrect`, `AckedIsReplayed`
(`AckedReplayed`) and `AckedSurvivesPowerLoss` (`AckedDurable`) follow. The argument
for `AckedDurable` looks at each image a power loss may leave: all of them extend
the acknowledged part. `SizeCoversTheAcked` (`SizeCoversAcked`) is inductive with it: the acknowledged positions
are finitely many, a successful sync adds as many as the size grows by, and a log that is opened counts all its frames.

**SnapshotFile.** `IInv` is `TypeOK`, `LiveTempKept` and: `OldNames` (every name
in the directory, in a sweep's list or about to be removed was made by a save
already started, so a new save's name is new), `NotDoomed` (no sweep is about
to remove the file of a running save: a process dead at the look has none when it
starts again), `Prepared` (the file of a save past its write is whole, past its
sync synced), `Stamped` (it holds the save's own image), `Safe` (every file that may
be at the destination is whole on the device), `Ranked` (the destination has the
highest rank, and no file that may be there ranks below a reported one where directories can be synced).
`TypeCorrect`, `SweepIsHarmless`, `DestinationIsWhole`, `ReportIsKept`
and `SaveIsAtomic` follow; the last shows step by step that every action is a step
of `AtomicFile` or changes nothing it sees. `OrphansSwept` is liveness and stays with TLC.

The type invariants of these modules and of `DurableCorpus` are proved and therefore not among the properties of their runs.

**DurableCorpus.** `WritesSurvive` and `ReplayExact` are `AckedWritesSurvive` and `ReplayIsExact` for any set of uris, any bounds and any set of
faults; `LogUse` says that the corpus uses the log only by the calls that `Wal` describes, so that the invariant of `Wal` may be used here. Replaying a log is a fold, a recursive
function over the length of the log; that it exists (`ReplayFunction`) and
what one more record does to it (`ReplayOneMore`) are shown by induction. The inductive invariant starts with that of `Wal`, then: `Typed` and `InRequest` (the place of the running request), `InCall` (the
log ends with what the running call has written), `Fresh` (writes are numbered upwards), `KnownExact` (the settled log replayed on the snapshot gives the table), `KnownKept` (what a power loss leaves of it gives one
a client may expect), `Synced` and `OldLog` (where the device holds less than the log, a snapshot has made that part obsolete), `Expected` and `Unlogged` (the table, and every one the
request may still make, is one a client may expect). The exposed states in which `checkpoint` and `upsert` break the promise (findings 2 and 3) are left out by the properties themselves; the runs
`checkpoint_crash` and `upsert_crash` show that they must be.

**VectorStore.** `GraphRight` and `StoreIsMap` are `GraphAgrees` and `IsMap`, for any ids, vectors, similarity, degree and beam. `IInv` says that an id has one live row
(`RowsOk`); that a graph's lists fit its nodes, flat or growing (`Shaped`), that all nodes of an id but the last are superseded (`NodesOnce`) and that the id
index, when there is one, is right (`IndexRight`); that the live nodes of the graph in use are the live rows (`Agreed`); and that what is being written and what is
on the disk is whole and agrees in the same way (`WritingOk`, `DiskOk`). `NodesOnce` is what makes `Agreed` inductive: an add marks the node its index
names, and only if that is the last of the id does the one before stay hidden. A batch is a recursive function over waves; `WaveStates` with `WavesGo` shows that it exists and `BuildGrows` by induction that it only adds links.

`LinksAreSound`, `OnlyThere` and `BestAnswers` (`LinksSound`, `UndefinedOnlyThere`, `AnswersAreBest`) rest on a second invariant, `LInv`. Its centre is `Navigable`: links go to other nodes that
reach the layer and are not too many (`LinkedTo`), the entry reaches the top layer (`Entered`), and no two nodes have the same vector (`VecsOnce`, without which "the nearest k" could be more than k). The rest is
what makes it inductive: distinct vectors in the rows a build starts from, the exact vectors present unless they are to be dropped, and the same of the file. The argument follows the code inwards: a walk from a
node of a layer stays among the nodes of that layer, whatever the beam (`WalkStays`); so does the way down from the entry (`DownStays`); so the links chosen are of the layer and within the bound (`PicksRight`, `SelectFew`), and a wave
that applies them keeps the graph sound or meets a node with too few layers (`WaveLinked`). Sealing and unsealing keep every neighbourhood (`SealLinks`, `UnsealLinks`); a batch is an induction over its waves (`BuiltNavigable`). A beam as wide as the graph never drops a
candidate and never stops early, so after as many steps as there are nodes no candidate is left, and what was seen is what is in reach (`WideStep`, `WideSearch`); the sealed form walks the same way (`SameWalk`, `SameEnters`).

**CorpusIndex.** Every property of the run `index` has its theorem, for any number of
documents and chunks, any batch size, number of workers, threshold and k. `IndexInv` is `TypeOK`,
`CachesCurrent` and: `MatrixLive` (a current matrix has no row of a removed document, which `CachesCurrent` does not say
after a failed build), `PastThreshold` (a graph exists only with that many chunks, so a successful build replaces
it), `OneOwner` (nothing pends outside a build and no search runs beside one), `Repaired` (while the
arms run there is nothing to repair) and `DiskCurrent` (the snapshot's graph is that of its
chunks). `Types`, `Currency`, `Hidden`, `Found`, `Filled` and `SideBySide` follow. `Reached` needs one more,
`Covered`: until a batch fails, a chunk without embedding was left out of an answer or is in a batch still to
do. Its one arithmetical step is `BatchesCover`: the batches of n chunks cover 0..n-1, by division with rest.

**Wand.** `SkipsLoseNothing` is `NothingLost` for any finite sets of terms and documents, any weights, block size and k. The invariant (`WandInv`) turns on documents that are *passed*, with a cursor of one
of their terms beyond them (`Fine`): a passed document is a result that all its terms have passed, or its score does not beat the threshold and neither do the maxima of the blocks of the cursors still
at it, so that it will never be scored from some of its terms only. `NothingLost` alone is not inductive, because it speaks of a document only once all its terms are past it. Beside `Fine` there is `CursorsOk` (a cursor is at a posting or
at the end), `HeapFine` (scores held are exact, the threshold is the least of them once there are k and 0 before) and, at the end, `NoPivot`. The lemmas: a sum over finitely many terms
does not depend on the order and grows with its terms (`SumBound`, over the recursive function of `SumOf`); the blocks of `finalize()` bound their postings
(`FinalizedBlocks`); `SkipTo` goes to the first posting at or after its target, whatever blocks it hops (`SkipIs`); the maxima of terms and of
blocks bound a document's score (`TermsBound`, `BlocksBound`). The order among equal scores is left open, as in the property.

**Cache.** `CacheIsFaithful` is `CacheFaithful` for any rerankers, passages and capacity. `CacheInv` has the types of a call under way, that
the list is an enumeration of the map's keys without repetition and no longer than the capacity, that it is the front of the unbounded history `recent`, and that every score in the map
or already in the answer is the model's. The lemmas are about lists without repetition (`MoveIsList`, `PushIsList`, `PopIsList`) and about the
front of one (`HitKeepsFront`, `RoomKeepsFront`, `FullKeepsFront`): moving a key to the front of both keeps one the front of the other, also when the last one falls off.

**Handler.** `RepliesAreHonest` is `RepliesHonest` for any servers whose searches return lists of hits, each chunk once, and any requests. The hits of a request are a list without repetition from recall to reply: a filter and
the threshold select places of it in order (`Selected`, `SelectedFrom`), a rerank permutes and rescores the first of it and leaves the rest (`RanksOf`), and what is answered is a prefix of the good ones, the
longest within k and the budget. That the budget's prefix is the longest rests on sums of numbers that only grow (`SumBound`). `RefusalsHonest`, that no refusal for want of a part contradicts the capabilities, follows action by action.

**Pipeline.** `AgreementIsKept`, `AskedIsKept` and `RefinementsAreSound` are `UnanimityKept`, `KeepsWhatWasAsked` and `RefinementSound` for any corpus, any k, any filter and any order that the sorts give to
equals; a request names one of the shipped compositions and one of the four fusions, and the terms of the query and of a chunk are finitely many (`AskOk`). `PipelineInv` relates the three lists of a query, the candidates, those fetched and those last scored: each lists a chunk
once, the chunks scored are those fetched, and the candidates are a part of them, in order unless MMR or dartboard are past (`ListsOk`, `RefinedOk`); what was fetched is as much as was asked for or all that can be found, and each chunk of it that is no longer a candidate is folded into one or
came after k of them (`FetchedOk`); and the stages left are the end of a composition (`FlowOk`), which says which stages are past when one begins: the cut to k is the last, so the pool of every stage before it is at least that wide (`PoolIs`). None of the three properties is inductive without these. Every stage has a lemma about lists:
a sort permutes (`RankedIs`), a cut is a part in order (`CutPart`), so is what a choice of places leaves (`ChosenPart`); folding and the greedy selections are recursive functions of the round, which exist (`RoundsRun`) and keep what each round keeps
(`RoundsKeep`): a folded candidate has a survivor before it, and survivors do not fold into each other. For the fusions, a share of the score grows with a better place or score in its list, a chunk missing from a list has none, and the weights are not negative, so the sums respect an agreement of all lists
(`FairScores`); the common denominators are products of finitely many positive numbers. `RefinementSound` excepts k = 0, where MMR keeps nothing and so no leader.

**Chunking.** `ChunksAreSound` is `ChunkingSound` for any documents whose lines are of known kinds and any options. `ChunkInv` looks at the line where the next chunk will begin: the start of the segment for code,
inferred structure and sentences, the front of the window otherwise (`CutUpTo`). What has text above it is in a chunk (`CoveredTo`); a chunk that reaches past it does so by the overlap, or by comments and blank lines only (`HandedOn`), so the next chunk shares no more
than that (`FlushShares`). For the comments of a definition, `TravelOk` has two halves. A definition already passed has them in a chunk, in the segment, or lost some to a full chunk. One still to come, whose comments begin above the segment, lost them
to a full chunk: a cut that is not for size lies at the comments of a definition, and no later definition claims comments across an earlier one (`BoundaryStays`), nor a blank line as the first of them (`ClaimedIs`), so a segment of blanks takes nothing away.
Sentences need one more part, `SegmentSize`: a segment of size zero is blank, which is why dropping it at a break loses nothing. That there are no more chunks than lines is inductive only with the count against the
front (`Counted`). The size of a shared part is counted once (`SharedLines`): with b after a, at most the overlap.

**Extraction.** `EveryFileAccounted` is `FilesAccounted` for any directory, table, limit and set of converters, provided that the entries come as a recursive walk gives them (`WalkOk`): each after the directories it is in, the outer ones
first. The walk decides by the directories it has pruned, the property by the list of those to skip. `Pruning` joins them: a pruned directory is on the list, and every one on the list that the walk met outside of
another is pruned, so an entry is passed over unread exactly when it is under a listed directory (`HiddenIs`, by the outermost such directory, which the walk met before the entry). `Limited` is the other part: at the limit there are exactly as many documents as it allows. Which plain contents are refused
follows from the order of the tests in `ExtractBytes` (`PlainIs`).

**DocGraph.** `GraphsAreSound` is `GraphSound` for any number of documents, any links and likenesses that are numbers, and any bounds of the loops. `GraphInv` says that a label is always one of the documents connected to its own (`GraphFits`: a vote takes the document's own label or a
neighbour's, `VotedIs`), that in a round which changed nothing so far the documents already visited have the label their neighbours vote for (`SettledTo`), and that the cached graph is
the one last built. Connection is a recursive function of the number of hops; that as many hops as there are documents leave no edge to follow (`ConnectedIs`) is shown by induction and by counting: each hop adds a document until none is left to add. So what a
propagation of any length reaches stays inside (`ReachedStays`, `MassStays`).

**Splade.** `IndexSurvivesReload` is `SparseSurvivesReload` for any corpus and configuration. `SpladeInv`: index and blob have the vocabulary, the frequencies, the vectors and the expansion of the corpus (`Faithful`), and the inverted lists
are the transpose of the vectors, after a build because they are filled so and after a load because they are rebuilt. A query keeps its telling terms and adds only terms that occur with them (`EncodedIs`), a chunk has a positive impact exactly when its vector
shares a term with the query (`ImpactIs`, by sums again), and one that has is left out only where k others are found (`BestOrAll`).

**Raptor.** `ForestHolds` is `ForestCovers` for any chunks, cluster size, reach, number of levels and `min_cluster`. `RaptorInv`: the nodes are a forest whose children are older than their parent (`Tree`), the nodes of the level being clustered are listed once and
have no parent (`Roots`), no leaf is under two of them (`Apart`) and, with clusters of two, every leaf is under one (`Covers`). `ForestCovers` alone is not inductive: without `Roots` a parent may share a child with another. The greedy clustering is a recursive function over the
positions; by induction its clusters divide them (`ClustersAre`). The ids of new parents are counted (`IdsAre`), so old nodes stay what they were (`GrownIs`, `LeavesSame`) and under a node of the next level is what was under its
cluster (`NextLeaves`). A build that ends because a level grew no smaller has kept its parents; with clusters of two this cannot happen, as a large cluster has a member that is no seed (`LevelShrinks`).

**Strategies.** `FailuresDegrade` is `StrategiesDegrade` for any chunks, scores and any requests that `PlanOk` admits: k is at least one, the order of nearness of a text lists every chunk once, its lexical matches are chunks without repetition,
and every other bound is a number, zero included. `StrategiesInv` adds to the property that the pool of a cascade between two stages is a list of different chunks within reach of the question (`PoolOk`), exactly as long as the bounds of the stages that worked
and the depth of the search allow (`PoolWidth`). That a stage widened to two or three times its k cuts to k all the same is what makes the length exact. The rest is per strategy: a sort is by rank and so
permutes what it is given (`SortedIs`, `ReorderedIs`); reciprocal rank fusion returns chunks of its lists, some unless all are empty (`FusedIs`; brought to a common denominator its scores are numbers because a product of finitely many ranks is one, `ProductIs`);
the strides are the multiples of their length below the number of tokens, in order and so at least a stride apart (`Multiples`, `StridesAre`, by division with rest); and the best passage of a set graded above the lower threshold is kept (`KeptIs`), so that
only an "incorrect" correction has nothing.

**Shares.** `SharesEachItemOnce` is `EachItemOnce` for any lengths, widths and grain. It rests on arithmetic: blocks of
the rounded-up length are disjoint and cover (`BlocksDisjoint`, `BlocksCover`), strides too (`StridesDisjoint`, `StridesCover`). `SharesInv` says that an item
was touched exactly when its share has run.

**Waves.** `WavesAreSerial` is `BuildIsSerial` for any graph and batch that `BatchOk` admits, any similarity, degree, beam, wave divisor and number of workers, and every
order of their searches, reads and writes. `WavesInv` says where the concurrent build stands in the serial one. Between two waves its graph is one of those that `BuildBatch` goes through (`SerialAt`, which also
counts the steps left: every wave links at least one node). While a wave is searched for, the graph does not change, a share has searched for exactly the items of its stride before the
one it comes to, and found what `Picks` gives in that graph (`Searching`); when every share is past the end, division with rest gives every item a share (`SearchEnds`). While it is applied there is a graph g, that before the wave, such
that every list of a group not yet written is as in g, every other one as the serial wave leaves it, and what was read is as in g (`Taking`). That a read finds the list of g and a write the serial list needs three
facts: two groups never have the same list, and a group has all the nodes that chose its node (`GroupsAre`: in a sorted list, equal keys are neighbours); the lists are of nodes before the wave, in layers that these have (`WaveIs`, from `PicksRight`); and what a node keeps of
its links depends on the vectors and that one list only (`SameSelect`). Sorting is by rank: in a finite set with a strict total order every member has a number of its own (`Places`).
`BatchOk` asks for what the serial build needs as well: a sound graph of distinct vectors, ids of the store, and, once it is unpacked, a node's layers as many as its level says. The empty graph and every graph that grows have them; one that was sealed
has them unless a node is alone on its layer (finding 4), where the serial build itself writes past the lists.

Induction: the library's induction theorems take the property as an operator, which the provers cannot instantiate. With the property as a set of numbers it follows from the
well-foundedness of the naturals (`Induction` in `Orders_proofs`), so statements about recursive functions can be proved
for each property by hand. What is left to TLC: `InflateInverts`, `DocumentsWhole` and
`TextSurvives`, where a reader of events or bits is a recursion over its input, so that its being the inverse of a writer is an induction over data; `AnswersAreOwn` of `Backends`, whose trees are RECURSIVE operators; and all liveness (`OrphansSwept`).

## Assumptions about the environment

- A sync that reports success has made the file durable (`SyncMode` flush or full).
  With `SyncMode` none, nothing is claimed about a power loss (`Durable` = FALSE).
- `rename()` replaces atomically; before a directory sync a power loss may
  leave any of the files renamed there since the last one.
- `kill(pid, 0)` answers truly: all writers of a path see each other's process
  ids. Two containers that share a directory do not, and could sweep each other's
  temporary files.
- In `DurableCorpus` a save is atomic and durable. For the first, `SnapshotFile`
  shows it; for the second it shows it only where directories can be synced.
- Removing a temporary file succeeds; the code ignores it when it does not.

- In `Wand` query terms and documents are finitely many, documents are numbers and a block holds at least one posting (`WandAssumption`).
- In `Hnsw` the degree is a natural number and beams and waves are not empty (`BeamAssumption`). In `VectorStore` similarities are numbers without ties as seen from one vector (`SimAssumption`), ids are finitely many (`IdAssumption`; the code's are 32-bit words) and the marks of an unreadable file are not maps (`MarksAssumption`).
- In `Strategies` the upper threshold of corrective retrieval is above the lower one and a correction keeps at least one strip (`StrategiesAssumption`); the defaults are so, and the code does not check what it is given.
- In `Pipeline` the weights of MMR and of the dartboard are within their range, as `mmr.cpp:28` and `dartboard.cpp:19` clamp them, and a chunk ends at or after its first line (`RerankersAssumption`, `PipelineAssumption`). The order a sort
  gives to equals is left open wherever the code's sort is not stable.
- In `Chunking` a line that is not blank has a size (`ChunkingAssumption`); options may be zero. In `Extraction` a directory is met before what is in it (`WalkOk`), as `recursive_directory_iterator` does.
- A splitter given to the parallel loops runs each share once; a summariser, an embedder, a generator or a reranker may fail or answer short, but does not call back
  into what called it.
- A peer of the bridge answers requests in the order it got them, one line each, whatever the line holds.

## Findings

1. **`wal_torn`.** `Wal::open()` positions at the end of the file and trims
   nothing (`src/store/wal.cpp:99`); a failed `write()` leaves its fragment too
   (`:177`). The next append, acknowledged, lands behind the fragment, and the
   next replay drops it or reports corruption. `include/rag/store/wal.hpp:118-122`
   says that only a record never acknowledged is dropped.
2. **`checkpoint_crash`.** After the save and before the truncate of
   `checkpoint()`, the log is replayed on a snapshot that already contains it:
   an add of a document deleted later adds it again under a new id, and
   the recorded remove names the old one.
3. **`upsert_crash`.** `upsert_document()` logs a remove and an add as two synced
   records. A crash between them loses a document that was acknowledged, although nobody
   asked for its deletion.
4. **`hnsw_shape`.** `unpack_links()` gives a node as many layers as it has links in
   (`src/index/hnsw.cpp:182-187`). A node alone on its top layer, as the first node of
   a graph is, comes back shorter than it was built, and the next `add()` indexes
   past its lists (`:430`). It takes an add, a search and an add. The comment there promises the restored shape.
5. **`hnsw_drop`.** With `drop_floats` the SQ8 codes are the only copy of the vectors,
   and `unseal()` clears them (`include/rag/index/hnsw.hpp:424`) unless product quantisation is on.
   The next walk and the next `save()` read rows that are not there.
   `docs/vector-store.md:70` recommends the setting, and the comment at `hnsw.hpp:426` names the danger.
6. **`filter_ignored`.** The comment at `include/rag/rcp/handler.hpp:321-322` says that raw hits are resolved "applying the metadata filter for the
   paths (sparse/dense/rewrite) that don't push it into the index walk"; the loop below it only resolves. A retrieve in sparse mode or with a
   rewrite answers hits that its filter excludes. (The dense path is filtered in the index.)

Smaller disagreements, met while modelling and kept in the models as the code has them:

- `parallel_blocks` may hand its body a block whose begin is past its end (see `Shares`), and the scan of `dense_search` then throws `length_error`.
- `hyde.cpp:43` says a generated text is retrieved as `retrieve_text()` does, with the lexical fallback; an empty dense list has none.
- `FallbackEmbedder` "so retrieval never hard-fails": a `parse_error` of the primary is not transient and is passed on. The secondary may have another dimension than
  the one announced, the primary's.
- `channel.hpp:37` promises failures as results and no exceptions; a wrong JSON type inside vectors is thrown by the JSON library (`remote.hpp:61`).
- `handler.hpp:261-262` says reranking narrows to topN; hits beyond topN stay, on their old scale of score, and surface where `minScore` removes reranked ones.
- `capabilities()` advertises rewriting, reranking and index/delete for a hook alone, although retrieve and index/delete do not go through it.
- `engine.hpp:86` "Rebuilds if the corpus changed": only when the number of documents did. `graph.cpp:285` calls its propagation synchronous; it updates in place.
- A SPLADE blob keeps neither configuration nor tokenizer: a loaded index widens queries by the defaults.
- `code_chunker.hpp` "always respects a max size": a claimed comment block or one long line exceeds it. `chunker.hpp:5-7`: chunks do not break at headings, and the breadcrumb may name a heading of the
  overlap. With `max_lines` 0 the window does not move.
- `cache.hpp:123` calls the rerank cache "thread-safe" and `reranker.hpp:149` shares it between threads; `LruCache` has no lock. `Cache` has one caller at a time and says nothing of several.
- `loaders.cpp:33` says "when inside script/style, skip to its close tag", but tags are lexed there as well (`:38-51`): of `<script>if(a<b)f();</script>text` the reader takes `b)f();</script` for one tag, the script's
  end is never met, and the text behind it is lost up to the end of a later script or of the file (with no text left the file fails as empty). `TextSurvives` excepts it by name (`Misread`).
- HTML, besides: a comment with `>` in it shows its rest, and a lone `<` takes the text up to the next `>`, or the rest of the file.
- Loaders: pptx numbers only slides that have text; an xlsx cell with an element closed in its own tag, and deleted text closed so in docx, are dropped with what follows; the line breaks of pretty-printed XML
  split the rows of a table; an EPUB whose spine names only unreadable parts fails without the fallback on its HTML; an unreadable directory ends the walk without an error; the fallback for a
  misnamed PDF and the converter for RTF that `extract.cpp:235-248` mention do not exist; a value of a CSV id column that equals another row's number gives two documents one uri.
- Corrective retrieval keeps listing internal hits after it judged them incorrect and went outside. `semantic_chunk` reads past a short answer of its embedder. `loader.hpp:25-33` describes
  static registrars that are gone.

## What is not modelled

The bytes of frames and containers, checksums and encodings (abstracted to whole
or torn: a checksum that accepts a torn frame is outside the models); floating-point
scores, embeddings and distances (integers and an order stand for them); the tokenizer's character classes, entities and
encodings of text; product quantisation, SIMD and GPU kernels; the metrics of evaluation; retrieval over the RAPTOR tree; the reranker half of the bridge and of the
registry, which repeats the embedder half; the C interface, which forwards; JSON and transports (a library outside the repository). The components
table in `PROJECT.json` gives the reason for each part.

Parts of what is modelled that the properties do not reach:

- What a failed append leaves in the log and a later replay serves (`ghost`) is one of the states of `Exposed`, where the properties of `durability` claim nothing.
- `GraphSound` says that the graph misses no document that was added; that a removed one stays a node of it is in the model, and no property is against it.
- An item of an OpenAI answer without an embedding is skipped (`src/backends/backends.cpp:113`), which moves the later vectors of the batch up; an answer of `Backends` is right, wrong or short as a whole.
- `contains` is missing among the operators of filters. Zero bytes are looked for in the first kilobyte only (`src/loaders/extract.cpp:210`), where an entry of `Extraction` has one or not; `.html` stands for `.htm` and `.xhtml`.
  `script` and `style` stand for the four elements that HTML skips. An element that is never closed, and a CSV field whose quote is never closed, are not among the inputs: no writer means them.
- `max_lines` 0, at which `chunk_document()` does not move, is not among the values of `MaxLines`.

One hazard has no property: a query vector shorter than the rows, which a fallback of another dimension gives, is read past its end by the
flat scan: the models have one dimension of query.

## Plan

What would come next, in the order of what matters:

1. Proofs about what is left of ingestion, `Office` first: its readers as recursive functions of the place in the events, with what they have built so far as the invariant.
2. `Handler` composed with `CorpusIndex`, so that a filtered search runs on a corpus that changes.
