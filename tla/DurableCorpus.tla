--------------------------- MODULE DurableCorpus ---------------------------
(***************************************************************************)
(* A served corpus and what a restart makes of it: the document table of   *)
(* rag::index::Corpus, its write-ahead log (module Wal), the snapshot      *)
(* file and the RCP handlers index/add and index/delete that acknowledge   *)
(* writes to clients (src/index/corpus.cpp, rcp/handler.hpp, cli/main.cpp  *)
(* `serve --write`).                                                       *)
(*                                                                         *)
(* A Corpus holds no lock and has one owner at a time, so requests run one *)
(* after the other; what interleaves with every step of a request is a     *)
(* failing disk, a process crash and a power loss.                         *)
(*                                                                         *)
(* Data: a document is its uri and the number of the write that made it    *)
(* (its text, metadata and chunks follow from that write).  Document ids   *)
(* are positions in the table, as in the code, counted from 1.             *)
(*                                                                         *)
(* The snapshot file is replaced atomically and durably by save(); that    *)
(* is what module SnapshotFile shows of the code below it.                 *)
(***************************************************************************)
EXTENDS Integers, Sequences, FiniteSets

CONSTANTS
    Uri,           \* the uris clients use
    Anon,          \* the empty uri: never found, never replaced
    CheckpointAt,  \* checkpoint_bytes, in frames
    Faults,        \* what may go wrong: see Fails
    MaxWrites,     \* bound on the documents written and deletes asked
    MaxItems,      \* bound on the documents of one request
    MaxLog         \* bound on the frames of the log (see Wal)

ASSUME AnonAssumption == Anon \notin Uri
ASSUME FaultsAssumption ==
    Faults \subseteq {"write", "sync", "save", "truncate", "build", "crash", "power"}
ASSUME BoundsAssumption ==
    /\ MaxItems \in Nat /\ MaxLog \in Nat
    /\ CheckpointAt \in Nat /\ MaxWrites \in Nat

VARIABLES
    \* the log, see Wal
    open, file, stable, bytes, phase, queue, group, acked,
    \* the process
    logged,    \* does the server keep a log (constant in a behaviour)
    up,        \* is the process running
    mem,       \* the document table: its documents and its tombstones
    pc,        \* what the running request does next
    kind,      \* the running request
    todo,      \* its items still to do, the current one first
    hit,       \* index/delete: has it removed a document
    \* the disk
    snap,      \* the snapshot file; upto is history: writes it contains
    \* history
    next,      \* number of the next write
    settled,   \* frames whose outcome the process knows
    ghost,     \* has a call that failed left a whole frame in the log
    promise    \* by uri: the sets of live writes the client may expect

walVars == <<open, file, stable, bytes, phase, queue, group, acked>>
vars == <<walVars, logged, up, mem, pc, kind, todo, hit, snap,
          next, settled, ghost, promise>>

Write == 1..MaxWrites

AddRecord(d)        == [op |-> "add", uri |-> d.uri, n |-> d.n]
RemoveRecord(id, n) == [op |-> "remove", id |-> id, n |-> n]
Record == [op : {"add"}, uri : Uri \union {Anon}, n : Write]
          \union [op : {"remove"}, id : Nat, n : Write]

W == INSTANCE Wal WITH Durable <- TRUE, MaxBatch <- MaxItems

Fails(what) == what \in Faults

-----------------------------------------------------------------------------
(* The document table.                                                     *)

EmptyTable == [docs |-> <<>>, dead |-> {}]

Live(t) == (1..Len(t.docs)) \ t.dead

\* The first live document with that uri, 0 when there is none.
FindByUri(t, u) ==
    LET found == {id \in Live(t) : t.docs[id].uri = u}
    IN  IF u = Anon \/ found = {} THEN 0
        ELSE CHOOSE id \in found : \A other \in found : id <= other

Push(t, d) == [t EXCEPT !.docs = Append(@, d)]

\* An unknown or already deleted id changes nothing.
Kill(t, id) == IF id \in Live(t) THEN [t EXCEPT !.dead = @ \union {id}] ELSE t

Upsert(t, d) == Push(Kill(t, FindByUri(t, d.uri)), d)

\* open_wal(): an add is replayed as an upsert, a remove by its recorded id.
ReplayRecord(t, r) ==
    IF r.op = "add" THEN Upsert(t, [uri |-> r.uri, n |-> r.n])
                    ELSE Kill(t, r.id)

\* The table t after the replay of recs, in their order.
ReplayFrom(t, recs) ==
    LET at[i \in 0..Len(recs)] ==
            IF i = 0 THEN t ELSE ReplayRecord(at[i - 1], recs[i])
    IN  at[Len(recs)]

Snapshot == [docs |-> snap.docs, dead |-> snap.dead]

\* What load() and open_wal() build from the snapshot and the log f.
Recovered(f) == ReplayFrom(Snapshot, W!Replayed(f))

\* The writes a client can see under uri u.
LiveOf(t, u) == {t.docs[id].n : id \in {i \in Live(t) : t.docs[i].uri = u}}

-----------------------------------------------------------------------------
(* Requests.                                                               *)

\* The table after one item of a request.
Done(t, k, item) ==
    CASE k = "index_add"    -> Upsert(t, item)
      [] k = "add"          -> Push(t, item)
      [] k = "index_delete" -> Kill(t, item.id)

\* The table after the first n items of a request.
DoneFirst(t, k, items, n) ==
    LET at[i \in 0..n] == IF i = 0 THEN t ELSE Done(at[i - 1], k, items[i])
    IN  at[n]

\* The table after some of its deletes: those with the given ids.
Erased(t, ids) == [t EXCEPT !.dead = @ \union (Live(t) \intersect ids)]

\* The tables a request may leave: adds stop at the first that fails, deletes
\* go on with the next one.
Outcomes(t, k, items) ==
    IF k = "index_delete"
    THEN {Erased(t, ids) : ids \in SUBSET {items[i].id : i \in 1..Len(items)}}
    ELSE {DoneFirst(t, k, items, i) : i \in 1..Len(items)}

Init ==
    /\ logged \in BOOLEAN
    /\ open = logged
    /\ file = <<>> /\ stable = <<>> /\ bytes = 0
    /\ phase = "idle" /\ queue = <<>> /\ group = 0 /\ acked = {}
    /\ up = TRUE
    /\ mem = EmptyTable
    /\ pc = "idle" /\ kind = "none" /\ todo = <<>> /\ hit = FALSE
    /\ snap = [docs |-> <<>>, dead |-> {}, upto |-> 1]
    /\ next = 1
    /\ settled = 0
    /\ ghost = FALSE
    /\ promise = [u \in Uri \union {Anon} |-> {{}}]

\* A request comes in.  From now on its outcome is as good as what was there.
Begin(k, items, first) ==
    /\ up /\ pc = "idle"
    /\ next + Len(items) <= MaxWrites + 1
    /\ kind' = k /\ todo' = items /\ hit' = FALSE
    /\ pc' = first
    /\ next' = next + Len(items)
    /\ promise' = [u \in DOMAIN promise |->
           promise[u] \union {LiveOf(t, u) : t \in Outcomes(mem, k, items)}]
    /\ UNCHANGED <<walVars, logged, up, mem, snap, settled, ghost>>

\* Documents for the uris us, numbered in order.
Documents(us) == [i \in 1..Len(us) |-> [uri |-> us[i], n |-> next + i - 1]]

\* Which step an upsert starts with: remove what is there, or add.
FirstStep(t, d) == IF FindByUri(t, d.uri) # 0 THEN "drop" ELSE "insert"

\* RCP index/add: an upsert per document, in order.
IndexAdd(us) ==
    LET items == Documents(us)
    IN  Begin("index_add", items, FirstStep(mem, items[1]))

\* The library's add_document() and, for several, add_documents().
AddDocuments(us) == Begin("add", Documents(us), "bulk")

\* RCP index/delete: uris are looked up, numbers are taken as ids.  An id that
\* is unknown or deleted is passed over.
IndexDelete(ids) ==
    Begin("index_delete", [i \in 1..Len(ids) |-> [id |-> ids[i], n |-> next + i - 1]],
          "erase")

\* The request ends.  A success whose mutations were made durable leaves the
\* client one thing to expect, what is served now; any other reply adds that
\* to what it could expect before.
Reply(durable) ==
    /\ promise' = [u \in DOMAIN promise |->
           IF durable THEN {LiveOf(mem', u)} ELSE promise[u] \union {LiveOf(mem', u)}]
    /\ pc' = "idle" /\ kind' = "none" /\ todo' = <<>> /\ hit' = FALSE

-----------------------------------------------------------------------------
(* One logged mutation: append to the log first, then change the table.    *)

logUnchanged == UNCHANGED <<logged, up, snap, next>>

\* The records the step pc appends for the items it has to do.
Records ==
    CASE pc = "drop"   -> <<RemoveRecord(FindByUri(mem, todo[1].uri), todo[1].n)>>
      [] pc = "insert" -> <<AddRecord(todo[1])>>
      [] pc = "bulk"   -> [i \in 1..Len(todo) |-> AddRecord(todo[i])]
      [] pc = "erase"  -> <<RemoveRecord(todo[1].id, todo[1].n)>>

Mutating == pc \in {"drop", "insert", "bulk"} \/ (pc = "erase" /\ todo # <<>>)
Needless == pc = "erase" /\ todo # <<>> /\ todo[1].id \notin Live(mem)

StartLog ==
    /\ up /\ logged /\ Mutating /\ ~Needless
    /\ W!StartAppend(Records)
    /\ UNCHANGED <<mem, pc, kind, todo, hit, settled, ghost, promise>>
    /\ logUnchanged

WriteLog ==
    /\ up /\ W!WriteFrame
    /\ UNCHANGED <<mem, pc, kind, todo, hit, settled, ghost, promise>>
    /\ logUnchanged

\* The table after the step pc.
Changed ==
    CASE pc = "drop"   -> Kill(mem, FindByUri(mem, todo[1].uri))
      [] pc = "insert" -> Push(mem, todo[1])
      [] pc = "bulk"   -> DoneFirst(mem, "add", todo, Len(todo))
      [] pc = "erase"  -> Kill(mem, todo[1].id)

\* Where a request goes after the step pc, which changed the table or not.
Advance(changed) ==
    CASE pc = "drop" ->
           /\ pc' = "insert"
           /\ UNCHANGED <<kind, todo, hit, promise>>
      [] pc = "insert" ->
           IF ~changed THEN Reply(FALSE)
           ELSE /\ todo' = Tail(todo)
                /\ pc' = IF Len(todo) = 1 THEN "build"
                         ELSE FirstStep(mem', todo[2])
                /\ UNCHANGED <<kind, hit, promise>>
      [] pc = "bulk" -> Reply(changed /\ logged)
      [] pc = "erase" ->
           /\ todo' = Tail(todo)
           /\ hit' = (hit \/ changed)
           /\ UNCHANGED <<pc, kind, promise>>

\* Broken variant: the table is changed although the log could not be written.
ApplyAnyway ==
    /\ up /\ Mutating
    /\ \/ Fails("sync") /\ W!SyncError
       \/ Fails("write") /\ \E cut \in BOOLEAN : W!WriteError(cut)
    /\ mem' = Changed
    /\ Advance(TRUE)
    /\ settled' = Len(file')
    /\ UNCHANGED ghost
    /\ logUnchanged

\* The append succeeds (or there is no log) and the mutation is applied.
Apply ==
    /\ up /\ Mutating /\ ~Needless
    /\ IF logged THEN W!SyncOk ELSE UNCHANGED walVars
    /\ mem' = Changed
    /\ Advance(TRUE)
    /\ settled' = Len(file')
    /\ UNCHANGED ghost
    /\ logUnchanged

\* The append fails: the table stays.  upsert_document() and index_delete()
\* ignore that of a remove, the other callers return the error.
ApplyFails ==
    /\ up /\ Mutating
    /\ \/ Fails("sync") /\ W!SyncError
       \/ Fails("write") /\ \E cut \in BOOLEAN : W!WriteError(cut)
    /\ UNCHANGED mem
    /\ Advance(FALSE)
    /\ settled' = Len(file')
    /\ ghost' = (ghost \/ Len(queue) < group)
    /\ logUnchanged

\* remove_document() reports an unknown or deleted id before it logs anything.
PassOver ==
    /\ up /\ Needless /\ phase = "idle"
    /\ UNCHANGED <<walVars, mem, settled, ghost>>
    /\ Advance(FALSE)
    /\ logUnchanged

\* index/delete has no id left.
DeleteDone ==
    /\ up /\ pc = "erase" /\ todo = <<>>
    /\ UNCHANGED <<walVars, mem, settled, ghost>>
    /\ IF hit THEN pc' = "persist" /\ UNCHANGED <<kind, todo, hit, promise>>
              ELSE Reply(FALSE)
    /\ logUnchanged

-----------------------------------------------------------------------------
(* After the mutations of index/add and index/delete.                      *)

\* Engine::build(); it fails when the embedder does, and the handler returns
\* that error without persisting.
Build ==
    /\ up /\ pc = "build"
    /\ UNCHANGED <<walVars, mem, settled, ghost>>
    /\ \/ pc' = "persist" /\ UNCHANGED <<kind, todo, hit, promise>>
       \/ Fails("build") /\ Reply(FALSE)
    /\ logUnchanged

\* With a log that is short enough there is nothing to do.
PersistNothing ==
    /\ up /\ pc = "persist"
    /\ logged /\ bytes < CheckpointAt
    /\ UNCHANGED <<walVars, mem, settled, ghost>>
    /\ Reply(TRUE)
    /\ logUnchanged

\* Broken variant: a checkpoint that drops the log before it saves.
TruncateFirst ==
    /\ up /\ pc = "persist"
    /\ logged /\ bytes >= CheckpointAt
    /\ pc' = "truncate"
    /\ UNCHANGED <<walVars, logged, up, mem, kind, todo, hit, snap, next,
                   settled, ghost, promise>>

\* save() puts the new snapshot in place; checkpoint() goes on to the log.
Save ==
    /\ up /\ pc = "persist"
    /\ logged => bytes >= CheckpointAt
    /\ snap' = [docs |-> mem.docs, dead |-> mem.dead, upto |-> next]
    /\ UNCHANGED <<walVars, logged, up, mem, next, settled, ghost>>
    /\ IF logged THEN pc' = "truncate" /\ UNCHANGED <<kind, todo, hit, promise>>
                 ELSE Reply(TRUE)

SaveFails ==
    /\ up /\ pc = "persist"
    /\ logged => bytes >= CheckpointAt
    /\ Fails("save")
    /\ UNCHANGED <<walVars, mem, settled, ghost>>
    /\ Reply(FALSE)
    /\ logUnchanged

Truncate ==
    /\ up /\ pc = "truncate"
    /\ W!StartTruncate
    /\ settled' = 0
    /\ ghost' = FALSE
    /\ UNCHANGED <<mem, pc, kind, todo, hit, promise>>
    /\ logUnchanged

TruncateDone ==
    /\ up /\ W!TruncateSyncOk
    /\ UNCHANGED <<mem, settled, ghost>>
    /\ Reply(TRUE)
    /\ logUnchanged

\* ftruncate() fails and the log stays as it was, or the sync after it fails.
TruncateFails ==
    /\ up /\ pc = "truncate" /\ Fails("truncate")
    /\ \/ W!TruncateSyncError
       \/ phase = "idle" /\ UNCHANGED walVars
    /\ UNCHANGED <<mem, settled, ghost>>
    /\ Reply(FALSE)
    /\ logUnchanged

-----------------------------------------------------------------------------
(* Crash and restart.  Until the restart mem, pc and the request keep, as  *)
(* history, what the process held and was doing when it stopped.           *)

stopped == UNCHANGED <<logged, mem, pc, kind, todo, hit, snap, next,
                       settled, ghost, promise>>

Crash ==
    /\ up /\ Fails("crash")
    /\ up' = FALSE
    /\ IF logged THEN \E cut \in BOOLEAN : (cut => Fails("write")) /\ W!Crash(cut)
                 ELSE UNCHANGED walVars
    /\ stopped

PowerLoss ==
    /\ Fails("power")
    /\ up' = FALSE
    /\ W!PowerLoss
    /\ stopped

\* What a restart serves, and what it may serve after a power loss that comes
\* before the next sync: the replayed log is not synced.
Served ==
    IF logged THEN {Recovered(f) : f \in {file} \union W!PowerLossImages}
              ELSE {Snapshot}

\* Engine::open() loads the snapshot, open_wal() replays the log and opens it.
\* A replay that reports corruption leaves the server down.
Restart ==
    /\ ~up
    /\ up' = TRUE
    /\ IF logged THEN W!Open ELSE UNCHANGED walVars
    /\ mem' = IF logged THEN Recovered(file) ELSE Snapshot
    /\ settled' = Len(file)
    /\ ghost' = FALSE
    /\ pc' = "idle" /\ kind' = "none" /\ todo' = <<>> /\ hit' = FALSE
    /\ promise' = [u \in DOMAIN promise |->
           promise[u] \union {LiveOf(t, u) : t \in Served}]
    /\ UNCHANGED <<logged, snap, next>>

Next ==
    \/ \E n \in 1..MaxItems :
           \/ \E us \in [1..n -> Uri \union {Anon}] : IndexAdd(us) \/ AddDocuments(us)
           \/ \E ids \in [1..n -> 1..Len(mem.docs)] : IndexDelete(ids)
    \/ StartLog \/ WriteLog \/ Apply \/ ApplyFails \/ PassOver
    \/ DeleteDone \/ Build
    \/ PersistNothing \/ Save \/ SaveFails
    \/ Truncate \/ TruncateDone \/ TruncateFails
    \/ Crash \/ PowerLoss \/ Restart

Spec == Init /\ [][Next]_vars

-----------------------------------------------------------------------------
(* Properties                                                              *)

Table == [docs : Seq([uri : Uri \union {Anon}, n : Write]), dead : SUBSET Nat]

\* The log satisfies its own type invariant; tombstones name documents; a
\* request is in progress exactly when pc says so.
TypeOK ==
    /\ W!TypeOK
    /\ logged \in BOOLEAN /\ up \in BOOLEAN
    /\ open = (logged /\ up)
    /\ mem \in Table /\ mem.dead \subseteq 1..Len(mem.docs)
    /\ Snapshot \in Table /\ snap.dead \subseteq 1..Len(snap.docs)
    /\ pc \in {"idle", "drop", "insert", "bulk", "erase", "build", "persist", "truncate"}
    /\ kind \in {"none", "index_add", "add", "index_delete"}
    /\ pc = "idle" <=> kind = "none"
    /\ pc \in {"drop", "insert", "bulk"} => todo # <<>>
    /\ pc \in {"build", "persist", "truncate"} => todo = <<>>
    /\ next \in 1..(MaxWrites + 1) /\ snap.upto \in 1..next
    /\ settled \in Nat /\ (up => settled <= Len(file))
    /\ \A u \in DOMAIN promise : promise[u] # {} /\ promise[u] \subseteq SUBSET Write

\* The ways in which the disk can hold something else than what was
\* acknowledged, each with a reason in the code: a buried fragment (Wal), a
\* frame left by a call that failed (ghost), and the following four.

\* checkpoint(): the snapshot is in place, the log it makes obsolete as well.
\* A replay then applies to the snapshot what it already contains.
Window(f) == \E i \in 1..Len(f) : f[i].rec.n < snap.upto

\* upsert_document() has logged the remove and not yet the add.
HalfUpsert(f) ==
    /\ pc \in {"drop", "insert"}
    /\ \E i \in 1..Len(f) :
           f[i].whole /\ f[i].rec.op = "remove" /\ f[i].rec.n = todo[1].n
    /\ ~\E i \in 1..Len(f) :
           f[i].whole /\ f[i].rec.op = "add" /\ f[i].rec.n = todo[1].n

\* The log adds a document whose uri is live at that point of the replay:
\* add_document() does not replace, neither does an upsert whose remove could
\* not be logged, and an upsert over two live documents replaces only one.  The
\* replay, an upsert, does replace.
SameUriTwice(f) ==
    \E i \in 1..W!Intact(f) :
        /\ f[i].rec.op = "add"
        /\ FindByUri(Recovered(SubSeq(f, 1, i - 1)), f[i].rec.uri) # 0

\* A running index/add has left two live documents where it promised one.
NotReplaced ==
    kind = "index_add" /\ \E u \in Uri : \E m, n \in LiveOf(mem, u) : m # n

\* The log f is replayed as the mutations were applied.
Faithful(f) == ~(W!Buried(f) \/ Window(f) \/ SameUriTwice(f))

Exposed == ~Faithful(file) \/ ghost \/ HalfUpsert(file) \/ NotReplaced

OnDisk == IF logged THEN Recovered(file) ELSE Snapshot

\* "A server restart after a crash comes back with every acknowledged write
\* intact" (docs/persistence.md): outside the exposed states, whatever failed
\* before and whenever the process or the machine stops, a restart serves for
\* every uri what the last reply said or what a request without a success
\* reply asked for.
AckedWritesSurvive ==
    ~Exposed => \A u \in Uri \union {Anon} : LiveOf(OnDisk, u) \in promise[u]

\* "Recovery produces exactly the corpus the original run had - same ids"
\* (corpus.cpp): outside the exposed states the settled part of the log,
\* replayed on the snapshot, gives the running process's own table, ids and
\* tombstones included.
ReplayIsExact ==
    up /\ logged /\ ~Exposed => Recovered(SubSeq(file, 1, settled)) = mem

\* AckedWritesSurvive without its condition.  An upsert that a crash stops
\* between its two records violates it: the old document is gone, the new one
\* was never logged.
AckedWritesIntact == \A u \in Uri \union {Anon} : LiveOf(OnDisk, u) \in promise[u]

\* A restart serves no document that no client was led to expect.  A crash
\* between checkpoint()'s save and its truncate violates it: the replay brings
\* back, under a new id, a document whose delete was acknowledged.
NothingResurrected ==
    \A u \in Uri : LiveOf(OnDisk, u) \subseteq UNION promise[u]
=============================================================================
