------------------------ MODULE DurableCorpus_proofs ------------------------
(***************************************************************************)
(* Proofs about DurableCorpus, for every set of uris, every bound and      *)
(* every set of faults: a restart serves what was acknowledged.            *)
(*                                                                         *)
(* The inductive invariant IInv: the log's own (Wal_proofs), the types and *)
(* the place of the running request (Typed, InRequest), what the running   *)
(* call has put at the end of the log (InCall), numbers that no write has  *)
(* had (Fresh), that the settled log replayed on the snapshot gives the    *)
(* table (KnownExact, and KnownKept for what a power loss may leave of     *)
(* it), that only a log made obsolete by a snapshot differs on the device  *)
(* (Synced, OldLog), and that every table the request may still make is    *)
(* one a client may expect (Expected, Unlogged).  DiskPromised, which is   *)
(* the property about every file a restart may find, follows from these    *)
(* and is carried along.                                                   *)
(***************************************************************************)
EXTENDS DurableCorpus, Orders_proofs

-----------------------------------------------------------------------------
(* The folds of the model: what they give for no record or item, and for   *)
(* one more.                                                               *)

\* The function that ReplayFrom is defined by exists.
LEMMA ReplayFunction ==
    ASSUME NEW t, NEW recs, Len(recs) \in Nat
    PROVE  \E at :
              /\ \A i \in 0..Len(recs) :
                    at[i] = IF i = 0 THEN t ELSE ReplayRecord(at[i - 1], recs[i])
              /\ ReplayFrom(t, recs) = at[Len(recs)]
<1> DEFINE Good(n, g) ==
             g = [i \in 0..n |-> IF i = 0 THEN t ELSE ReplayRecord(g[i - 1], recs[i])]
           S == {n \in Nat : \E g : Good(n, g)}
<1>1. 0 \in S
  <2> DEFINE g == [i \in 0..0 |-> t]
  <2>1. Good(0, g)
    OBVIOUS
  <2> QED BY <2>1
<1>2. ASSUME NEW n \in Nat, n \in S PROVE n + 1 \in S
  <2>1. PICK g : Good(n, g)
    BY <1>2
  <2> DEFINE h == [i \in 0..(n + 1) |->
                     IF i = n + 1 THEN ReplayRecord(g[n], recs[n + 1]) ELSE g[i]]
  <2>2. ASSUME NEW i \in 0..(n + 1)
        PROVE  h[i] = IF i = 0 THEN t ELSE ReplayRecord(h[i - 1], recs[i])
    BY <2>1
  <2>3. Good(n + 1, h)
    BY <2>2
  <2> HIDE DEF Good, h
  <2> QED BY <2>3
<1>3. Len(recs) \in S
  <2> HIDE DEF S
  <2> QED BY <1>1, <1>2, Induction
<1> DEFINE at == CHOOSE g : Good(Len(recs), g)
<1>4. Good(Len(recs), at)
  BY <1>3
<1>5. ReplayFrom(t, recs) = at[Len(recs)]
  BY DEF ReplayFrom
<1>6. \A i \in 0..Len(recs) :
         at[i] = IF i = 0 THEN t ELSE ReplayRecord(at[i - 1], recs[i])
  <2> HIDE DEF at
  <2> QED BY <1>4
<1> HIDE DEF at
<1> QED BY <1>5, <1>6

LEMMA ReplayNothing ==
    ASSUME NEW t
    PROVE  ReplayFrom(t, <<>>) = t
<1>1. Len(<<>>) = 0
  OBVIOUS
<1>2. PICK at :
         /\ \A i \in 0..Len(<<>>) :
               at[i] = IF i = 0 THEN t ELSE ReplayRecord(at[i - 1], <<>>[i])
         /\ ReplayFrom(t, <<>>) = at[Len(<<>>)]
  BY <1>1, ReplayFunction
<1> QED BY <1>1, <1>2

\* The last record is replayed on what the others give.
LEMMA ReplayOneMore ==
    ASSUME NEW t, NEW recs, NEW more, Len(recs) \in Nat,
           Len(more) = Len(recs) + 1, \A i \in 1..Len(recs) : recs[i] = more[i]
    PROVE  ReplayFrom(t, more) = ReplayRecord(ReplayFrom(t, recs), more[Len(more)])
<1>1. PICK at :
         /\ \A i \in 0..Len(recs) :
               at[i] = IF i = 0 THEN t ELSE ReplayRecord(at[i - 1], recs[i])
         /\ ReplayFrom(t, recs) = at[Len(recs)]
  BY ReplayFunction
<1>2. PICK bt :
         /\ \A i \in 0..Len(more) :
               bt[i] = IF i = 0 THEN t ELSE ReplayRecord(bt[i - 1], more[i])
         /\ ReplayFrom(t, more) = bt[Len(more)]
  <2>1. Len(more) \in Nat
    OBVIOUS
  <2> QED BY <2>1, ReplayFunction
<1> DEFINE S == {n \in Nat : n <= Len(recs) => at[n] = bt[n]}
<1>3. 0 \in S
  BY <1>1, <1>2
<1>4. ASSUME NEW n \in Nat, n \in S PROVE n + 1 \in S
  <2> SUFFICES ASSUME n + 1 <= Len(recs) PROVE at[n + 1] = bt[n + 1]
    OBVIOUS
  <2>1. at[n] = bt[n] /\ recs[n + 1] = more[n + 1]
    BY <1>4
  <2>2. n + 1 \in 0..Len(recs) /\ n + 1 \in 0..Len(more) /\ n + 1 # 0 /\ (n + 1) - 1 = n
    OBVIOUS
  <2>3. /\ at[n + 1] = ReplayRecord(at[n], recs[n + 1])
        /\ bt[n + 1] = ReplayRecord(bt[n], more[n + 1])
    BY <1>1, <1>2, <2>2
  <2> QED BY <2>1, <2>3
<1>5. at[Len(recs)] = bt[Len(recs)]
  <2>1. Nat \subseteq S
    <3> HIDE DEF S
    <3> QED BY <1>3, <1>4, Induction
  <2> QED BY <2>1
<1>6. bt[Len(more)] = ReplayRecord(bt[Len(recs)], more[Len(more)])
  <2>1. Len(more) \in 0..Len(more) /\ Len(more) # 0 /\ Len(more) - 1 = Len(recs)
    OBVIOUS
  <2> QED BY <1>2, <2>1
<1> QED BY <1>1, <1>2, <1>5, <1>6

LEMMA DoneFunction ==
    ASSUME NEW t, NEW k, NEW items, NEW n \in Nat
    PROVE  \E at :
              /\ \A i \in 0..n :
                    at[i] = IF i = 0 THEN t ELSE Done(at[i - 1], k, items[i])
              /\ DoneFirst(t, k, items, n) = at[n]
<1> DEFINE Good(m, g) ==
             g = [i \in 0..m |-> IF i = 0 THEN t ELSE Done(g[i - 1], k, items[i])]
           S == {m \in Nat : \E g : Good(m, g)}
<1>1. 0 \in S
  <2> DEFINE g == [i \in 0..0 |-> t]
  <2>1. Good(0, g)
    OBVIOUS
  <2> QED BY <2>1
<1>2. ASSUME NEW m \in Nat, m \in S PROVE m + 1 \in S
  <2>1. PICK g : Good(m, g)
    BY <1>2
  <2> DEFINE h == [i \in 0..(m + 1) |->
                     IF i = m + 1 THEN Done(g[m], k, items[m + 1]) ELSE g[i]]
  <2>2. ASSUME NEW i \in 0..(m + 1)
        PROVE  h[i] = IF i = 0 THEN t ELSE Done(h[i - 1], k, items[i])
    BY <2>1
  <2>3. Good(m + 1, h)
    BY <2>2
  <2> HIDE DEF Good, h
  <2> QED BY <2>3
<1>3. n \in S
  <2> HIDE DEF S
  <2> QED BY <1>1, <1>2, Induction
<1> DEFINE at == CHOOSE g : Good(n, g)
<1>4. Good(n, at)
  BY <1>3
<1>5. DoneFirst(t, k, items, n) = at[n]
  BY DEF DoneFirst
<1>6. \A i \in 0..n : at[i] = IF i = 0 THEN t ELSE Done(at[i - 1], k, items[i])
  <2> HIDE DEF at
  <2> QED BY <1>4
<1> HIDE DEF at
<1> QED BY <1>5, <1>6

LEMMA DoneNothing ==
    ASSUME NEW t, NEW k, NEW items
    PROVE  DoneFirst(t, k, items, 0) = t
<1>1. PICK at :
         /\ \A i \in 0..0 :
               at[i] = IF i = 0 THEN t ELSE Done(at[i - 1], k, items[i])
         /\ DoneFirst(t, k, items, 0) = at[0]
  BY DoneFunction
<1> QED BY <1>1

LEMMA DoneOneMore ==
    ASSUME NEW t, NEW k, NEW items, NEW n \in Nat
    PROVE  DoneFirst(t, k, items, n + 1)
             = Done(DoneFirst(t, k, items, n), k, items[n + 1])
<1>1. PICK at :
         /\ \A i \in 0..n :
               at[i] = IF i = 0 THEN t ELSE Done(at[i - 1], k, items[i])
         /\ DoneFirst(t, k, items, n) = at[n]
  BY DoneFunction
<1>2. PICK bt :
         /\ \A i \in 0..(n + 1) :
               bt[i] = IF i = 0 THEN t ELSE Done(bt[i - 1], k, items[i])
         /\ DoneFirst(t, k, items, n + 1) = bt[n + 1]
  BY DoneFunction
<1> DEFINE S == {m \in Nat : m <= n => at[m] = bt[m]}
<1>3. 0 \in S
  BY <1>1, <1>2
<1>4. ASSUME NEW m \in Nat, m \in S PROVE m + 1 \in S
  <2> SUFFICES ASSUME m + 1 <= n PROVE at[m + 1] = bt[m + 1]
    OBVIOUS
  <2>1. at[m] = bt[m]
    BY <1>4
  <2>2. m + 1 \in 0..n /\ m + 1 \in 0..(n + 1) /\ m + 1 # 0 /\ (m + 1) - 1 = m
    OBVIOUS
  <2>3. /\ at[m + 1] = Done(at[m], k, items[m + 1])
        /\ bt[m + 1] = Done(bt[m], k, items[m + 1])
    BY <1>1, <1>2, <2>2
  <2> QED BY <2>1, <2>3
<1>5. at[n] = bt[n]
  <2>1. Nat \subseteq S
    <3> HIDE DEF S
    <3> QED BY <1>3, <1>4, Induction
  <2> QED BY <2>1
<1>6. bt[n + 1] = Done(bt[n], k, items[n + 1])
  <2>1. n + 1 \in 0..(n + 1) /\ n + 1 # 0 /\ (n + 1) - 1 = n
    OBVIOUS
  <2> QED BY <1>2, <2>1
<1> QED BY <1>1, <1>2, <1>5, <1>6

\* The first item done, what is left is the same request on the other table.
LEMMA DoneRest ==
    ASSUME NEW t, NEW k, NEW items, NEW rest, NEW n \in Nat,
           \A i \in 1..n : rest[i] = items[i + 1]
    PROVE  DoneFirst(t, k, items, n + 1) = DoneFirst(Done(t, k, items[1]), k, rest, n)
<1> DEFINE d == Done(t, k, items[1])
           S == {m \in Nat : m <= n =>
                    DoneFirst(t, k, items, m + 1) = DoneFirst(d, k, rest, m)}
<1>1. 0 \in S
  <2>1. DoneFirst(t, k, items, 0 + 1) = Done(DoneFirst(t, k, items, 0), k, items[0 + 1])
    BY DoneOneMore
  <2>2. DoneFirst(t, k, items, 0) = t /\ DoneFirst(d, k, rest, 0) = d
    BY DoneNothing
  <2>3. 0 + 1 = 1
    OBVIOUS
  <2> HIDE DEF d
  <2>4. DoneFirst(t, k, items, 1) = d
    BY <2>1, <2>2, <2>3 DEF d
  <2> QED BY <2>2, <2>3, <2>4
<1>2. ASSUME NEW m \in Nat, m \in S PROVE m + 1 \in S
  <2> HIDE DEF d
  <2> SUFFICES ASSUME m + 1 <= n
               PROVE  DoneFirst(t, k, items, (m + 1) + 1) = DoneFirst(d, k, rest, m + 1)
    OBVIOUS
  <2>1. DoneFirst(t, k, items, m + 1) = DoneFirst(d, k, rest, m)
    BY <1>2
  <2>2. DoneFirst(t, k, items, (m + 1) + 1)
          = Done(DoneFirst(t, k, items, m + 1), k, items[(m + 1) + 1])
    BY DoneOneMore
  <2>3. DoneFirst(d, k, rest, m + 1) = Done(DoneFirst(d, k, rest, m), k, rest[m + 1])
    BY DoneOneMore
  <2>4. rest[m + 1] = items[(m + 1) + 1]
    OBVIOUS
  <2> QED BY <2>1, <2>2, <2>3, <2>4
<1>3. Nat \subseteq S
  <2> HIDE DEF S
  <2> QED BY <1>1, <1>2, Induction
<1> HIDE DEF d
<1>4. DoneFirst(t, k, items, n + 1) = DoneFirst(d, k, rest, n)
  BY <1>3
<1> QED BY <1>4 DEF d

-----------------------------------------------------------------------------
(* The document table.                                                     *)

Uris == Uri \union {Anon}
Document == [uri : Uris, n : Write]

\* Tables whose tombstones name documents.
GoodTable == {t \in [docs : Seq(Document), dead : SUBSET Nat] :
                 t.dead \subseteq 1..Len(t.docs)}

LEMMA EmptyIsGood == EmptyTable \in GoodTable
BY DEF EmptyTable, GoodTable

LEMMA LiveIsIds ==
    ASSUME NEW t \in GoodTable, NEW id \in Live(t)
    PROVE  /\ id \in 1..Len(t.docs) /\ id \in Nat
           /\ t.docs[id] \in Document
BY DEF Live, GoodTable

LEMMA FindByUriLive ==
    ASSUME NEW t \in GoodTable, NEW u, FindByUri(t, u) # 0
    PROVE  FindByUri(t, u) \in Live(t) /\ t.docs[FindByUri(t, u)].uri = u /\ u # Anon
<1> DEFINE found == {id \in Live(t) : t.docs[id].uri = u}
<1>1. u # Anon /\ found # {}
  BY DEF FindByUri
<1>2. found \in SUBSET Nat
  BY LiveIsIds
<1>3. PICK x \in found : \A y \in found : x <= y
  BY <1>1, <1>2, LeastNumber
<1>4. (CHOOSE id \in found : \A other \in found : id <= other) \in found
  BY <1>3
<1>5. FindByUri(t, u) = CHOOSE id \in found : \A other \in found : id <= other
  BY <1>1 DEF FindByUri
<1> QED BY <1>1, <1>4, <1>5

LEMMA FindByUriNone ==
    ASSUME NEW t \in GoodTable, NEW u, u # Anon, NEW id \in Live(t), t.docs[id].uri = u
    PROVE  FindByUri(t, u) # 0
<1> DEFINE found == {i \in Live(t) : t.docs[i].uri = u}
<1>1. id \in found
  OBVIOUS
<1>2. found \in SUBSET Nat
  BY LiveIsIds
<1>3. PICK x \in found : \A y \in found : x <= y
  BY <1>1, <1>2, LeastNumber
<1>4. (CHOOSE i \in found : \A other \in found : i <= other) \in found
  BY <1>3
<1>5. FindByUri(t, u) = CHOOSE i \in found : \A other \in found : i <= other
  BY <1>1 DEF FindByUri
<1>6. \A i \in found : i # 0
  BY LiveIsIds
<1> HIDE DEF found
<1> QED BY <1>4, <1>5, <1>6

LEMMA FindByUriNumber ==
    ASSUME NEW t \in GoodTable, NEW u
    PROVE  FindByUri(t, u) \in Nat
<1>1. CASE FindByUri(t, u) = 0
  BY <1>1
<1>2. CASE FindByUri(t, u) # 0
  BY <1>2, FindByUriLive, LiveIsIds
<1> QED BY <1>1, <1>2

LEMMA KillIsGood ==
    ASSUME NEW t \in GoodTable, NEW id
    PROVE  Kill(t, id) \in GoodTable /\ Kill(t, id).docs = t.docs
<1>1. CASE id \in Live(t)
  BY <1>1, LiveIsIds DEF Kill, GoodTable
<1>2. CASE id \notin Live(t)
  BY <1>2 DEF Kill
<1> QED BY <1>1, <1>2

LEMMA PushIsGood ==
    ASSUME NEW t \in GoodTable, NEW d \in Document
    PROVE  /\ Push(t, d) \in GoodTable
           /\ Push(t, d).dead = t.dead
           /\ Push(t, d).docs = Append(t.docs, d)
<1>1. t.docs \in Seq(Document) /\ t = [docs |-> t.docs, dead |-> t.dead]
  BY DEF GoodTable
<1>2. Push(t, d) = [docs |-> Append(t.docs, d), dead |-> t.dead]
  BY <1>1 DEF Push
<1>3. /\ Append(t.docs, d) \in Seq(Document)
      /\ Len(Append(t.docs, d)) = Len(t.docs) + 1
  BY <1>1
<1>4. Push(t, d) \in GoodTable
  BY <1>2, <1>3 DEF GoodTable
<1> QED BY <1>2, <1>4

LEMMA UpsertIsGood ==
    ASSUME NEW t \in GoodTable, NEW d \in Document
    PROVE  /\ Upsert(t, d) \in GoodTable
           /\ Upsert(t, d).docs = Append(t.docs, d)
BY KillIsGood, PushIsGood DEF Upsert

\* A document is pushed alive, and no other changes.
LEMMA PushLive ==
    ASSUME NEW t \in GoodTable, NEW d \in Document, NEW u
    PROVE  /\ LiveOf(t, u) \subseteq LiveOf(Push(t, d), u)
           /\ d.n \in LiveOf(Push(t, d), d.uri)
<1> DEFINE p == Push(t, d)
<1>1. /\ p.docs = Append(t.docs, d) /\ p.dead = t.dead
      /\ t.docs \in Seq(Document) /\ t.dead \subseteq 1..Len(t.docs)
  BY PushIsGood DEF GoodTable
<1> HIDE DEF p
<1>2. /\ Live(p) = Live(t) \union {Len(t.docs) + 1}
      /\ \A id \in Live(t) : p.docs[id] = t.docs[id]
      /\ p.docs[Len(t.docs) + 1] = d
  BY <1>1 DEF Live
<1>3. LiveOf(t, u) \subseteq LiveOf(p, u) /\ d.n \in LiveOf(p, d.uri)
  BY <1>2 DEF LiveOf
<1> QED BY <1>3 DEF p

LEMMA KillLive ==
    ASSUME NEW t \in GoodTable, NEW id
    PROVE  Live(Kill(t, id)) = Live(t) \ {id}
<1>1. CASE id \in Live(t)
  BY <1>1 DEF Kill, Live, GoodTable
<1>2. CASE id \notin Live(t)
  BY <1>2 DEF Kill
<1> QED BY <1>1, <1>2

LEMMA LiveOfWrites ==
    ASSUME NEW t \in GoodTable, NEW u
    PROVE  LiveOf(t, u) \subseteq Write
BY LiveIsIds DEF LiveOf, Document

\* Deletes: none, one, and one before others.
LEMMA ErasedTable ==
    ASSUME NEW t \in GoodTable, NEW ids
    PROVE  Erased(t, ids) = [docs |-> t.docs, dead |-> t.dead \union (Live(t) \intersect ids)]
<1>1. t = [docs |-> t.docs, dead |-> t.dead]
  BY DEF GoodTable
<1> QED BY <1>1 DEF Erased

LEMMA ErasedIsGood ==
    ASSUME NEW t \in GoodTable, NEW ids
    PROVE  Erased(t, ids) \in GoodTable /\ Erased(t, ids).docs = t.docs
<1>1. Live(t) \subseteq 1..Len(t.docs)
  BY DEF Live
<1> QED BY <1>1, ErasedTable DEF GoodTable

LEMMA ErasedNone ==
    ASSUME NEW t \in GoodTable
    PROVE  Erased(t, {}) = t
<1>1. t = [docs |-> t.docs, dead |-> t.dead]
  BY DEF GoodTable
<1>2. t.dead \union (Live(t) \intersect {}) = t.dead
  OBVIOUS
<1> QED BY <1>1, <1>2, ErasedTable

LEMMA ErasedOneFirst ==
    ASSUME NEW t \in GoodTable, NEW id, NEW ids
    PROVE  Erased(Kill(t, id), ids) = Erased(t, {id} \union ids)
<1> DEFINE k == Kill(t, id)
<1>1. k \in GoodTable /\ k.docs = t.docs
  BY KillIsGood
<1>2. Live(k) = Live(t) \ {id}
  BY KillLive
<1>3. k.dead = t.dead \union (Live(t) \intersect {id})
  BY DEF Kill, GoodTable
<1> HIDE DEF k
<1>4. k.dead \union (Live(k) \intersect ids)
        = t.dead \union (Live(t) \intersect ({id} \union ids))
  BY <1>2, <1>3
<1>5. Erased(k, ids) = [docs |-> k.docs, dead |-> k.dead \union (Live(k) \intersect ids)]
  BY <1>1, ErasedTable
<1>6. Erased(t, {id} \union ids)
        = [docs |-> t.docs, dead |-> t.dead \union (Live(t) \intersect ({id} \union ids))]
  BY ErasedTable
<1>7. Erased(k, ids) = Erased(t, {id} \union ids)
  BY <1>1, <1>4, <1>5, <1>6
<1> QED BY <1>7 DEF k

LEMMA KillIsErased ==
    ASSUME NEW t \in GoodTable, NEW id
    PROVE  Kill(t, id) = Erased(t, {id})
<1>1. Erased(Kill(t, id), {}) = Kill(t, id)
  BY KillIsGood, ErasedNone
<1>2. Erased(Kill(t, id), {}) = Erased(t, {id} \union {})
  BY ErasedOneFirst
<1>3. {id} \union {} = {id}
  OBVIOUS
<1> QED BY <1>1, <1>2, <1>3

\* The tables of an unfinished add or upsert are good.
LEMMA DoneIsGood ==
    ASSUME NEW t \in GoodTable, NEW k \in {"index_add", "add"},
           NEW items \in Seq(Document), NEW n \in 0..Len(items)
    PROVE  DoneFirst(t, k, items, n) \in GoodTable
<1> DEFINE S == {m \in Nat : m <= Len(items) => DoneFirst(t, k, items, m) \in GoodTable}
<1>1. 0 \in S
  BY DoneNothing
<1>2. ASSUME NEW m \in Nat, m \in S PROVE m + 1 \in S
  <2> SUFFICES ASSUME m + 1 <= Len(items)
               PROVE  DoneFirst(t, k, items, m + 1) \in GoodTable
    OBVIOUS
  <2>1. DoneFirst(t, k, items, m) \in GoodTable /\ items[m + 1] \in Document
    BY <1>2
  <2>2. DoneFirst(t, k, items, m + 1) = Done(DoneFirst(t, k, items, m), k, items[m + 1])
    BY DoneOneMore
  <2> QED BY <2>1, <2>2, UpsertIsGood, PushIsGood DEF Done
<1>3. Nat \subseteq S
  <2> HIDE DEF S
  <2> QED BY <1>1, <1>2, Induction
<1> QED BY <1>3

-----------------------------------------------------------------------------
(* The log and its replay.                                                 *)

Log == Seq(W!Frame)

\* What a start that loads the snapshot s makes of the log f.
Replay(s, f) == ReplayFrom([docs |-> s.docs, dead |-> s.dead], W!Replayed(f))

\* Faithful, for any snapshot.
Sound(s, f) ==
    /\ ~W!Buried(f)
    /\ \A i \in 1..Len(f) : ~(f[i].rec.n < s.upto)
    /\ \A i \in 1..W!Intact(f) : f[i].rec.op = "add" =>
           FindByUri(Replay(s, SubSeq(f, 1, i - 1)), f[i].rec.uri) = 0

LEMMA RecoveredIsReplay == \A f : Recovered(f) = Replay(snap, f)
BY DEF Recovered, Replay, Snapshot

LEMMA FaithfulIsSound == \A f : Faithful(f) <=> Sound(snap, f)
BY RecoveredIsReplay DEF Faithful, Sound, Window, SameUriTwice

LEMMA IntactSpec ==
    ASSUME NEW f \in Log
    PROVE  /\ W!Intact(f) \in 0..Len(f)
           /\ \A i \in 1..W!Intact(f) : f[i].whole
           /\ W!Intact(f) < Len(f) => ~f[W!Intact(f) + 1].whole
<1> DEFINE Good(n) == /\ \A i \in 1..n : f[i].whole
                      /\ n < Len(f) => ~f[n + 1].whole
<1>1. \E n \in 0..Len(f) : Good(n)
  <2>1. CASE \A i \in 1..Len(f) : f[i].whole
    BY <2>1
  <2>2. CASE \E i \in 1..Len(f) : ~f[i].whole
    <3> DEFINE T == {i \in 1..Len(f) : ~f[i].whole}
    <3>1. T \in SUBSET Nat /\ T # {}
      BY <2>2
    <3>2. PICK x \in T : \A y \in T : x <= y
      BY <3>1, LeastNumber
    <3>3. x - 1 \in 0..Len(f) /\ \A i \in 1..(x - 1) : f[i].whole
      BY <3>2
    <3>4. (x - 1) + 1 = x /\ ~f[x].whole
      BY <3>2
    <3>5. Good(x - 1)
      BY <3>3, <3>4
    <3> HIDE DEF Good
    <3> QED BY <3>3, <3>5
  <2> QED BY <2>1, <2>2
<1>2. Good(CHOOSE n \in 0..Len(f) : Good(n)) /\ (CHOOSE n \in 0..Len(f) : Good(n)) \in 0..Len(f)
  <2> HIDE DEF Good
  <2> QED BY <1>1
<1> QED BY <1>2 DEF W!Intact

\* A log without a buried fragment is whole, or whole up to its last frame.
LEMMA IntactUnburied ==
    ASSUME NEW f \in Log, ~W!Buried(f)
    PROVE  /\ \A i \in 1..(Len(f) - 1) : f[i].whole
           /\ f # <<>> /\ f[Len(f)].whole => W!Intact(f) = Len(f)
           /\ f # <<>> /\ ~f[Len(f)].whole => W!Intact(f) = Len(f) - 1
           /\ f = <<>> => W!Intact(f) = 0
<1>1. \A i \in 1..(Len(f) - 1) : f[i].whole
  BY DEF W!Buried
<1>2. /\ W!Intact(f) \in 0..Len(f)
      /\ \A i \in 1..W!Intact(f) : f[i].whole
      /\ W!Intact(f) < Len(f) => ~f[W!Intact(f) + 1].whole
  BY IntactSpec
<1>3. Len(f) \in Nat /\ (f # <<>> <=> Len(f) # 0)
  BY DEF Log
<1> HIDE DEF Log
<1> QED BY <1>1, <1>2, <1>3

LEMMA IntactPrefix ==
    ASSUME NEW f \in Log, ~W!Buried(f), NEW n \in 0..Len(f)
    PROVE  /\ SubSeq(f, 1, n) \in Log
           /\ ~W!Buried(SubSeq(f, 1, n))
           /\ W!Intact(SubSeq(f, 1, n)) <= n
           /\ W!Intact(SubSeq(f, 1, n)) <= W!Intact(f)
<1> DEFINE g == SubSeq(f, 1, n)
<1>1. g \in Log /\ Len(g) = n /\ \A i \in 1..n : g[i] = f[i]
  BY DEF Log
<1>2. ~W!Buried(g)
  BY <1>1 DEF W!Buried, Log
<1>3. Len(f) \in Nat
  BY DEF Log
<1> HIDE DEF g, Log
<1>4. W!Intact(f) \in {Len(f), Len(f) - 1} /\ W!Intact(f) \in 0..Len(f)
  BY IntactUnburied, IntactSpec, <1>3
<1>5. W!Intact(g) \in 0..n
  BY <1>1, IntactSpec
<1>6. ASSUME n <= W!Intact(f) PROVE W!Intact(g) <= W!Intact(f)
  BY <1>3, <1>4, <1>5, <1>6
<1>7. ASSUME ~(n <= W!Intact(f)) PROVE W!Intact(g) <= W!Intact(f)
  <2>1. n = Len(f) /\ W!Intact(f) = Len(f) - 1 /\ f # <<>>
    BY <1>3, <1>4, <1>7, IntactUnburied
  <2>2. g = f
    BY <1>1, <2>1 DEF g, Log
  <2> QED BY <1>4, <2>1, <2>2
<1>8. W!Intact(g) <= W!Intact(f)
  BY <1>3, <1>4, <1>5, <1>6, <1>7
<1>9. W!Intact(g) <= n
  BY <1>5
<1> QED BY <1>1, <1>2, <1>8, <1>9 DEF g

LEMMA AppendToLog ==
    ASSUME NEW f \in Log, NEW x \in W!Frame
    PROVE  /\ Append(f, x) \in Log /\ Append(f, x) # <<>>
           /\ Len(f) \in Nat /\ Len(Append(f, x)) = Len(f) + 1
           /\ Append(f, x)[Len(f) + 1] = x
           /\ \A i \in 1..Len(f) : Append(f, x)[i] = f[i]
           /\ f = SubSeq(Append(f, x), 1, Len(f))
<1>1. f \in Seq(W!Frame)
  BY DEF Log
<1>2. Append(f, x) \in Seq(W!Frame) /\ Append(f, x) # <<>> /\ Len(f) \in Nat
  BY <1>1
<1>3. Len(Append(f, x)) = Len(f) + 1
  BY <1>1
<1>4. /\ Append(f, x)[Len(f) + 1] = x
      /\ \A i \in 1..Len(f) : Append(f, x)[i] = f[i]
  BY <1>1
<1>5. f = SubSeq(Append(f, x), 1, Len(f))
  BY <1>1
<1> QED BY <1>2, <1>3, <1>4, <1>5 DEF Log

LEMMA FrameFields ==
    ASSUME NEW f \in Log, NEW i \in 1..Len(f)
    PROVE  f[i] \in W!Frame /\ f[i].rec \in Record /\ f[i].whole \in BOOLEAN
<1>1. f[i] \in W!Frame
  BY DEF Log
<1> QED BY <1>1 DEF W!Frame

LEMMA ReplayedRecords ==
    ASSUME NEW f \in Log
    PROVE  /\ W!Replayed(f) \in Seq(Record)
           /\ Len(W!Replayed(f)) = W!Intact(f)
           /\ \A i \in 1..W!Intact(f) : W!Replayed(f)[i] = f[i].rec
<1>1. W!Intact(f) \in 0..Len(f) /\ Len(f) \in Nat
  BY IntactSpec DEF Log
<1>2. \A i \in 1..W!Intact(f) : f[i].rec \in Record
  BY <1>1, FrameFields
<1> QED BY <1>1, <1>2 DEF W!Replayed

\* One more whole frame is one more record replayed.
LEMMA ReplayWhole ==
    ASSUME NEW s, NEW f \in Log, NEW r \in Record, ~W!Buried(Append(f, W!Whole(r)))
    PROVE  Replay(s, Append(f, W!Whole(r))) = ReplayRecord(Replay(s, f), r)
<1> DEFINE g == Append(f, W!Whole(r))
<1>1. W!Whole(r) \in W!Frame /\ W!Whole(r).whole /\ W!Whole(r).rec = r
  BY DEF W!Whole, W!Frame
<1>2. /\ g \in Log /\ Len(g) = Len(f) + 1 /\ g[Len(g)] = W!Whole(r)
      /\ Len(f) \in Nat /\ \A i \in 1..Len(f) : g[i] = f[i]
      /\ g # <<>> /\ f = SubSeq(g, 1, Len(f))
  BY <1>1, AppendToLog
<1>3. ~W!Buried(g)
  OBVIOUS
<1> HIDE DEF g
<1>4. \A i \in 1..Len(f) : f[i].whole
  BY <1>2, <1>3, IntactUnburied
<1>5. W!Intact(g) = Len(g)
  BY <1>1, <1>2, <1>3, IntactUnburied
<1>6. W!Intact(f) = Len(f)
  <2>1. W!Intact(f) \in 0..Len(f) /\ (W!Intact(f) < Len(f) => ~f[W!Intact(f) + 1].whole)
    BY IntactSpec
  <2> QED BY <1>2, <1>4, <2>1
<1>7. /\ Len(W!Replayed(f)) = Len(f) /\ Len(W!Replayed(g)) = Len(f) + 1
      /\ \A i \in 1..Len(f) : W!Replayed(f)[i] = W!Replayed(g)[i]
      /\ W!Replayed(g)[Len(W!Replayed(g))] = r
  BY <1>1, <1>2, <1>5, <1>6, ReplayedRecords
<1>8. Replay(s, g) = ReplayRecord(Replay(s, f), r)
  BY <1>2, <1>7, ReplayOneMore DEF Replay
<1> QED BY <1>8 DEF g

\* A fragment at the end adds nothing.
LEMMA ReplayTorn ==
    ASSUME NEW s, NEW f \in Log, NEW r \in Record, ~W!Buried(Append(f, W!Torn(r)))
    PROVE  Replay(s, Append(f, W!Torn(r))) = Replay(s, f)
<1> DEFINE g == Append(f, W!Torn(r))
<1>1. W!Torn(r) \in W!Frame /\ ~W!Torn(r).whole /\ W!Torn(r).rec = r
  BY DEF W!Torn, W!Frame
<1>2. /\ g \in Log /\ Len(g) = Len(f) + 1 /\ g[Len(g)] = W!Torn(r)
      /\ Len(f) \in Nat /\ \A i \in 1..Len(f) : g[i] = f[i]
      /\ g # <<>>
  BY <1>1 DEF Log
<1>3. ~W!Buried(g)
  OBVIOUS
<1> HIDE DEF g
<1>4. \A i \in 1..Len(f) : f[i].whole
  BY <1>2, <1>3, IntactUnburied
<1>5. W!Intact(g) = Len(f)
  BY <1>1, <1>2, <1>3, IntactUnburied
<1>6. W!Intact(f) = Len(f)
  <2>1. W!Intact(f) \in 0..Len(f) /\ (W!Intact(f) < Len(f) => ~f[W!Intact(f) + 1].whole)
    BY IntactSpec
  <2> QED BY <1>2, <1>4, <2>1
<1>7. W!Replayed(f) = W!Replayed(g)
  BY <1>2, <1>5, <1>6 DEF W!Replayed
<1> QED BY <1>7 DEF Replay, g

LEMMA ReplayEmpty ==
    ASSUME NEW s
    PROVE  Replay(s, <<>>) = [docs |-> s.docs, dead |-> s.dead]
<1>1. <<>> \in Log /\ Len(<<>>) = 0
  BY DEF Log
<1>2. W!Replayed(<<>>) \in Seq(Record) /\ Len(W!Replayed(<<>>)) = 0
  BY <1>1, IntactSpec, ReplayedRecords
<1>3. W!Replayed(<<>>) = <<>>
  BY <1>2
<1> QED BY <1>3, ReplayNothing DEF Replay

LEMMA RecordFields ==
    ASSUME NEW r \in Record
    PROVE  /\ r.op \in {"add", "remove"} /\ r.n \in Write
           /\ r.op = "add" => [uri |-> r.uri, n |-> r.n] \in Document
BY DEF Record, Document, Uris

\* A restart makes a good table of every log.
LEMMA ReplayIsGood ==
    ASSUME NEW s, [docs |-> s.docs, dead |-> s.dead] \in GoodTable, NEW f \in Log
    PROVE  Replay(s, f) \in GoodTable
<1> DEFINE t == [docs |-> s.docs, dead |-> s.dead]
           recs == W!Replayed(f)
<1>1. recs \in Seq(Record) /\ Len(recs) \in Nat /\ t \in GoodTable
  BY ReplayedRecords
<1> HIDE DEF t, recs
<1>2. PICK at :
         /\ \A i \in 0..Len(recs) :
               at[i] = IF i = 0 THEN t ELSE ReplayRecord(at[i - 1], recs[i])
         /\ ReplayFrom(t, recs) = at[Len(recs)]
  BY <1>1, ReplayFunction
<1> DEFINE S == {m \in Nat : m <= Len(recs) => at[m] \in GoodTable}
<1>3. 0 \in S
  BY <1>1, <1>2
<1>4. ASSUME NEW m \in Nat, m \in S PROVE m + 1 \in S
  <2> SUFFICES ASSUME m + 1 <= Len(recs) PROVE at[m + 1] \in GoodTable
    OBVIOUS
  <2>1. at[m] \in GoodTable /\ recs[m + 1] \in Record
    BY <1>1, <1>4
  <2>2. m + 1 \in 0..Len(recs) /\ m + 1 # 0 /\ (m + 1) - 1 = m
    BY <1>1
  <2>3. at[m + 1] = ReplayRecord(at[m], recs[m + 1])
    BY <1>2, <2>2
  <2>4. ReplayRecord(at[m], recs[m + 1]) \in GoodTable
    BY <2>1, RecordFields, KillIsGood, UpsertIsGood DEF ReplayRecord
  <2> QED BY <2>3, <2>4
<1>5. Nat \subseteq S
  <2> HIDE DEF S
  <2> QED BY <1>3, <1>4, Induction
<1>6. ReplayFrom(t, recs) \in GoodTable
  BY <1>1, <1>2, <1>5
<1> QED BY <1>6 DEF Replay, t, recs

\* A log that is replayed faithfully is so up to every frame.
LEMMA SoundPrefix ==
    ASSUME NEW s, NEW f \in Log, Sound(s, f), NEW n \in 0..Len(f)
    PROVE  Sound(s, SubSeq(f, 1, n))
<1> DEFINE g == SubSeq(f, 1, n)
<1>1. /\ g \in Log /\ ~W!Buried(g) /\ W!Intact(g) <= n /\ W!Intact(g) <= W!Intact(f)
  BY IntactPrefix DEF Sound
<1>2. Len(g) = n /\ \A i \in 1..n : g[i] = f[i]
  BY DEF Log
<1>3. W!Intact(g) \in Nat /\ W!Intact(f) \in Nat
  BY <1>1, <1>2, IntactSpec
<1>4. ASSUME NEW i \in 1..W!Intact(g)
      PROVE  SubSeq(g, 1, i - 1) = SubSeq(f, 1, i - 1) /\ i \in 1..n
  <2>1. i \in 1..n
    BY <1>1, <1>3
  <2> QED BY <2>1 DEF Log
<1> HIDE DEF g
<1>5. \A i \in 1..Len(g) : ~(g[i].rec.n < s.upto)
  BY <1>2 DEF Sound
<1>6. \A i \in 1..W!Intact(g) : g[i].rec.op = "add" =>
         FindByUri(Replay(s, SubSeq(g, 1, i - 1)), g[i].rec.uri) = 0
  <2> SUFFICES ASSUME NEW i \in 1..W!Intact(g), g[i].rec.op = "add"
               PROVE  FindByUri(Replay(s, SubSeq(g, 1, i - 1)), g[i].rec.uri) = 0
    OBVIOUS
  <2>1. i \in 1..W!Intact(f)
    BY <1>1, <1>3
  <2>2. g[i] = f[i] /\ SubSeq(g, 1, i - 1) = SubSeq(f, 1, i - 1)
    BY <1>2, <1>4
  <2> QED BY <2>1, <2>2 DEF Sound
<1>7. Sound(s, g)
  BY <1>1, <1>5, <1>6 DEF Sound
<1> QED BY <1>7 DEF g

\* In a sound log the frames before the last are whole and of after the
\* snapshot.
LEMMA SoundAppend ==
    ASSUME NEW s, NEW f \in Log, NEW x \in W!Frame, Sound(s, Append(f, x))
    PROVE  /\ Sound(s, f)
           /\ ~W!Buried(Append(f, x))
           /\ \A i \in 1..Len(f) : f[i].whole
           /\ ~(x.rec.n < s.upto)
           /\ x.whole /\ x.rec.op = "add" => FindByUri(Replay(s, f), x.rec.uri) = 0
<1> DEFINE g == Append(f, x)
<1>1. /\ g \in Log /\ Len(g) = Len(f) + 1 /\ g[Len(g)] = x
      /\ Len(f) \in Nat /\ \A i \in 1..Len(f) : g[i] = f[i]
      /\ g # <<>> /\ f = SubSeq(g, 1, Len(f))
  BY AppendToLog
<1>2. Sound(s, g)
  OBVIOUS
<1> HIDE DEF g
<1>3. Sound(s, f)
  <2>1. Len(f) \in 0..Len(g)
    BY <1>1
  <2>2. Sound(s, SubSeq(g, 1, Len(f)))
    BY <1>1, <1>2, <2>1, SoundPrefix
  <2> QED BY <1>1, <2>2
<1>4. ~W!Buried(g) /\ ~(x.rec.n < s.upto)
  BY <1>1, <1>2 DEF Sound
<1>5. \A i \in 1..Len(f) : f[i].whole
  BY <1>1, <1>4, IntactUnburied
<1>6. ASSUME x.whole, x.rec.op = "add" PROVE FindByUri(Replay(s, f), x.rec.uri) = 0
  <2>1. W!Intact(g) = Len(g)
    BY <1>1, <1>4, <1>6, IntactUnburied
  <2>2. Len(g) \in 1..W!Intact(g) /\ Len(g) - 1 = Len(f)
    BY <1>1, <2>1
  <2>3. FindByUri(Replay(s, SubSeq(g, 1, Len(g) - 1)), g[Len(g)].rec.uri) = 0
    BY <1>1, <1>2, <1>6, <2>2 DEF Sound
  <2> QED BY <1>1, <2>2, <2>3
<1> QED BY <1>3, <1>4, <1>5, <1>6 DEF g

-----------------------------------------------------------------------------
(* The invariant.                                                          *)

WP == INSTANCE Wal_proofs WITH Durable <- TRUE, MaxBatch <- MaxItems

Typed ==
    /\ logged \in BOOLEAN /\ up \in BOOLEAN /\ ghost \in BOOLEAN /\ hit \in BOOLEAN
    /\ open = (logged /\ up)
    /\ mem \in GoodTable /\ Snapshot \in GoodTable
    /\ pc \in {"idle", "drop", "insert", "bulk", "erase", "build", "persist", "truncate"}
    /\ kind \in {"none", "index_add", "add", "index_delete"}
    /\ next \in 1..(MaxWrites + 1) /\ snap.upto \in 1..next
    /\ settled \in Nat /\ (up => settled <= Len(file))
    /\ promise \in [Uris -> SUBSET SUBSET Write] /\ \A u \in Uris : promise[u] # {}

\* The running request is where pc says, with the items pc needs.
InRequest ==
    /\ Len(todo) \in Nat /\ Len(todo) <= MaxItems
    /\ pc = "idle" <=> kind = "none"
    /\ pc \in {"drop", "insert", "build"} => kind = "index_add"
    /\ pc = "bulk" => kind = "add"
    /\ pc = "erase" => kind = "index_delete"
    /\ pc \in {"persist", "truncate"} => kind \in {"index_add", "index_delete"}
    /\ pc \in {"drop", "insert", "bulk"} => todo \in Seq(Document) /\ todo # <<>>
    /\ pc = "erase" => todo \in Seq([id : 1..Len(mem.docs), n : Write])
    /\ pc \in {"idle", "build", "persist", "truncate"} => todo = <<>>
    /\ pc = "drop" => FindByUri(mem, todo[1].uri) # 0
    /\ pc = "truncate" => logged /\ snap.upto = next /\ Snapshot = mem
    /\ hit => kind = "index_delete"

Calling == phase \in {"write", "sync"}

\* The log ends with what the running call has written of its records, and
\* the frames before that are settled.
InCall ==
    /\ ~(up /\ logged) => phase = "idle"
    /\ ~logged => file = <<>> /\ stable = <<>>
    /\ up /\ logged /\ ~Calling => settled = Len(file)
    /\ phase = "cut" => pc = "truncate" /\ file = <<>>
    /\ Calling =>
         /\ Mutating /\ ~Needless
         /\ group = Len(Records)
         /\ Len(file) = settled + (group - Len(queue))
         /\ \A i \in 1..(group - Len(queue)) : file[settled + i] = W!Whole(Records[i])
         /\ \A i \in 1..Len(queue) : queue[i] = Records[(group - Len(queue)) + i]

\* Writes are numbered in the order they are asked for.
Fresh ==
    /\ \A i \in 1..Len(file) : file[i].rec.n < next
    /\ \A i \in 1..Len(stable) : stable[i].rec.n < next
    /\ \A i \in 1..Len(mem.docs) : mem.docs[i].n < next
    /\ \A i \in 1..Len(snap.docs) : snap.docs[i].n < next
    /\ \A i \in 1..Len(todo) : todo[i].n < next
    /\ pc \in {"drop", "insert"} =>
         /\ \A i \in 1..Len(mem.docs) : mem.docs[i].n < todo[1].n
         /\ \A i, j \in 1..Len(todo) : i < j => todo[i].n < todo[j].n
         /\ up => \A i \in 1..settled :
                     file[i].rec.op = "add" => file[i].rec.n < todo[1].n

\* A power loss keeps at least this many of the frames of f, g being stable.
Kept(f, g) == IF W!Extends(f, g) THEN Len(g) ELSE 0

\* The logs the next start may find.
Disk == {file} \union W!PowerLossImages

\* Every uri shows what a client may expect.
Promised(p, t) == \A u \in Uris : LiveOf(t, u) \in p[u]

\* The settled log gives the table.
KnownExact ==
    up /\ logged /\ ~ghost /\ Sound(snap, SubSeq(file, 1, settled)) =>
        Replay(snap, SubSeq(file, 1, settled)) = mem

\* A settled log of which a power loss took the end gives the table, or
\* another one that a client may expect.
KnownKept ==
    up /\ logged /\ ~ghost =>
        \A n \in Kept(file, stable)..settled : Sound(snap, SubSeq(file, 1, n)) =>
            \/ Replay(snap, SubSeq(file, 1, n)) = mem
            \/ Promised(promise, Replay(snap, SubSeq(file, 1, n)))

\* The table, when the reply is about to say that it is durable.
Synced ==
    up /\ logged /\ ~ghost /\ (pc \in {"build", "persist", "truncate"} \/ hit) =>
        \A n \in Kept(file, stable)..settled : Sound(snap, SubSeq(file, 1, n)) =>
            Replay(snap, SubSeq(file, 1, n)) = mem

\* A device that does not hold a part of the log holds one that a snapshot
\* has made obsolete.
OldLog ==
    ~W!Extends(file, stable) => \A i \in 1..Len(stable) : stable[i].rec.n < snap.upto

\* The remove record of the running upsert is on the device.
RemoveStable ==
    /\ W!Extends(file, stable)
    /\ \E i \in 1..Len(stable) :
          stable[i].whole /\ stable[i].rec.op = "remove" /\ stable[i].rec.n = todo[1].n

Doubled(t) == \E u \in Uri : \E m, n \in LiveOf(t, u) : m # n

\* The table, and every table the running request may still make of it, is
\* one that a client may expect.
Expected ==
    /\ pc = "idle" => Promised(promise, mem)
    /\ pc \in {"drop", "build", "persist", "truncate"} =>
          \/ kind = "index_add" /\ Doubled(mem)
          \/ \A i \in 0..Len(todo) : Promised(promise, DoneFirst(mem, "index_add", todo, i))
    /\ pc = "insert" =>
          \/ Doubled(mem)
          \/ FindByUri(mem, todo[1].uri) # 0
          \/ \A i \in 1..Len(todo) : Promised(promise, DoneFirst(mem, "index_add", todo, i))
    /\ pc = "insert" /\ up /\ logged =>
          Doubled(mem) \/ Promised(promise, mem) \/ RemoveStable
    /\ pc = "bulk" =>
          \A i \in 0..Len(todo) : Promised(promise, DoneFirst(mem, "add", todo, i))
    /\ pc = "erase" =>
          \A ids \in SUBSET {todo[i].id : i \in 1..Len(todo)} :
              Promised(promise, Erased(mem, ids))

Unlogged == ~logged => Promised(promise, Snapshot)

\* AckedWritesSurvive of the log f.
Survives(f) ==
    Sound(snap, f) /\ ~ghost /\ ~HalfUpsert(f) /\ ~NotReplaced =>
        Promised(promise, Replay(snap, f))

DiskPromised == logged => \A f \in Disk : Survives(f)

Core == /\ WP!IInv /\ Typed /\ InRequest /\ InCall /\ Fresh
        /\ KnownExact /\ KnownKept /\ Synced /\ OldLog
        /\ Expected /\ Unlogged

IInv == Core /\ DiskPromised

-----------------------------------------------------------------------------
(* Every log the next start of a running server may find is promised.      *)

LEMMA LogTypes ==
    ASSUME WP!IInv
    PROVE  /\ file \in Log /\ stable \in Log /\ queue \in Seq(Record)
           /\ Len(file) \in Nat /\ Len(stable) \in Nat
           /\ group \in Nat /\ Len(queue) \in Nat /\ Len(queue) <= group
           /\ group - Len(queue) <= Len(file)
           /\ bytes \in Nat
           /\ phase \in {"idle", "write", "sync", "cut"}
           /\ phase = "write" <=> queue # <<>>
           /\ ~open => phase = "idle"
           /\ Calling <=> group # 0
<1>1. WP!TypeOK
  BY DEF WP!IInv
<1>2. WP!Frame = W!Frame
  BY DEF WP!Frame, W!Frame
<1> QED BY <1>1, <1>2 DEF WP!TypeOK, Log, Calling

LEMMA KeptNumber ==
    ASSUME NEW f \in Log, NEW g \in Log
    PROVE  Kept(f, g) \in 0..Len(f)
BY DEF Kept, W!Extends, Log

\* A fragment at the end changes nothing.
LEMMA TornSurvives ==
    ASSUME NEW f \in Log, NEW r \in Record, Survives(f)
    PROVE  Survives(Append(f, W!Torn(r)))
<1> DEFINE g == Append(f, W!Torn(r))
<1>1. W!Torn(r) \in W!Frame /\ ~W!Torn(r).whole
  BY DEF W!Torn, W!Frame
<1>2. /\ Len(f) \in Nat /\ Len(g) = Len(f) + 1 /\ g[Len(f) + 1] = W!Torn(r)
      /\ \A i \in 1..Len(f) : g[i] = f[i]
  BY <1>1, AppendToLog
<1>3. Sound(snap, g) => Sound(snap, f) /\ Replay(snap, g) = Replay(snap, f)
  BY <1>1, SoundAppend, ReplayTorn
<1> HIDE DEF g
<1>4. HalfUpsert(f) <=> HalfUpsert(g)
  BY <1>1, <1>2 DEF HalfUpsert
<1>5. Survives(g)
  BY <1>3, <1>4 DEF Survives
<1> QED BY <1>5 DEF g

\* The table itself is promised, unless the running request has replaced
\* half of a document or left two.
LEMMA TablePromised ==
    ASSUME Core, up, logged, ~NotReplaced
    PROVE  Promised(promise, mem) \/ (pc = "insert" /\ RemoveStable)
<1>1. /\ mem \in GoodTable
      /\ pc \in {"idle", "drop", "insert", "bulk", "erase", "build", "persist", "truncate"}
      /\ ~(kind = "index_add" /\ Doubled(mem))
      /\ Len(todo) \in Nat
  BY DEF Core, Typed, NotReplaced, Doubled, InRequest
<1>2. 0 \in 0..Len(todo)
  BY <1>1
<1>3. CASE pc = "idle"
  BY <1>3 DEF Core, Expected
<1>4. CASE pc \in {"drop", "build", "persist", "truncate"}
  BY <1>1, <1>2, <1>4, DoneNothing DEF Core, Expected
<1>5. CASE pc = "insert"
  BY <1>1, <1>5 DEF Core, Expected, InRequest
<1>6. CASE pc = "bulk"
  BY <1>2, <1>6, DoneNothing DEF Core, Expected
<1>7. CASE pc = "erase"
  <2>1. Promised(promise, Erased(mem, {}))
    BY <1>7 DEF Core, Expected
  <2> QED BY <1>1, <2>1, ErasedNone
<1> QED BY <1>1, <1>3, <1>4, <1>5, <1>6, <1>7

LEMMA FirstItem ==
    ASSUME InRequest, pc \in {"drop", "insert", "bulk"}
    PROVE  1 \in 1..Len(todo) /\ todo[1] \in Document
<1>1. todo \in Seq(Document) /\ todo # <<>>
  BY DEF InRequest
<1> QED BY <1>1

LEMMA FirstDelete ==
    ASSUME InRequest, pc = "erase", todo # <<>>
    PROVE  1 \in 1..Len(todo) /\ todo[1] \in [id : 1..Len(mem.docs), n : Write]
<1> DEFINE D == [id : 1..Len(mem.docs), n : Write]
<1>1. todo \in Seq(D)
  BY DEF InRequest
<1> HIDE DEF D
<1>2. 1 \in 1..Len(todo) /\ todo[1] \in D
  BY <1>1
<1> QED BY <1>2 DEF D

LEMMA SettledSurvives ==
    ASSUME Core, up, logged, NEW n \in Kept(file, stable)..settled
    PROVE  Survives(SubSeq(file, 1, n))
<1> DEFINE f == SubSeq(file, 1, n)
<1>1. /\ file \in Log /\ stable \in Log /\ Len(file) \in Nat /\ Len(stable) \in Nat
      /\ settled \in Nat /\ settled <= Len(file)
      /\ Kept(file, stable) \in 0..Len(file)
  BY LogTypes, KeptNumber DEF Core, Typed
<1>2. Len(f) = n /\ n \in 0..Len(file) /\ \A i \in 1..n : f[i] = file[i]
  BY <1>1 DEF Log
<1> SUFFICES ASSUME Sound(snap, f), ~ghost, ~HalfUpsert(f), ~NotReplaced
             PROVE  Promised(promise, Replay(snap, f))
  BY DEF Survives
<1>3. Replay(snap, f) = mem \/ Promised(promise, Replay(snap, f))
  BY DEF Core, KnownKept
<1>4. ASSUME pc = "insert", RemoveStable PROVE FALSE
  <2>1. PICK i \in 1..Len(stable) : /\ stable[i].whole /\ stable[i].rec.op = "remove"
                                    /\ stable[i].rec.n = todo[1].n
    BY <1>4 DEF RemoveStable
  <2>2. Kept(file, stable) = Len(stable) /\ file[i] = stable[i]
    BY <1>4 DEF RemoveStable, Kept, W!Extends
  <2>3. i \in 1..n /\ f[i] = stable[i]
    BY <1>1, <1>2, <2>2
  <2>4. ASSUME NEW j \in 1..n, f[j].rec.op = "add" PROVE f[j].rec.n # todo[1].n
    <3>1. j \in 1..settled /\ f[j] = file[j] /\ j \in 1..Len(file)
      BY <1>1, <1>2
    <3>2. f[j].rec.n < todo[1].n
      BY <1>4, <2>4, <3>1 DEF Core, Fresh
    <3>3. f[j].rec.n \in Write
      BY <1>1, <3>1, FrameFields, RecordFields
    <3>4. todo[1].n \in Write
      BY <1>4, FirstItem DEF Core, Document
    <3> QED BY <3>2, <3>3, <3>4 DEF Write
  <2>5. HalfUpsert(f)
    BY <1>2, <1>4, <2>1, <2>3, <2>4 DEF HalfUpsert
  <2> QED BY <2>5
<1> QED BY <1>3, <1>4, TablePromised

\* The frame that the running call writes first.
LEMMA FirstFrame ==
    ASSUME Core, up, logged, Calling, settled < Len(file)
    PROVE  /\ Records[1] \in Record
           /\ SubSeq(file, 1, settled) \in Log
           /\ SubSeq(file, 1, settled + 1)
                = Append(SubSeq(file, 1, settled), W!Whole(Records[1]))
<1>1. /\ file \in Log /\ Len(file) \in Nat /\ settled \in Nat
      /\ group \in Nat /\ Len(queue) \in Nat /\ Len(queue) <= group
  BY LogTypes DEF Core, Typed
<1>2. /\ Len(file) = settled + (group - Len(queue))
      /\ \A i \in 1..(group - Len(queue)) : file[settled + i] = W!Whole(Records[i])
  BY DEF Core, InCall
<1>3. settled + 1 \in 1..Len(file) /\ 1 \in 1..(group - Len(queue))
  BY <1>1, <1>2
<1>4. file[settled + 1] = W!Whole(Records[1])
  BY <1>2, <1>3
<1>5. file[settled + 1].rec \in Record
  BY <1>1, <1>3, FrameFields
<1>6. Records[1] \in Record
  BY <1>4, <1>5 DEF W!Whole
<1>7. SubSeq(file, 1, settled + 1) = Append(SubSeq(file, 1, settled), file[settled + 1])
  BY <1>1, <1>3 DEF Log
<1>8. SubSeq(file, 1, settled) \in Log
  BY <1>1, <1>3 DEF Log
<1> QED BY <1>4, <1>6, <1>7, <1>8

\* A call with one record: its replay is the change it is logged for.
LEMMA OneReplayed ==
    ASSUME Core, up, logged, Calling, settled < Len(file), ~ghost,
           Sound(snap, SubSeq(file, 1, settled + 1))
    PROVE  /\ Replay(snap, SubSeq(file, 1, settled + 1)) = ReplayRecord(mem, Records[1])
           /\ Records[1].op = "add" => FindByUri(mem, Records[1].uri) = 0
<1> DEFINE f == SubSeq(file, 1, settled)
           r == Records[1]
<1>1. /\ r \in Record /\ f \in Log
      /\ SubSeq(file, 1, settled + 1) = Append(f, W!Whole(r))
  BY FirstFrame
<1>2. W!Whole(r) \in W!Frame /\ W!Whole(r).whole /\ W!Whole(r).rec = r
  BY <1>1 DEF W!Whole, W!Frame
<1> HIDE DEF r, f
<1>3. Sound(snap, Append(f, W!Whole(r)))
  BY <1>1
<1>4. /\ Sound(snap, f) /\ ~W!Buried(Append(f, W!Whole(r)))
      /\ r.op = "add" => FindByUri(Replay(snap, f), r.uri) = 0
  BY <1>1, <1>2, <1>3, SoundAppend
<1>5. Replay(snap, f) = mem
  BY <1>4 DEF Core, KnownExact, f
<1>6. Replay(snap, Append(f, W!Whole(r))) = ReplayRecord(Replay(snap, f), r)
  BY <1>1, <1>4, ReplayWhole
<1> QED BY <1>1, <1>4, <1>5, <1>6 DEF r

\* A call with many records: so is the replay of its first j, for its first j
\* documents.
LEMMA BulkReplayed ==
    ASSUME Core, up, logged, Calling, ~ghost, pc = "bulk",
           NEW j \in 0..(Len(file) - settled), Sound(snap, SubSeq(file, 1, settled + j))
    PROVE  /\ Replay(snap, SubSeq(file, 1, settled + j)) = DoneFirst(mem, "add", todo, j)
           /\ j <= Len(todo)
<1>1. /\ file \in Log /\ Len(file) \in Nat /\ settled \in Nat
      /\ group \in Nat /\ Len(queue) \in Nat /\ Len(queue) <= group
      /\ mem \in GoodTable
  BY LogTypes DEF Core, Typed
<1>2. /\ Len(file) = settled + (group - Len(queue))
      /\ \A i \in 1..(group - Len(queue)) : file[settled + i] = W!Whole(Records[i])
      /\ group = Len(Records)
  BY DEF Core, InCall
<1>3. /\ Records = [i \in 1..Len(todo) |-> AddRecord(todo[i])]
      /\ todo \in Seq(Document)
  BY DEF Records, Core, InRequest
<1>4. group = Len(todo) /\ \A i \in 1..Len(todo) : Records[i] = AddRecord(todo[i])
  BY <1>2, <1>3
<1> DEFINE S == {m \in Nat : m <= Len(file) - settled
                     /\ Sound(snap, SubSeq(file, 1, settled + m)) =>
                   Replay(snap, SubSeq(file, 1, settled + m)) = DoneFirst(mem, "add", todo, m)}
<1>5. 0 \in S
  <2>1. settled + 0 = settled
    BY <1>1
  <2>2. Sound(snap, SubSeq(file, 1, settled)) => Replay(snap, SubSeq(file, 1, settled)) = mem
    BY DEF Core, KnownExact
  <2> QED BY <2>1, <2>2, DoneNothing
<1>6. ASSUME NEW m \in Nat, m \in S PROVE m + 1 \in S
  <2> DEFINE f == SubSeq(file, 1, settled + m)
             g == SubSeq(file, 1, settled + (m + 1))
             d == todo[m + 1]
             r == AddRecord(d)
  <2> SUFFICES ASSUME m + 1 <= Len(file) - settled, Sound(snap, g)
               PROVE  Replay(snap, g) = DoneFirst(mem, "add", todo, m + 1)
    OBVIOUS
  <2>1. m + 1 \in 1..Len(todo) /\ m + 1 \in 1..(group - Len(queue))
    BY <1>1, <1>2, <1>4
  <2>2. d \in Document /\ file[settled + (m + 1)] = W!Whole(r)
    <3>1. d \in Document
      BY <1>3, <2>1
    <3>2. file[settled + (m + 1)] = W!Whole(Records[m + 1]) /\ Records[m + 1] = r
      BY <1>2, <1>4, <2>1
    <3> QED BY <3>1, <3>2
  <2>3. settled + (m + 1) \in 1..Len(file) /\ settled + (m + 1) = (settled + m) + 1
    BY <1>1
  <2>4. f \in Log /\ g = Append(f, W!Whole(r))
    BY <1>1, <2>2, <2>3 DEF Log
  <2>5. r \in Record /\ r.op = "add" /\ r.uri = d.uri /\ r.n = d.n
    BY <2>2 DEF AddRecord, Record, Document, Uris
  <2>6. W!Whole(r) \in W!Frame /\ W!Whole(r).whole /\ W!Whole(r).rec = r
    BY <2>5 DEF W!Whole, W!Frame
  <2>7. d = [uri |-> r.uri, n |-> r.n]
    BY <2>2, <2>5 DEF Document
  <2> HIDE DEF f, g, r, d
  <2>8. /\ Sound(snap, f) /\ ~W!Buried(Append(f, W!Whole(r)))
        /\ FindByUri(Replay(snap, f), r.uri) = 0
    BY <2>4, <2>5, <2>6, SoundAppend
  <2>9. Replay(snap, g) = ReplayRecord(Replay(snap, f), r)
    BY <2>4, <2>5, <2>8, ReplayWhole
  <2>10. Replay(snap, f) = DoneFirst(mem, "add", todo, m)
    BY <1>1, <1>6, <2>8 DEF f
  <2>11. DoneFirst(mem, "add", todo, m) \in GoodTable
    BY <1>1, <1>3, <2>1, DoneIsGood
  <2>12. ReplayRecord(Replay(snap, f), r) = Push(Replay(snap, f), d)
    <3>1. FindByUri(Replay(snap, f), d.uri) = 0
      BY <2>5, <2>7, <2>8
    <3>2. 0 \notin Live(Replay(snap, f))
      BY <2>10, <2>11, LiveIsIds
    <3> QED BY <2>5, <2>7, <3>1, <3>2 DEF ReplayRecord, Upsert, Kill
  <2>13. DoneFirst(mem, "add", todo, m + 1) = Push(DoneFirst(mem, "add", todo, m), d)
    BY DoneOneMore DEF Done, d
  <2> QED BY <2>9, <2>10, <2>12, <2>13 DEF g
<1>7. j \in S
  <2> HIDE DEF S
  <2> QED BY <1>5, <1>6, Induction
<1>8. j <= Len(todo)
  BY <1>1, <1>2, <1>4
<1> QED BY <1>7, <1>8

\* A good table does not hold an id 0, so an upsert that finds nothing adds.
LEMMA UpsertAdds ==
    ASSUME NEW t \in GoodTable, NEW d, FindByUri(t, d.uri) = 0
    PROVE  Upsert(t, d) = Push(t, d)
<1>1. 0 \notin Live(t)
  BY LiveIsIds
<1> QED BY <1>1 DEF Upsert, Kill

LEMMA RunningSurvives ==
    ASSUME Core, up, logged, Calling, NEW n \in (settled + 1)..Len(file)
    PROVE  Survives(SubSeq(file, 1, n))
<1> DEFINE f == SubSeq(file, 1, n)
<1>1. /\ file \in Log /\ Len(file) \in Nat /\ settled \in Nat
      /\ group \in Nat /\ Len(queue) \in Nat /\ Len(queue) <= group
      /\ mem \in GoodTable /\ settled < Len(file)
  BY LogTypes DEF Core, Typed
<1>2. /\ Len(file) = settled + (group - Len(queue)) /\ group = Len(Records)
      /\ Mutating
      /\ \A i \in 1..(group - Len(queue)) : file[settled + i] = W!Whole(Records[i])
  BY DEF Core, InCall
<1>3. n \in 1..Len(file) /\ Len(f) = n /\ \A i \in 1..n : f[i] = file[i]
  BY <1>1 DEF Log
<1> SUFFICES ASSUME Sound(snap, f), ~ghost, ~HalfUpsert(f), ~NotReplaced
             PROVE  Promised(promise, Replay(snap, f))
  BY DEF Survives
<1>4. ~(kind = "index_add" /\ Doubled(mem))
  BY DEF NotReplaced, Doubled
<1>5. ASSUME Len(Records) = 1 PROVE n = settled + 1 /\ file[n] = W!Whole(Records[1])
  BY <1>1, <1>2, <1>5
<1>6. CASE pc = "drop"
  <2>1. Records[1] = RemoveRecord(FindByUri(mem, todo[1].uri), todo[1].n) /\ Len(Records) = 1
    BY <1>6 DEF Records
  <2>2. n = settled + 1 /\ f[n] = W!Whole(Records[1])
    BY <1>3, <1>5, <2>1
  <2>3. f[n].whole /\ f[n].rec.op = "remove" /\ f[n].rec.n = todo[1].n
    <3> HIDE DEF f
    <3>0. W!Whole(Records[1]).whole /\ W!Whole(Records[1]).rec = Records[1]
      BY DEF W!Whole
    <3>1. f[n].whole /\ f[n].rec = Records[1]
      BY <2>2, <3>0
    <3>2. Records[1].op = "remove" /\ Records[1].n = todo[1].n
      BY <2>1 DEF RemoveRecord
    <3> QED BY <3>1, <3>2
  <2>4. ASSUME NEW j \in 1..n, f[j].rec.op = "add" PROVE f[j].rec.n # todo[1].n
    <3>1. j # n
      BY <2>3, <2>4
    <3>2. j \in 1..settled /\ f[j] = file[j] /\ j \in 1..Len(file)
      BY <1>1, <1>3, <2>2, <3>1
    <3>3. f[j].rec.n < todo[1].n
      BY <1>6, <2>4, <3>2 DEF Core, Fresh
    <3>4. f[j].rec.n \in Write /\ todo[1].n \in Write
      BY <1>1, <1>6, <3>2, FrameFields, RecordFields, FirstItem DEF Core, Document
    <3> QED BY <3>3, <3>4 DEF Write
  <2>5. HalfUpsert(f)
    BY <1>3, <1>6, <2>3, <2>4 DEF HalfUpsert
  <2> QED BY <2>5
<1>7. CASE pc = "insert"
  <2>1. Records[1] = AddRecord(todo[1]) /\ Len(Records) = 1 /\ todo[1] \in Document
    BY <1>7, FirstItem DEF Records, Core
  <2>2. /\ Replay(snap, f) = ReplayRecord(mem, Records[1])
        /\ Records[1].op = "add" => FindByUri(mem, Records[1].uri) = 0
    BY <1>1, <1>5, <2>1, OneReplayed
  <2>3. /\ Records[1].op = "add" /\ Records[1].uri = todo[1].uri
        /\ [uri |-> Records[1].uri, n |-> Records[1].n] = todo[1]
    BY <2>1 DEF AddRecord, Document
  <2>4. Replay(snap, f) = Upsert(mem, todo[1]) /\ FindByUri(mem, todo[1].uri) = 0
    BY <2>2, <2>3 DEF ReplayRecord
  <2>5. DoneFirst(mem, "index_add", todo, 0 + 1) = Upsert(mem, todo[1])
    <3>1. DoneFirst(mem, "index_add", todo, 0 + 1) = Done(mem, "index_add", todo[0 + 1])
      BY DoneNothing, DoneOneMore
    <3> QED BY <3>1 DEF Done
  <2>6. 0 + 1 \in 1..Len(todo) /\ kind = "index_add"
    BY <1>7, FirstItem DEF Core, InRequest
  <2>7. Promised(promise, DoneFirst(mem, "index_add", todo, 0 + 1))
    BY <1>4, <1>7, <2>4, <2>6 DEF Core, Expected
  <2> QED BY <2>4, <2>5, <2>7
<1>8. CASE pc = "bulk"
  <2>1. n - settled \in 0..(Len(file) - settled) /\ settled + (n - settled) = n
    BY <1>1
  <2>2. /\ Replay(snap, f) = DoneFirst(mem, "add", todo, n - settled)
        /\ n - settled <= Len(todo)
    BY <1>8, <2>1, BulkReplayed
  <2>3. n - settled \in 0..Len(todo)
    BY <1>1, <2>1, <2>2 DEF Core, InRequest
  <2> QED BY <1>8, <2>2, <2>3 DEF Core, Expected
<1>9. CASE pc = "erase"
  <2>1. Records[1] = RemoveRecord(todo[1].id, todo[1].n) /\ Len(Records) = 1
    BY <1>9 DEF Records
  <2>2. Replay(snap, f) = ReplayRecord(mem, Records[1])
    BY <1>1, <1>5, <2>1, OneReplayed
  <2>3. Records[1].op = "remove" /\ Records[1].id = todo[1].id
    BY <2>1 DEF RemoveRecord
  <2>4. Replay(snap, f) = Erased(mem, {todo[1].id})
    BY <1>1, <2>2, <2>3, KillIsErased DEF ReplayRecord
  <2>5. {todo[1].id} \in SUBSET {todo[i].id : i \in 1..Len(todo)}
    <3>1. todo \in Seq([id : 1..Len(mem.docs), n : Write]) /\ todo # <<>>
      BY <1>2, <1>9 DEF Core, InRequest, Mutating
    <3>2. 1 \in 1..Len(todo)
      BY <3>1
    <3> QED BY <3>2
  <2> QED BY <1>9, <2>4, <2>5 DEF Core, Expected
<1> QED BY <1>2, <1>6, <1>7, <1>8, <1>9 DEF Mutating

LEMMA PrefixSurvives ==
    ASSUME Core, up, logged, NEW n \in Kept(file, stable)..Len(file)
    PROVE  Survives(SubSeq(file, 1, n))
<1>1. /\ Len(file) \in Nat /\ settled \in Nat /\ Kept(file, stable) \in Nat
  BY LogTypes, KeptNumber DEF Core, Typed
<1>2. CASE n <= settled
  BY <1>1, <1>2, SettledSurvives
<1>3. CASE ~(n <= settled)
  <2>1. Calling
    BY <1>1, <1>3 DEF Core, InCall
  <2> QED BY <1>1, <1>3, <2>1, RunningSurvives
<1> QED BY <1>2, <1>3

LEMMA StableSurvives ==
    ASSUME Core, up, logged
    PROVE  Survives(stable)
<1>1. /\ file \in Log /\ stable \in Log /\ Len(file) \in Nat /\ Len(stable) \in Nat
  BY LogTypes DEF Core
<1>2. CASE W!Extends(file, stable)
  <2>1. Kept(file, stable) = Len(stable) /\ Len(stable) \in Kept(file, stable)..Len(file)
    BY <1>1, <1>2 DEF Kept, W!Extends
  <2>2. stable = SubSeq(file, 1, Len(stable))
    BY <1>1, <1>2 DEF W!Extends, Log
  <2> QED BY <2>1, <2>2, PrefixSurvives
<1>3. CASE ~W!Extends(file, stable)
  <2>1. Len(stable) # 0
    BY <1>1, <1>3 DEF W!Extends
  <2>2. stable[1].rec.n < snap.upto /\ 1 \in 1..Len(stable)
    BY <1>1, <1>3, <2>1 DEF Core, OldLog
  <2>3. ~Sound(snap, stable)
    BY <2>2 DEF Sound
  <2> QED BY <2>3 DEF Survives
<1> QED BY <1>2, <1>3

LEMMA AllSurvive ==
    ASSUME Core, up, logged, NEW f \in Disk
    PROVE  Survives(f)
<1> DEFINE from == Kept(file, stable)
<1>1. /\ file \in Log /\ stable \in Log /\ Len(file) \in Nat /\ Len(stable) \in Nat
      /\ from \in 0..Len(file) /\ queue \in Seq(Record)
      /\ phase = "write" => queue # <<>>
  BY LogTypes, KeptNumber DEF Core
<1>2. file = SubSeq(file, 1, Len(file)) /\ Len(file) \in from..Len(file)
  BY <1>1 DEF Log
<1>3. Survives(file)
  BY <1>2, PrefixSurvives
<1>4. ASSUME NEW n \in (from + 1)..Len(file),
             f = Append(SubSeq(file, 1, n - 1), W!Torn(file[n].rec))
      PROVE  Survives(f)
  <2>1. n - 1 \in from..Len(file) /\ n \in 1..Len(file)
    BY <1>1
  <2>2. SubSeq(file, 1, n - 1) \in Log /\ file[n].rec \in Record
    BY <1>1, <2>1, FrameFields DEF Log
  <2> QED BY <1>4, <2>1, <2>2, PrefixSurvives, TornSurvives
<1>5. ASSUME NEW cut \in {phase = "write"}, f = W!LeftBehind(cut)
      PROVE  Survives(f)
  <2>1. CASE cut
    <3>1. f = Append(file, W!Torn(Head(queue)))
      BY <1>5, <2>1 DEF W!LeftBehind
    <3>2. Head(queue) \in Record
      <4>1. phase = "write"
        BY <2>1
      <4> QED BY <1>1, <4>1
    <3> QED BY <1>1, <1>3, <3>1, <3>2, TornSurvives
  <2>2. CASE ~cut
    BY <1>3, <1>5, <2>2 DEF W!LeftBehind
  <2> QED BY <2>1, <2>2
<1>6. \/ f \in {file, stable}
      \/ \E n \in from..Len(file) : f = SubSeq(file, 1, n)
      \/ \E n \in (from + 1)..Len(file) :
             f = Append(SubSeq(file, 1, n - 1), W!Torn(file[n].rec))
      \/ \E cut \in {phase = "write"} : f = W!LeftBehind(cut)
  BY DEF Disk, W!PowerLossImages, Kept
<1>7. ASSUME NEW n \in from..Len(file), f = SubSeq(file, 1, n)
      PROVE  Survives(f)
  BY <1>7, PrefixSurvives
<1> QED BY <1>3, <1>4, <1>5, <1>6, <1>7, StableSurvives

\* The logs of a running server follow from the rest of the invariant, before
\* and after a step.
RunningPromised == up => DiskPromised

LEMMA DiskOfRunning == Core => RunningPromised
BY AllSurvive DEF DiskPromised, RunningPromised

LEMMA DiskOfRunningNext == Core' => RunningPromised'
BY DiskOfRunning, PTL

-----------------------------------------------------------------------------
(* The server uses its log as Wal allows, so what Wal_proofs shows of the  *)
(* log holds here.                                                         *)

LEMMA RecordsTyped ==
    ASSUME Typed, InRequest, Mutating
    PROVE  Records \in Seq(Record) /\ Len(Records) \in 1..MaxItems /\ todo # <<>>
<1>1. /\ mem \in GoodTable /\ Len(todo) \in Nat /\ Len(todo) <= MaxItems
      /\ MaxItems \in Nat
  BY BoundsAssumption DEF Typed, InRequest
<1>2. todo # <<>> /\ Len(todo) \in 1..MaxItems
  <2>1. CASE pc \in {"drop", "insert", "bulk"}
    BY <1>1, <2>1, FirstItem
  <2>2. CASE pc = "erase" /\ todo # <<>>
    <3>1. 1 \in 1..Len(todo)
      BY <2>2, FirstDelete
    <3> QED BY <1>1, <2>2, <3>1
  <2> QED BY <2>1, <2>2 DEF Mutating
<1>3. \A d \in Document : AddRecord(d) \in Record
  BY DEF AddRecord, Record, Document, Uris
<1>4. \A id \in Nat : \A n \in Write : RemoveRecord(id, n) \in Record
  BY DEF RemoveRecord, Record
<1>5. CASE pc = "drop"
  <2>1. FindByUri(mem, todo[1].uri) \in Nat /\ todo[1].n \in Write
    BY <1>1, <1>5, FindByUriNumber, FirstItem DEF Document
  <2>2. Records = <<RemoveRecord(FindByUri(mem, todo[1].uri), todo[1].n)>>
    BY <1>5 DEF Records
  <2>3. RemoveRecord(FindByUri(mem, todo[1].uri), todo[1].n) \in Record
    BY <1>4, <2>1
  <2> QED BY <1>1, <1>2, <2>2, <2>3
<1>6. CASE pc = "insert"
  <2>1. Records = <<AddRecord(todo[1])>> /\ AddRecord(todo[1]) \in Record
    BY <1>3, <1>6, FirstItem DEF Records
  <2> QED BY <1>1, <1>2, <2>1
<1>7. CASE pc = "bulk"
  <2>1. Records = [i \in 1..Len(todo) |-> AddRecord(todo[i])] /\ todo \in Seq(Document)
    BY <1>7 DEF Records, InRequest
  <2>2. \A i \in 1..Len(todo) : AddRecord(todo[i]) \in Record
    BY <1>3, <2>1
  <2> QED BY <1>2, <2>1, <2>2
<1>8. CASE pc = "erase"
  <2>2. todo[1] \in [id : 1..Len(mem.docs), n : Write]
    BY <1>2, <1>8, FirstDelete
  <2>3. RemoveRecord(todo[1].id, todo[1].n) \in Record
    <3>1. todo[1].id \in Nat /\ todo[1].n \in Write
      BY <2>2
    <3> QED BY <1>4, <3>1
  <2>4. Records = <<RemoveRecord(todo[1].id, todo[1].n)>>
    BY <1>8 DEF Records
  <2> QED BY <1>1, <1>2, <2>3, <2>4
<1> QED BY <1>5, <1>6, <1>7, <1>8 DEF Mutating

LEMMA StepOfWal ==
    ASSUME Typed, InRequest, [Next]_vars
    PROVE  [W!Next]_walVars
<1>1. CASE StartLog
  <2>1. Records \in Seq(Record) /\ Len(Records) \in 1..MaxItems
    BY <1>1, RecordsTyped DEF StartLog
  <2>2. Records \in [1..Len(Records) -> Record] /\ W!StartAppend(Records)
    BY <1>1, <2>1 DEF StartLog
  <2>3. W!Step
    BY <2>1, <2>2 DEF W!Step
  <2> QED BY <2>3 DEF W!Next
<1>2. CASE WriteLog
  BY <1>2 DEF WriteLog, W!Next, W!Step
<1>3. CASE Apply
  BY <1>3 DEF Apply, W!Next, W!Step
<1>4. CASE ApplyFails
  BY <1>4 DEF ApplyFails, W!Next, W!Step
<1>5. CASE Truncate \/ TruncateDone \/ TruncateFails
  BY <1>5 DEF Truncate, TruncateDone, TruncateFails, W!Next, W!Step
<1>6. CASE Crash \/ PowerLoss
  BY <1>6 DEF Crash, PowerLoss, W!Next, W!Fault
<1>7. CASE Restart
  BY <1>7 DEF Restart, W!Next
<1>8. CASE \E n \in 1..MaxItems :
              \/ \E us \in [1..n -> Uri \union {Anon}] : IndexAdd(us) \/ AddDocuments(us)
              \/ \E ids \in [1..n -> 1..Len(mem.docs)] : IndexDelete(ids)
  BY <1>8 DEF IndexAdd, AddDocuments, IndexDelete, Begin
<1>9. CASE PassOver \/ DeleteDone \/ Build \/ PersistNothing \/ Save \/ SaveFails
  BY <1>9 DEF PassOver, DeleteDone, Build, PersistNothing, Save, SaveFails
<1>10. CASE UNCHANGED vars
  BY <1>10 DEF vars
<1> QED BY <1>1, <1>2, <1>3, <1>4, <1>5, <1>6, <1>7, <1>8, <1>9, <1>10 DEF Next

LEMMA WalStepHere ==
    ASSUME WP!IInv, [W!Next]_walVars
    PROVE  WP!IInv'
<1>1. W!Step => WP!Step
  BY DEF W!Step, WP!Step, W!StartAppend, WP!StartAppend, W!WriteFrame, WP!WriteFrame,
         W!Whole, WP!Whole, W!WriteError, WP!WriteError, W!LeftBehind, WP!LeftBehind,
         W!Torn, WP!Torn, W!CallEnds, WP!CallEnds, W!SyncOk, WP!SyncOk,
         W!SyncError, WP!SyncError, W!StartTruncate, WP!StartTruncate,
         W!TruncateSyncOk, WP!TruncateSyncOk, W!TruncateSyncError, WP!TruncateSyncError
<1>2. W!Fault => WP!Fault
  BY DEF W!Fault, WP!Fault, W!Crash, WP!Crash, W!LeftBehind, WP!LeftBehind,
         W!Torn, WP!Torn, W!Down, WP!Down, W!CallEnds, WP!CallEnds,
         W!PowerLoss, WP!PowerLoss, W!PowerLossImages, WP!PowerLossImages,
         W!Extends, WP!Extends
<1>3. W!Open => WP!Open
  BY DEF W!Open, WP!Open
<1>4. [WP!Next]_WP!vars
  BY <1>1, <1>2, <1>3 DEF W!Next, WP!Next, walVars, WP!vars
<1> QED BY <1>4, WP!NextIInv, BoundsAssumption

-----------------------------------------------------------------------------
(* The steps.  Core is shown to hold after each; for the steps of a        *)
(* running server DiskPromised then follows.                               *)

LEMMA InitCore == Init => Core
<1> SUFFICES ASSUME Init PROVE Core
  OBVIOUS
<1>1. WP!IInv
  <2>1. WP!TypeOK
    BY DEF Init, WP!TypeOK
  <2> QED BY <2>1 DEF Init, WP!IInv, WP!AckedWhole, WP!GroupWhole, WP!AckedStable,
                      WP!CutIsEmpty, WP!Extends
<1>2. EmptyTable = Snapshot /\ mem = EmptyTable /\ mem \in GoodTable
  BY EmptyIsGood DEF Init, Snapshot, EmptyTable
<1>3. /\ file = <<>> /\ stable = <<>> /\ settled = 0 /\ todo = <<>> /\ next = 1
      /\ pc = "idle" /\ kind = "none" /\ phase = "idle" /\ ~hit
      /\ mem.docs = <<>> /\ snap.docs = <<>> /\ snap.upto = 1
      /\ promise = [u \in Uri \union {Anon} |-> {{}}]
  BY DEF Init, EmptyTable
<1>4. Typed
  <2>1. /\ logged \in BOOLEAN /\ up \in BOOLEAN /\ ghost \in BOOLEAN /\ hit \in BOOLEAN
        /\ open = (logged /\ up)
    BY DEF Init
  <2>2. promise \in [Uris -> SUBSET SUBSET Write] /\ \A u \in Uris : promise[u] # {}
    BY <1>3 DEF Uris
  <2>3. next \in 1..(MaxWrites + 1) /\ snap.upto \in 1..next
        /\ settled \in Nat /\ settled <= Len(file)
    BY <1>3, BoundsAssumption
  <2> QED BY <1>2, <1>3, <2>1, <2>2, <2>3 DEF Typed
<1>5. InRequest /\ InCall /\ Fresh
  BY <1>3, BoundsAssumption DEF InRequest, InCall, Fresh, Calling
<1>6. Replay(snap, SubSeq(file, 1, 0)) = mem
  <2>1. SubSeq(file, 1, 0) = <<>>
    BY <1>3
  <2> QED BY <1>2, <2>1, ReplayEmpty DEF Snapshot
<1>7. KnownExact /\ OldLog
  <2>1. W!Extends(file, stable)
    BY <1>3 DEF W!Extends
  <2> QED BY <1>3, <1>6, <2>1 DEF KnownExact, OldLog
<1>8. KnownKept /\ Synced
  <2>1. Kept(file, stable)..settled = {0}
    BY <1>3 DEF Kept, W!Extends
  <2> QED BY <1>6, <2>1 DEF KnownKept, Synced
<1>9. Promised(promise, mem)
  <2>1. \A u \in Uris : LiveOf(mem, u) = {}
    BY <1>3 DEF LiveOf, Live
  <2>2. \A u \in Uris : promise[u] = {{}}
    BY <1>3 DEF Uris
  <2> QED BY <2>1, <2>2 DEF Promised
<1>10. Expected /\ Unlogged
  BY <1>2, <1>3, <1>9 DEF Expected, Unlogged
<1> QED BY <1>1, <1>4, <1>5, <1>7, <1>8, <1>10 DEF Core

\* What ends a request.
LEMMA ReplyEnds ==
    ASSUME Typed, mem' \in GoodTable, NEW durable \in BOOLEAN, Reply(durable)
    PROVE  /\ pc' = "idle" /\ kind' = "none" /\ todo' = <<>> /\ hit' = FALSE
           /\ promise' \in [Uris -> SUBSET SUBSET Write]
           /\ \A u \in Uris : promise'[u] # {}
           /\ Promised(promise', mem')
           /\ ~durable => \A u \in Uris : promise[u] \subseteq promise'[u]
<1>1. promise \in [Uris -> SUBSET SUBSET Write]
  BY DEF Typed
<1>2. \A u \in Uris : LiveOf(mem', u) \subseteq Write
  BY LiveOfWrites
<1>3. promise' = [u \in Uris |->
          IF durable THEN {LiveOf(mem', u)} ELSE promise[u] \union {LiveOf(mem', u)}]
  BY <1>1 DEF Reply
<1>4. promise' \in [Uris -> SUBSET SUBSET Write]
  BY <1>1, <1>2, <1>3
<1>5. \A u \in Uris : LiveOf(mem', u) \in promise'[u]
  BY <1>3
<1>6. ~durable => \A u \in Uris : promise[u] \subseteq promise'[u]
  BY <1>3
<1> QED BY <1>4, <1>5, <1>6 DEF Reply, Promised

LEMMA PromisedMore ==
    ASSUME NEW p, NEW q, \A u \in Uris : p[u] \subseteq q[u], NEW t, Promised(p, t)
    PROVE  Promised(q, t)
BY DEF Promised

\* A step that leaves the disk and the table alone, and promises no less,
\* keeps what is known of the disk.
LEMMA DiskKept ==
    ASSUME Core, UNCHANGED <<file, stable, snap, mem, settled, logged, up, ghost>>,
           \A u \in Uris : promise[u] \subseteq promise'[u]
    PROVE  KnownExact' /\ KnownKept' /\ OldLog' /\ Unlogged'
<1>1. KnownExact'
  BY DEF Core, KnownExact
<1>2. KnownKept'
  BY PromisedMore DEF Core, KnownKept
<1>3. OldLog'
  BY DEF Core, OldLog
<1>4. Unlogged'
  BY PromisedMore DEF Core, Unlogged, Snapshot
<1> QED BY <1>1, <1>2, <1>3, <1>4

\* A reply, all else staying as it is.
LEMMA ReplyCore ==
    ASSUME Core, WP!IInv', NEW durable \in BOOLEAN, Reply(durable),
           UNCHANGED <<open, file, stable, snap, mem, next, settled, logged, up, ghost>>,
           ~Calling, phase' = "idle",
           durable => up /\ logged /\ (pc \in {"build", "persist", "truncate"} \/ hit)
    PROVE  Core'
<1>1. /\ pc' = "idle" /\ kind' = "none" /\ todo' = <<>> /\ hit' = FALSE
      /\ promise' \in [Uris -> SUBSET SUBSET Write]
      /\ \A u \in Uris : promise'[u] # {}
      /\ Promised(promise', mem')
      /\ ~durable => \A u \in Uris : promise[u] \subseteq promise'[u]
  BY ReplyEnds DEF Core, Typed
<1>2. Typed'
  BY <1>1 DEF Core, Typed, Snapshot
<1>3. InRequest' /\ InCall'
  BY <1>1, BoundsAssumption DEF Core, InRequest, InCall, Calling
<1>4. Fresh'
  BY <1>1 DEF Core, Fresh
<1>5. KnownExact' /\ OldLog'
  BY DEF Core, KnownExact, OldLog
<1>6. KnownKept'
  <2>1. CASE durable
    BY <2>1 DEF Core, Synced, KnownKept
  <2>2. CASE ~durable
    BY <1>1, <2>2, DiskKept
  <2> QED BY <2>1, <2>2
<1>7. Unlogged'
  <2>1. CASE durable
    BY <2>1 DEF Unlogged
  <2>2. CASE ~durable
    BY <1>1, <2>2, DiskKept
  <2> QED BY <2>1, <2>2
<1>8. Synced' /\ Expected'
  BY <1>1 DEF Synced, Expected
<1> QED BY <1>2, <1>3, <1>4, <1>5, <1>6, <1>7, <1>8 DEF Core

\* What is numbered before next is numbered before any later number.
LEMMA OldWrites ==
    ASSUME Core, NEW m \in Nat, next <= m
    PROVE  /\ \A i \in 1..Len(file) : file[i].rec.n < m
           /\ \A i \in 1..Len(stable) : stable[i].rec.n < m
           /\ \A i \in 1..Len(mem.docs) : mem.docs[i].n < m
           /\ \A i \in 1..Len(snap.docs) : snap.docs[i].n < m
<1>1. next \in Nat /\ Write \subseteq Nat
  BY DEF Core, Typed, Write
<1>2. file \in Log /\ stable \in Log
  BY LogTypes DEF Core
<1>3. mem.docs \in Seq(Document) /\ snap.docs \in Seq(Document)
  BY DEF Core, Typed, GoodTable, Snapshot
<1>4. /\ \A i \in 1..Len(file) : file[i].rec.n \in Nat
      /\ \A i \in 1..Len(stable) : stable[i].rec.n \in Nat
  BY <1>1, <1>2, FrameFields, RecordFields
<1>5. /\ \A i \in 1..Len(mem.docs) : mem.docs[i] \in Document
      /\ \A i \in 1..Len(snap.docs) : snap.docs[i] \in Document
  BY <1>3
<1>6. /\ \A i \in 1..Len(file) : file[i].rec.n < next
      /\ \A i \in 1..Len(stable) : stable[i].rec.n < next
      /\ \A i \in 1..Len(mem.docs) : mem.docs[i].n < next
      /\ \A i \in 1..Len(snap.docs) : snap.docs[i].n < next
  BY DEF Core, Fresh
<1>7. /\ \A i \in 1..Len(mem.docs) : mem.docs[i].n \in Nat
      /\ \A i \in 1..Len(snap.docs) : snap.docs[i].n \in Nat
  BY <1>1, <1>5 DEF Document
<1>8. \A a \in Nat : a < next => a < m
  BY <1>1
<1> QED BY <1>4, <1>6, <1>7, <1>8

\* A request begins.
LEMMA BeginCore ==
    ASSUME Core, WP!IInv', NEW k \in {"index_add", "add", "index_delete"}, NEW items,
           NEW first, Begin(k, items, first),
           Len(items) \in 1..MaxItems,
           \A i \in 1..Len(items) : items[i].n = next + i - 1,
           k \in {"index_add", "add"} => items \in Seq(Document),
           k = "index_delete" => items \in Seq([id : 1..Len(mem.docs), n : Write]),
           k = "index_add" => first = FirstStep(mem, items[1]),
           k = "add" => first = "bulk",
           k = "index_delete" => first = "erase"
    PROVE  Core'
<1>1. /\ up /\ pc = "idle" /\ next + Len(items) <= MaxWrites + 1
      /\ kind' = k /\ todo' = items /\ hit' = FALSE /\ pc' = first
      /\ next' = next + Len(items)
      /\ UNCHANGED <<walVars, logged, up, mem, snap, settled, ghost>>
      /\ UNCHANGED <<open, file, stable, phase, queue, group>>
  BY DEF Begin, walVars
<1>2. /\ promise \in [Uris -> SUBSET SUBSET Write] /\ mem \in GoodTable
      /\ next \in 1..(MaxWrites + 1) /\ snap.upto \in 1..next /\ MaxItems \in Nat
      /\ settled \in Nat /\ Len(items) \in Nat /\ MaxWrites \in Nat
      /\ up \in BOOLEAN /\ logged \in BOOLEAN
  BY BoundsAssumption DEF Core, Typed
<1>3. /\ k = "index_add" => first \in {"drop", "insert"}
      /\ first = "drop" => FindByUri(mem, items[1].uri) # 0
  BY DEF FirstStep
<1>4. ~Calling
  BY <1>1 DEF Core, InCall, Mutating
<1>5. promise' = [u \in Uris |->
         promise[u] \union {LiveOf(t, u) : t \in Outcomes(mem, k, items)}]
  BY <1>1, <1>2 DEF Begin
<1>6. \A u \in Uris : promise[u] \subseteq promise'[u]
  BY <1>5
<1>7. \A t \in Outcomes(mem, k, items) : Promised(promise', t)
  BY <1>5 DEF Promised
<1>8. \A t \in Outcomes(mem, k, items) : t \in GoodTable
  <2>1. CASE k = "index_delete"
    BY <1>2, <2>1, ErasedIsGood DEF Outcomes
  <2>2. CASE k \in {"index_add", "add"}
    BY <1>2, <2>2, DoneIsGood DEF Outcomes
  <2> QED BY <2>1, <2>2
<1>9. promise' \in [Uris -> SUBSET SUBSET Write] /\ \A u \in Uris : promise'[u] # {}
  <2>1. \A u \in Uris : \A t \in Outcomes(mem, k, items) : LiveOf(t, u) \in SUBSET Write
    BY <1>8, LiveOfWrites
  <2>2. \A u \in Uris : promise[u] # {}
    BY DEF Core, Typed
  <2> QED BY <1>2, <1>5, <2>1, <2>2
<1>10. Typed'
  <2>1. next' \in 1..(MaxWrites + 1) /\ snap.upto \in 1..next'
    BY <1>1, <1>2
  <2>2. pc' \in {"drop", "insert", "bulk", "erase"}
    BY <1>1, <1>3
  <2> QED BY <1>1, <1>9, <2>1, <2>2 DEF Core, Typed, Snapshot
<1>11. InRequest'
  <2>1. CASE k = "index_add"
    BY <1>1, <1>2, <1>3, <2>1 DEF InRequest
  <2>2. CASE k = "add"
    BY <1>1, <1>2, <2>2 DEF InRequest
  <2>3. CASE k = "index_delete"
    BY <1>1, <1>2, <2>3 DEF InRequest
  <2> QED BY <2>1, <2>2, <2>3
<1>12. InCall'
  BY <1>1, <1>4 DEF Core, InCall, Calling
<1>13. Fresh'
  <2>1. \A i \in 1..Len(todo') : todo'[i].n < next'
    BY <1>1, <1>2
  <2>2. /\ \A i \in 1..Len(file) : file[i].rec.n < next'
        /\ \A i \in 1..Len(stable) : stable[i].rec.n < next'
        /\ \A i \in 1..Len(mem.docs) : mem.docs[i].n < next'
        /\ \A i \in 1..Len(snap.docs) : snap.docs[i].n < next'
    <3>1. next' \in Nat /\ next <= next'
      BY <1>1, <1>2
    <3> QED BY <3>1, OldWrites
  <2>3. /\ \A i \in 1..Len(mem.docs) : mem.docs[i].n < todo'[1].n
        /\ \A i, j \in 1..Len(todo') : i < j => todo'[i].n < todo'[j].n
        /\ \A i \in 1..settled : file[i].rec.n < todo'[1].n
    <3>1. todo'[1].n = next /\ settled <= Len(file) /\ Len(file) \in Nat
      BY <1>1, <1>2, LogTypes DEF Core, Typed
    <3>2. \A i, j \in 1..Len(items) : i < j => items[i].n < items[j].n
      BY <1>2
    <3>3. next \in Nat /\ next <= next
      BY <1>2
    <3> QED BY <1>1, <1>2, <3>1, <3>2, <3>3, OldWrites
  <2> QED BY <1>1, <2>1, <2>2, <2>3 DEF Fresh
<1>14. KnownExact' /\ KnownKept' /\ OldLog' /\ Unlogged'
  BY <1>1, <1>6, DiskKept
<1>15. Synced'
  BY <1>1, <1>3 DEF Synced
<1>16. Expected'
  <2>1. Promised(promise', mem)
    BY <1>1, <1>6, PromisedMore DEF Core, Expected
  <2>2. CASE k \in {"index_add", "add"}
    <3>1. \A i \in 1..Len(items) : Promised(promise', DoneFirst(mem, k, items, i))
      BY <1>7, <2>2 DEF Outcomes
    <3>2. \A i \in 0..Len(items) : Promised(promise', DoneFirst(mem, k, items, i))
      BY <1>2, <2>1, <3>1, DoneNothing
    <3> QED BY <1>1, <1>3, <2>1, <2>2, <3>1, <3>2 DEF Expected
  <2>3. CASE k = "index_delete"
    <3>1. \A ids \in SUBSET {items[i].id : i \in 1..Len(items)} :
             Promised(promise', Erased(mem, ids))
      BY <1>7, <2>3 DEF Outcomes
    <3> QED BY <1>1, <2>3, <3>1 DEF Expected
  <2> QED BY <2>2, <2>3
<1> QED BY <1>10, <1>11, <1>12, <1>13, <1>14, <1>15, <1>16 DEF Core

LEMMA IndexAddCore ==
    ASSUME Core, WP!IInv', NEW n \in 1..MaxItems,
           NEW us \in [1..n -> Uri \union {Anon}], IndexAdd(us) \/ AddDocuments(us)
    PROVE  Core'
<1> DEFINE items == Documents(us)
<1>1. n \in Nat /\ us \in Seq(Uris) /\ Len(us) = n /\ next \in Nat /\ MaxWrites \in Nat
  BY BoundsAssumption DEF Core, Typed, Uris
<1>2. items = [i \in 1..n |-> [uri |-> us[i], n |-> next + i - 1]]
  BY <1>1 DEF Documents
<1>3. Len(items) = n /\ \A i \in 1..n : items[i] = [uri |-> us[i], n |-> next + i - 1]
  BY <1>1, <1>2
<1>4. next + Len(items) <= MaxWrites + 1
  BY DEF IndexAdd, AddDocuments, Begin
<1>5. items \in Seq(Document)
  <2>1. \A i \in 1..n : [uri |-> us[i], n |-> next + i - 1] \in Document
    <3>1. \A i \in 1..n : us[i] \in Uris /\ next + i - 1 \in Write
      BY <1>1, <1>3, <1>4 DEF Write, Core, Typed
    <3> QED BY <3>1 DEF Document
  <2> QED BY <1>1, <1>2, <2>1
<1> HIDE DEF items
<1>6. \A i \in 1..Len(items) : items[i].n = next + i - 1
  BY <1>3
<1>7. CASE IndexAdd(us)
  <2>1. Begin("index_add", items, FirstStep(mem, items[1]))
    BY <1>7 DEF IndexAdd, items
  <2> QED BY <1>3, <1>5, <1>6, <2>1, BeginCore
<1>8. CASE AddDocuments(us)
  <2>1. Begin("add", items, "bulk")
    BY <1>8 DEF AddDocuments, items
  <2> QED BY <1>3, <1>5, <1>6, <2>1, BeginCore
<1> QED BY <1>7, <1>8

LEMMA IndexDeleteCore ==
    ASSUME Core, WP!IInv', NEW n \in 1..MaxItems,
           NEW ids \in [1..n -> 1..Len(mem.docs)], IndexDelete(ids)
    PROVE  Core'
<1> DEFINE items == [i \in 1..Len(ids) |-> [id |-> ids[i], n |-> next + i - 1]]
           D == [id : 1..Len(mem.docs), n : Write]
<1>1. n \in Nat /\ Len(ids) = n /\ next \in Nat /\ next >= 1 /\ MaxWrites \in Nat
  BY BoundsAssumption DEF Core, Typed
<1>2. Begin("index_delete", items, "erase")
  BY DEF IndexDelete
<1>3. items = [i \in 1..n |-> [id |-> ids[i], n |-> next + i - 1]]
  BY <1>1
<1>4. Len(items) = n /\ \A i \in 1..n : items[i] = [id |-> ids[i], n |-> next + i - 1]
  BY <1>1, <1>3
<1>5. next + Len(items) <= MaxWrites + 1
  BY <1>2 DEF Begin
<1>6. items \in Seq(D)
  <2>1. \A i \in 1..n : ids[i] \in 1..Len(mem.docs) /\ next + i - 1 \in Write
    BY <1>1, <1>4, <1>5 DEF Write
  <2>2. \A i \in 1..n : [id |-> ids[i], n |-> next + i - 1] \in D
    BY <2>1
  <2> HIDE DEF D
  <2> QED BY <1>1, <1>3, <2>2
<1> HIDE DEF items
<1>7. \A i \in 1..Len(items) : items[i].n = next + i - 1
  BY <1>4
<1> QED BY <1>2, <1>4, <1>6, <1>7, BeginCore

LEMMA StartLogCore == Core /\ WP!IInv' /\ StartLog => Core'
<1> SUFFICES ASSUME Core, WP!IInv', StartLog PROVE Core'
  OBVIOUS
<1>1. /\ up /\ logged /\ Mutating /\ ~Needless /\ phase = "idle"
      /\ phase' = "write" /\ queue' = Records /\ group' = Len(Records)
      /\ UNCHANGED <<open, file, stable, mem, pc, kind, todo, hit, settled, ghost,
                     promise, logged, up, snap, next>>
  BY DEF StartLog, W!StartAppend, logUnchanged
<1>2. Records \in Seq(Record) /\ Len(Records) \in Nat /\ Len(file) \in Nat
  BY <1>1, RecordsTyped, LogTypes DEF Core
<1>3. Records' = Records /\ (Mutating /\ ~Needless)'
  BY <1>1 DEF Records, Mutating, Needless
<1>4. InCall'
  <2>1. settled = Len(file) /\ pc # "truncate"
    BY <1>1 DEF Core, InCall, Calling, Mutating
  <2>2. Len(queue') = group' /\ group' - Len(queue') = 0 /\ settled' + 0 = Len(file')
    BY <1>1, <1>2, <2>1
  <2> QED BY <1>1, <1>2, <1>3, <2>1, <2>2 DEF InCall, Calling
<1>5. Typed' /\ InRequest' /\ Fresh'
  BY <1>1 DEF Core, Typed, InRequest, Fresh, Snapshot
<1>6. KnownExact' /\ KnownKept' /\ OldLog' /\ Unlogged'
  BY <1>1, DiskKept
<1>7. Synced' /\ Expected'
  BY <1>1 DEF Core, Synced, Expected, RemoveStable
<1> QED BY <1>4, <1>5, <1>6, <1>7 DEF Core

\* The kept part of a log that grows does not shrink.
LEMMA KeptGrows ==
    ASSUME NEW f \in Log, NEW g \in Log, NEW x \in W!Frame
    PROVE  /\ Kept(Append(f, x), g) \in Nat
           /\ Kept(f, g) <= Kept(Append(f, x), g)
           /\ W!Extends(f, g) => W!Extends(Append(f, x), g)
<1> DEFINE h == Append(f, x)
<1>1. /\ Len(f) \in Nat /\ Len(h) = Len(f) + 1 /\ Len(g) \in Nat
      /\ \A i \in 1..Len(f) : h[i] = f[i]
  BY AppendToLog DEF Log
<1> HIDE DEF h
<1>2. W!Extends(f, g) => W!Extends(h, g)
  BY <1>1 DEF W!Extends
<1>3. Kept(h, g) \in Nat /\ Kept(f, g) <= Kept(h, g)
  BY <1>1, <1>2 DEF Kept
<1> QED BY <1>2, <1>3 DEF h

\* A step that only appends a frame keeps what is known of the settled part.
LEMMA GrowthKept ==
    ASSUME Core, NEW x \in W!Frame, file' = Append(file, x),
           UNCHANGED <<stable, snap, mem, settled, logged, up, ghost>>,
           \A u \in Uris : promise[u] \subseteq promise'[u]
    PROVE  /\ KnownExact' /\ KnownKept' /\ OldLog' /\ Unlogged'
           /\ UNCHANGED <<pc, hit>> => Synced'
<1>1. /\ file \in Log /\ stable \in Log /\ Len(file) \in Nat /\ settled \in Nat
      /\ up => settled <= Len(file)
  BY LogTypes DEF Core, Typed
<1>2. /\ Kept(file', stable) \in Nat /\ Kept(file, stable) <= Kept(file', stable)
      /\ Kept(file, stable) \in Nat
      /\ W!Extends(file, stable) => W!Extends(file', stable)
  BY <1>1, KeptGrows, KeptNumber
<1>3. \A n \in 0..Len(file) : SubSeq(file', 1, n) = SubSeq(file, 1, n)
  BY <1>1 DEF Log
<1>4. KnownExact'
  <2>1. up => SubSeq(file', 1, settled) = SubSeq(file, 1, settled)
    BY <1>1, <1>3
  <2> QED BY <2>1 DEF Core, KnownExact
<1>5. \A n \in Kept(file', stable)..settled : n \in Kept(file, stable)..settled
  BY <1>1, <1>2
<1>6. up => \A n \in Kept(file', stable)..settled : SubSeq(file', 1, n) = SubSeq(file, 1, n)
  BY <1>1, <1>2, <1>3
<1>7. KnownKept'
  <2> SUFFICES ASSUME up, logged, ~ghost, NEW n \in Kept(file', stable)..settled,
                      Sound(snap, SubSeq(file, 1, n)), Replay(snap, SubSeq(file, 1, n)) # mem
               PROVE  Promised(promise', Replay(snap, SubSeq(file, 1, n)))
    BY <1>6 DEF KnownKept
  <2>1. Promised(promise, Replay(snap, SubSeq(file, 1, n)))
    BY <1>5 DEF Core, KnownKept
  <2> QED BY <2>1, PromisedMore
<1>8. OldLog'
  BY <1>2 DEF Core, OldLog
<1>9. Unlogged'
  BY PromisedMore DEF Core, Unlogged, Snapshot
<1>10. ASSUME UNCHANGED <<pc, hit>> PROVE Synced'
  BY <1>5, <1>6, <1>10 DEF Core, Synced
<1> QED BY <1>4, <1>7, <1>8, <1>9, <1>10

LEMMA RecordsFresh ==
    ASSUME Typed, InRequest, Fresh, Mutating, NEW i \in 1..Len(Records)
    PROVE  Records[i].n < next
<1>1. todo # <<>> /\ Len(todo) \in Nat /\ 1 \in 1..Len(todo)
  BY RecordsTyped DEF InRequest
<1>2. \A j \in 1..Len(todo) : todo[j].n < next
  BY DEF Fresh
<1>3. CASE pc = "bulk"
  <2>1. Records = [j \in 1..Len(todo) |-> AddRecord(todo[j])]
    BY <1>3 DEF Records
  <2>2. i \in 1..Len(todo) /\ Records[i] = AddRecord(todo[i])
    BY <1>1, <2>1
  <2> QED BY <1>2, <2>2 DEF AddRecord
<1>4. CASE pc \in {"drop", "insert", "erase"}
  <2>1. Len(Records) = 1 /\ Records[1].n = todo[1].n
    BY <1>4 DEF Records, AddRecord, RemoveRecord
  <2> QED BY <1>1, <1>2, <2>1
<1> QED BY <1>3, <1>4 DEF Mutating

LEMMA WriteLogCore == Core /\ WP!IInv' /\ WriteLog => Core'
<1> SUFFICES ASSUME Core, WP!IInv', WriteLog PROVE Core'
  OBVIOUS
<1> DEFINE r == Head(queue)
           w == W!Whole(r)
<1>1. /\ up /\ phase = "write"
      /\ file' = Append(file, w) /\ queue' = Tail(queue)
      /\ phase' \in {"sync", "write"}
      /\ UNCHANGED <<open, stable, group, mem, pc, kind, todo, hit, settled, ghost,
                     promise, logged, up, snap, next>>
  BY DEF WriteLog, W!WriteFrame, logUnchanged
<1>2. /\ file \in Log /\ Len(file) \in Nat /\ queue \in Seq(Record) /\ queue # <<>>
      /\ Len(queue) \in Nat /\ group \in Nat /\ Len(queue) <= group
      /\ settled \in Nat /\ settled <= Len(file) /\ stable \in Log
  BY <1>1, LogTypes DEF Core, Typed
<1>3. /\ r \in Record /\ r = queue[1] /\ Len(Tail(queue)) = Len(queue) - 1
      /\ \A i \in 1..Len(Tail(queue)) : Tail(queue)[i] = queue[i + 1]
  BY <1>2
<1>4. w \in W!Frame /\ w.rec = r
  BY <1>3 DEF W!Whole, W!Frame
<1>5. /\ Len(file') = Len(file) + 1 /\ file'[Len(file) + 1] = w
      /\ \A i \in 1..Len(file) : file'[i] = file[i]
  BY <1>1, <1>2, <1>4, AppendToLog
<1>6. /\ logged /\ Mutating /\ ~Needless /\ group = Len(Records)
      /\ Len(file) = settled + (group - Len(queue))
      /\ \A i \in 1..(group - Len(queue)) : file[settled + i] = W!Whole(Records[i])
      /\ \A i \in 1..Len(queue) : queue[i] = Records[(group - Len(queue)) + i]
  BY <1>1 DEF Core, InCall, Calling
<1>7. Records' = Records /\ (Mutating /\ ~Needless)'
  BY <1>1, <1>6 DEF Records, Mutating, Needless
<1> HIDE DEF r, w
<1>8. InCall'
  <2> DEFINE done == group - Len(queue)
  <2>1. group' - Len(queue') = done + 1 /\ done \in Nat /\ Len(file) = settled + done
    BY <1>1, <1>2, <1>3, <1>6
  <2>2. Len(file') = settled + (done + 1)
    BY <1>2, <1>5, <2>1
  <2>3. r = Records[done + 1]
    BY <1>2, <1>3, <1>6
  <2>4. file'[settled + (done + 1)] = W!Whole(Records[done + 1])
    BY <1>2, <1>5, <2>1, <2>3 DEF w
  <2>5. \A i \in 1..done : file'[settled + i] = W!Whole(Records[i])
    BY <1>2, <1>5, <1>6, <2>1
  <2>6. \A i \in 1..(done + 1) : file'[settled + i] = W!Whole(Records[i])
    BY <2>1, <2>4, <2>5
  <2>7. \A i \in 1..Len(queue') : queue'[i] = Records[(done + 1) + i]
    BY <1>1, <1>2, <1>3, <1>6, <2>1
  <2> HIDE DEF done
  <2> QED BY <1>1, <1>6, <1>7, <2>1, <2>2, <2>6, <2>7 DEF InCall, Calling
<1>9. Typed' /\ InRequest'
  BY <1>1, <1>2, <1>5 DEF Core, Typed, InRequest, Snapshot
<1>10. Fresh'
  <2>1. r.n < next
    <3>1. r = Records[(group - Len(queue)) + 1]
      BY <1>2, <1>3, <1>6
    <3>2. (group - Len(queue)) + 1 \in 1..Len(Records)
      BY <1>2, <1>6
    <3> QED BY <1>6, <3>1, <3>2, RecordsFresh DEF Core
  <2>2. \A i \in 1..Len(file') : file'[i].rec.n < next
    <3>1. \A i \in 1..Len(file) : file'[i].rec.n < next
      BY <1>5 DEF Core, Fresh
    <3> QED BY <1>2, <1>4, <1>5, <2>1, <3>1
  <2>3. \A i \in 1..settled : file'[i] = file[i]
    BY <1>2, <1>5
  <2> QED BY <1>1, <2>2, <2>3 DEF Core, Fresh
<1>11. KnownExact' /\ KnownKept' /\ OldLog' /\ Unlogged' /\ Synced'
  <2>1. \A u \in Uris : promise[u] \subseteq promise'[u]
    BY <1>1
  <2> QED BY <1>1, <1>4, <2>1, GrowthKept
<1>12. Expected'
  <2>1. RemoveStable => RemoveStable'
    BY <1>1, <1>2, <1>4, KeptGrows DEF RemoveStable
  <2> QED BY <1>1, <2>1 DEF Core, Expected
<1> QED BY <1>8, <1>9, <1>10, <1>11, <1>12 DEF Core

-----------------------------------------------------------------------------
(* A mutation is applied.                                                  *)

\* The log that a call has written replays as the change it was written for.
LEMMA ChangedReplayed ==
    ASSUME Core, up, logged, phase = "sync", ~ghost, Sound(snap, file)
    PROVE  Replay(snap, file) = Changed
<1>1. /\ file \in Log /\ Len(file) \in Nat /\ settled \in Nat /\ queue = <<>>
      /\ group \in Nat /\ group # 0 /\ mem \in GoodTable /\ Calling
  BY LogTypes DEF Core, Typed, Calling
<1>2. Len(file) = settled + group /\ group = Len(Records) /\ Mutating
  BY <1>1 DEF Core, InCall
<1>3. file = SubSeq(file, 1, Len(file)) /\ settled < Len(file)
  BY <1>1, <1>2 DEF Log
<1>4. CASE pc = "bulk"
  <2>1. Len(file) - settled \in 0..(Len(file) - settled)
        /\ settled + (Len(file) - settled) = Len(file)
    BY <1>1, <1>2
  <2>2. Replay(snap, file) = DoneFirst(mem, "add", todo, Len(file) - settled)
    BY <1>1, <1>3, <1>4, <2>1, BulkReplayed
  <2>3. Records = [i \in 1..Len(todo) |-> AddRecord(todo[i])] /\ Len(todo) \in Nat
    BY <1>4 DEF Records, Core, InRequest
  <2>4. Len(file) - settled = Len(todo)
    BY <1>1, <1>2, <2>3
  <2> QED BY <1>4, <2>2, <2>4 DEF Changed
<1>5. ASSUME Len(Records) = 1
      PROVE  /\ Replay(snap, file) = ReplayRecord(mem, Records[1])
             /\ Records[1].op = "add" => FindByUri(mem, Records[1].uri) = 0
  <2>1. settled + 1 = Len(file)
    BY <1>2, <1>5
  <2> QED BY <1>1, <1>3, <2>1, OneReplayed
<1>6. CASE pc = "insert"
  <2>1. Records[1] = AddRecord(todo[1]) /\ Len(Records) = 1 /\ todo[1] \in Document
    BY <1>6, FirstItem DEF Records, Core
  <2>2. /\ Records[1].op = "add" /\ Records[1].uri = todo[1].uri
        /\ [uri |-> Records[1].uri, n |-> Records[1].n] = todo[1]
    BY <2>1 DEF AddRecord, Document
  <2>3. Replay(snap, file) = Upsert(mem, todo[1]) /\ FindByUri(mem, todo[1].uri) = 0
    BY <1>5, <2>1, <2>2 DEF ReplayRecord
  <2> QED BY <1>1, <1>6, <2>3, UpsertAdds DEF Changed
<1>7. CASE pc = "drop"
  <2>1. /\ Records[1] = RemoveRecord(FindByUri(mem, todo[1].uri), todo[1].n)
        /\ Len(Records) = 1
    BY <1>7 DEF Records
  <2>2. Records[1].op = "remove" /\ Records[1].id = FindByUri(mem, todo[1].uri)
    BY <2>1 DEF RemoveRecord
  <2> QED BY <1>5, <1>7, <2>1, <2>2 DEF ReplayRecord, Changed
<1>8. CASE pc = "erase"
  <2>1. Records[1] = RemoveRecord(todo[1].id, todo[1].n) /\ Len(Records) = 1
    BY <1>8 DEF Records
  <2>2. Records[1].op = "remove" /\ Records[1].id = todo[1].id
    BY <2>1 DEF RemoveRecord
  <2> QED BY <1>5, <1>8, <2>1, <2>2 DEF ReplayRecord, Changed
<1> QED BY <1>2, <1>4, <1>6, <1>7, <1>8 DEF Mutating

LEMMA AppendBelow ==
    ASSUME NEW s \in Seq(Document), NEW d \in Document, NEW m,
           \A i \in 1..Len(s) : s[i].n < m, d.n < m
    PROVE  \A i \in 1..Len(Append(s, d)) : Append(s, d)[i].n < m
<1> DEFINE a == Append(s, d)
<1>1. /\ Len(s) \in Nat /\ Len(a) = Len(s) + 1 /\ a[Len(s) + 1] = d
      /\ \A i \in 1..Len(s) : a[i] = s[i]
  OBVIOUS
<1> HIDE DEF a
<1>2. \A i \in 1..Len(a) : a[i].n < m
  BY <1>1
<1> QED BY <1>2 DEF a

\* The documents of an unfinished add are the table's and the request's.
LEMMA DoneFresh ==
    ASSUME NEW t \in GoodTable, NEW items \in Seq(Document), NEW m,
           \A i \in 1..Len(t.docs) : t.docs[i].n < m,
           \A i \in 1..Len(items) : items[i].n < m,
           NEW n \in 0..Len(items)
    PROVE  LET d == DoneFirst(t, "add", items, n).docs
           IN  \A i \in 1..Len(d) : d[i].n < m
<1> DEFINE D(k) == DoneFirst(t, "add", items, k)
           S == {k \in Nat : k <= Len(items) =>
                    \A i \in 1..Len(D(k).docs) : D(k).docs[i].n < m}
<1>1. 0 \in S
  BY DoneNothing
<1>2. ASSUME NEW k \in Nat, k \in S PROVE k + 1 \in S
  <2> SUFFICES ASSUME k + 1 <= Len(items)
               PROVE  \A i \in 1..Len(D(k + 1).docs) : D(k + 1).docs[i].n < m
    OBVIOUS
  <2>1. D(k + 1) = Push(D(k), items[k + 1])
    BY DoneOneMore DEF Done
  <2>2. D(k) \in GoodTable /\ items[k + 1] \in Document /\ k + 1 \in 1..Len(items)
    BY DoneIsGood
  <2>3. \A i \in 1..Len(D(k).docs) : D(k).docs[i].n < m
    BY <1>2
  <2> HIDE DEF D
  <2>4. D(k + 1).docs = Append(D(k).docs, items[k + 1])
    BY <2>1, <2>2, PushIsGood
  <2>5. D(k).docs \in Seq(Document) /\ items[k + 1].n < m
    BY <2>2 DEF GoodTable
  <2> QED BY <2>2, <2>3, <2>4, <2>5, AppendBelow
<1>3. Nat \subseteq S
  <2> HIDE DEF S
  <2> QED BY <1>1, <1>2, Induction
<1> QED BY <1>3

LEMMA ChangedTyped ==
    ASSUME Core, Mutating
    PROVE  /\ Changed \in GoodTable
           /\ pc \in {"drop", "erase"} => Changed.docs = mem.docs
           /\ pc = "insert" => Changed.docs = Append(mem.docs, todo[1])
           /\ \A i \in 1..Len(Changed.docs) : Changed.docs[i].n < next
<1>1. /\ mem \in GoodTable /\ \A i \in 1..Len(mem.docs) : mem.docs[i].n < next
      /\ \A i \in 1..Len(todo) : todo[i].n < next /\ InRequest
  BY DEF Core, Typed, Fresh
<1>2. CASE pc = "drop"
  BY <1>1, <1>2, KillIsGood DEF Changed
<1>3. CASE pc = "erase"
  BY <1>1, <1>3, KillIsGood DEF Changed
<1>4. CASE pc = "insert"
  <2>1. 1 \in 1..Len(todo) /\ todo[1] \in Document
    BY <1>4, FirstItem DEF Core
  <2>2. /\ Changed \in GoodTable /\ Changed.docs = Append(mem.docs, todo[1])
        /\ mem.docs \in Seq(Document)
    BY <1>1, <1>4, <2>1, PushIsGood DEF Changed, GoodTable
  <2>3. todo[1].n < next
    BY <1>1, <2>1
  <2> QED BY <1>1, <1>4, <2>1, <2>2, <2>3
<1>5. CASE pc = "bulk"
  <2>1. todo \in Seq(Document) /\ Len(todo) \in 0..Len(todo)
    <3>1. todo \in Seq(Document)
      BY <1>5 DEF Core, InRequest
    <3> QED BY <3>1
  <2>2. Changed = DoneFirst(mem, "add", todo, Len(todo))
    BY <1>5 DEF Changed
  <2>3. \A i \in 1..Len(Changed.docs) : Changed.docs[i].n < next
    BY <1>1, <2>1, <2>2, DoneFresh
  <2> QED BY <1>1, <1>5, <2>1, <2>2, <2>3, DoneIsGood
<1> QED BY <1>2, <1>3, <1>4, <1>5 DEF Mutating

\* What Apply does to the log and what is known of it then.
LEMMA ApplyDisk ==
    ASSUME Core, WP!IInv', Apply
    PROVE  /\ KnownExact' /\ KnownKept' /\ Synced' /\ OldLog'
           /\ file' = file /\ open' = open /\ phase' = "idle" /\ InCall'
           /\ settled' = Len(file) /\ settled' \in Nat
           /\ logged => /\ phase = "sync" /\ stable' = file
                        /\ W!Extends(file', stable') /\ Len(file) = settled + group
           /\ ~logged => stable' = stable
<1>1. /\ up /\ Mutating /\ ~Needless /\ mem' = Changed
      /\ IF logged THEN W!SyncOk ELSE UNCHANGED walVars
      /\ settled' = Len(file') /\ ghost' = ghost
      /\ UNCHANGED <<logged, up, snap, next>>
  BY DEF Apply, logUnchanged
<1>2. /\ file \in Log /\ stable \in Log /\ Len(file) \in Nat /\ logged \in BOOLEAN
      /\ phase = "sync" => queue = <<>>
  BY LogTypes DEF Core, Typed
<1>3. CASE logged
  <2>1. /\ phase = "sync" /\ stable' = file /\ file' = file /\ open' = open
        /\ phase' = "idle" /\ queue' = <<>> /\ group' = 0
    BY <1>1, <1>3 DEF W!SyncOk, W!CallEnds
  <2>2. W!Extends(file', stable') /\ Kept(file', stable') = Len(file)
    BY <2>1 DEF W!Extends, Kept
  <2>3. SubSeq(file, 1, Len(file)) = file
    BY <1>2 DEF Log
  <2>4. ~ghost /\ Sound(snap, file) => Replay(snap, file) = mem'
    BY <1>1, <1>3, <2>1, ChangedReplayed
  <2>5. KnownExact'
    BY <1>1, <2>1, <2>3, <2>4 DEF KnownExact
  <2>6. Kept(file', stable')..settled' = {Len(file)}
    BY <1>1, <1>2, <2>1, <2>2
  <2>7. KnownKept' /\ Synced'
    BY <1>1, <2>1, <2>3, <2>4, <2>6 DEF KnownKept, Synced
  <2>8. OldLog'
    BY <2>2 DEF OldLog
  <2>9. Len(file) = settled + group
    <3>1. group \in Nat /\ settled \in Nat /\ Len(queue) = 0
      BY <1>2, <2>1, LogTypes DEF Core, Typed
    <3> QED BY <2>1, <3>1 DEF Core, InCall, Calling
  <2>10. InCall'
    BY <1>1, <1>3, <2>1 DEF InCall, Calling
  <2> QED BY <1>1, <1>2, <1>3, <2>1, <2>2, <2>5, <2>7, <2>8, <2>9, <2>10
<1>4. CASE ~logged
  <2>1. UNCHANGED <<open, file, stable, phase, queue, group>> /\ phase = "idle"
        /\ file = <<>> /\ stable = <<>>
    BY <1>1, <1>4 DEF walVars, Core, InCall
  <2>2. KnownExact' /\ KnownKept' /\ Synced'
    BY <1>1, <1>4 DEF KnownExact, KnownKept, Synced
  <2>3. OldLog'
    BY <1>1, <2>1 DEF Core, OldLog
  <2>4. InCall'
    BY <1>1, <1>4, <2>1 DEF InCall, Calling
  <2> QED BY <1>1, <1>2, <1>4, <2>1, <2>2, <2>3, <2>4
<1> QED BY <1>2, <1>3, <1>4

\* What a step of an upsert leaves: a document removed that was one of two, a
\* document added beside one of the same uri.
LEMMA KillDoubled ==
    ASSUME NEW t \in GoodTable, NEW u, FindByUri(t, u) # 0, Doubled(t)
    PROVE  \/ Doubled(Kill(t, FindByUri(t, u)))
           \/ FindByUri(Kill(t, FindByUri(t, u)), u) # 0
<1> DEFINE x == FindByUri(t, u)
           k == Kill(t, x)
<1>1. PICK v \in Uri : \E m, n \in LiveOf(t, v) : m # n
  BY DEF Doubled
<1>2. PICK a \in Live(t), b \in Live(t) :
          t.docs[a].uri = v /\ t.docs[b].uri = v /\ t.docs[a].n # t.docs[b].n
  BY <1>1 DEF LiveOf
<1>3. k \in GoodTable /\ k.docs = t.docs /\ Live(k) = Live(t) \ {x}
  BY KillIsGood, KillLive
<1>4. x \in Live(t) /\ t.docs[x].uri = u /\ v # Anon /\ a # b
  BY <1>1, <1>2, FindByUriLive, AnonAssumption
<1> HIDE DEF x, k
<1>5. CASE x \notin {a, b}
  <2>1. a \in Live(k) /\ b \in Live(k)
    BY <1>2, <1>3, <1>5
  <2>2. t.docs[a].n \in LiveOf(k, v) /\ t.docs[b].n \in LiveOf(k, v)
    BY <1>2, <1>3, <2>1 DEF LiveOf
  <2>3. Doubled(k)
    BY <1>2, <2>2 DEF Doubled
  <2> QED BY <2>3 DEF k, x
<1>6. CASE x \in {a, b}
  <2>1. u = v
    BY <1>2, <1>4, <1>6
  <2>2. PICK c \in {a, b} : c # x
    BY <1>4
  <2>3. c \in Live(k) /\ k.docs[c].uri = u
    BY <1>2, <1>3, <2>1, <2>2
  <2>4. FindByUri(k, u) # 0
    BY <1>3, <1>4, <2>1, <2>3, FindByUriNone
  <2> QED BY <2>4 DEF k, x
<1> QED BY <1>5, <1>6

LEMMA PushDoubled ==
    ASSUME NEW t \in GoodTable, NEW d \in Document
    PROVE  /\ Doubled(t) => Doubled(Push(t, d))
           /\ FindByUri(t, d.uri) # 0 /\ (\A i \in 1..Len(t.docs) : t.docs[i].n # d.n)
                 => Doubled(Push(t, d))
<1>1. ASSUME Doubled(t) PROVE Doubled(Push(t, d))
  <2>1. PICK u \in Uri : \E m, n \in LiveOf(t, u) : m # n
    BY <1>1 DEF Doubled
  <2>2. LiveOf(t, u) \subseteq LiveOf(Push(t, d), u)
    BY PushLive
  <2> QED BY <2>1, <2>2 DEF Doubled
<1>2. ASSUME FindByUri(t, d.uri) # 0, \A i \in 1..Len(t.docs) : t.docs[i].n # d.n
      PROVE  Doubled(Push(t, d))
  <2> DEFINE x == FindByUri(t, d.uri)
  <2>1. x \in Live(t) /\ t.docs[x].uri = d.uri /\ d.uri # Anon
    BY <1>2, FindByUriLive
  <2>2. d.uri \in Uri
    BY <2>1 DEF Document, Uris
  <2>3. x \in 1..Len(t.docs)
    BY <2>1, LiveIsIds
  <2> HIDE DEF x
  <2>4. t.docs[x].n \in LiveOf(t, d.uri)
    BY <2>1 DEF LiveOf
  <2>5. t.docs[x].n \in LiveOf(Push(t, d), d.uri) /\ d.n \in LiveOf(Push(t, d), d.uri)
    BY <2>4, PushLive
  <2>6. t.docs[x].n # d.n
    BY <1>2, <2>3
  <2> QED BY <2>2, <2>5, <2>6 DEF Doubled
<1> QED BY <1>1, <1>2

\* The second half of an upsert: what is left to replace decides.
LEMMA HalfDone ==
    ASSUME NEW t \in GoodTable, NEW items \in Seq(Document), items # <<>>,
           FindByUri(Kill(t, FindByUri(t, items[1].uri)), items[1].uri) = 0,
           NEW i \in 1..Len(items)
    PROVE  DoneFirst(Kill(t, FindByUri(t, items[1].uri)), "index_add", items, i)
             = DoneFirst(t, "index_add", items, i)
<1> DEFINE d == items[1]
           k == Kill(t, FindByUri(t, d.uri))
           rest == Tail(items)
<1>1. k \in GoodTable
  BY KillIsGood
<1>2. Done(k, "index_add", d) = Push(k, d) /\ Done(t, "index_add", d) = Push(k, d)
  BY <1>1, UpsertAdds DEF Done, Upsert
<1>3. PICK m \in Nat : i = m + 1
  <2>1. i - 1 \in Nat /\ i = (i - 1) + 1
    OBVIOUS
  <2> QED BY <2>1
<1>4. \A j \in 1..m : rest[j] = items[j + 1]
  BY <1>3
<1> HIDE DEF k, rest
<1>5. \A a : DoneFirst(a, "index_add", items, m + 1)
               = DoneFirst(Done(a, "index_add", d), "index_add", rest, m)
  BY <1>4, DoneRest
<1>6. Done(k, "index_add", d) = Done(t, "index_add", d)
  BY <1>2
<1>7. DoneFirst(k, "index_add", items, i) = DoneFirst(t, "index_add", items, i)
  BY <1>2, <1>3, <1>5, <1>6
<1> QED BY <1>7 DEF k

\* The request goes on with its other items.
LEMMA RestIsTail ==
    ASSUME NEW S, NEW s \in Seq(S), s # <<>>
    PROVE  /\ Tail(s) \in Seq(S) /\ Len(s) \in Nat /\ Len(Tail(s)) \in Nat
           /\ Len(Tail(s)) = Len(s) - 1
           /\ \A i \in 1..Len(Tail(s)) : Tail(s)[i] = s[i + 1]
           /\ Len(s) = 1 => Tail(s) = <<>>
<1>1. /\ Tail(s) \in Seq(S) /\ Len(Tail(s)) = Len(s) - 1
      /\ \A i \in 1..Len(Tail(s)) : Tail(s)[i] = s[i + 1]
  BY HeadTailProperties
<1>2. Len(s) \in Nat /\ Len(Tail(s)) \in Nat
  BY <1>1
<1>3. ASSUME Len(s) = 1 PROVE Tail(s) = <<>>
  <2>1. Len(Tail(s)) = 0 /\ Tail(s) \in Seq(S)
    BY <1>1, <1>3
  <2>2. \A t \in Seq(S) : t # <<>> => Len(t) \in Nat \ {0}
    BY EmptySeq
  <2> QED BY <2>1, <2>2
<1> QED BY <1>1, <1>2, <1>3

\* What every applied mutation keeps.
LEMMA ApplyShared ==
    ASSUME Core, WP!IInv', Apply
    PROVE  /\ mem' \in GoodTable /\ Snapshot' \in GoodTable
           /\ mem' = Changed
           /\ \A i \in 1..Len(file') : file'[i].rec.n < next'
           /\ \A i \in 1..Len(stable') : stable'[i].rec.n < next'
           /\ \A i \in 1..Len(mem'.docs) : mem'.docs[i].n < next'
           /\ \A i \in 1..Len(snap'.docs) : snap'.docs[i].n < next'
           /\ settled' \in Nat /\ settled' <= Len(file')
           /\ UNCHANGED <<logged, up, snap, next, ghost, open>>
<1>1. /\ up /\ Mutating /\ mem' = Changed
      /\ settled' = Len(file') /\ ghost' = ghost
      /\ UNCHANGED <<logged, up, snap, next>>
  BY DEF Apply, logUnchanged
<1>2. /\ file' = file /\ open' = open /\ stable' \in {file, stable} /\ settled' \in Nat
  BY ApplyDisk DEF Core, Typed
<1>3. /\ mem' \in GoodTable
      /\ \A i \in 1..Len(mem'.docs) : mem'.docs[i].n < next
  BY <1>1, ChangedTyped
<1>4. /\ \A i \in 1..Len(file') : file'[i].rec.n < next'
      /\ \A i \in 1..Len(stable') : stable'[i].rec.n < next'
      /\ \A i \in 1..Len(snap'.docs) : snap'.docs[i].n < next'
  BY <1>1, <1>2 DEF Core, Fresh
<1>5. Snapshot' \in GoodTable
  BY <1>1 DEF Core, Typed, Snapshot
<1>6. settled' <= Len(file')
  BY <1>1, <1>2
<1> QED BY <1>1, <1>2, <1>3, <1>4, <1>5, <1>6

LEMMA Numbered ==
    /\ \A s \in Seq(Document) : \A i \in 1..Len(s) : s[i] \in Document /\ s[i].n \in Nat
    /\ \A f \in Log : \A i \in 1..Len(f) : f[i].rec.n \in Nat
<1>1. Write \subseteq Nat /\ \A d \in Document : d.n \in Write
  BY DEF Write, Document
<1>2. \A s \in Seq(Document) : \A i \in 1..Len(s) : s[i] \in Document
  OBVIOUS
<1>3. \A f \in Log : \A i \in 1..Len(f) : f[i].rec.n \in Write
  BY FrameFields, RecordFields
<1> QED BY <1>1, <1>2, <1>3

\* The remove record of an upsert is applied.
LEMMA ApplyDropCore == Core /\ WP!IInv' /\ Apply /\ pc = "drop" => Core'
<1> SUFFICES ASSUME Core, WP!IInv', Apply, pc = "drop" PROVE Core'
  OBVIOUS
<1> DEFINE d == todo[1]
           x == FindByUri(mem, d.uri)
<1>1. /\ mem' = Kill(mem, x) /\ pc' = "insert"
      /\ UNCHANGED <<kind, todo, hit, promise>>
      /\ up /\ up' = up /\ logged' = logged
  BY DEF Apply, Changed, Advance, logUnchanged
<1>2. /\ mem' \in GoodTable /\ Snapshot' \in GoodTable
      /\ \A i \in 1..Len(file') : file'[i].rec.n < next'
      /\ \A i \in 1..Len(stable') : stable'[i].rec.n < next'
      /\ \A i \in 1..Len(mem'.docs) : mem'.docs[i].n < next'
      /\ \A i \in 1..Len(snap'.docs) : snap'.docs[i].n < next'
      /\ settled' \in Nat /\ settled' <= Len(file')
      /\ UNCHANGED <<logged, up, snap, next, ghost, open>>
  BY ApplyShared
<1>3. /\ KnownExact' /\ KnownKept' /\ Synced' /\ OldLog'
      /\ file' = file /\ phase' = "idle" /\ InCall'
      /\ settled' = Len(file)
      /\ logged => /\ stable' = file /\ phase = "sync" /\ W!Extends(file', stable')
                   /\ Len(file) = settled + group
  BY ApplyDisk
<1>4. /\ mem \in GoodTable /\ x # 0 /\ todo \in Seq(Document) /\ todo # <<>>
      /\ kind = "index_add" /\ Len(todo) \in Nat /\ Len(file) \in Nat
      /\ settled \in Nat /\ logged \in BOOLEAN
  BY LogTypes DEF Core, Typed, InRequest
<1>5. d \in Document /\ 1 \in 1..Len(todo)
  BY <1>4
<1>6. mem'.docs = mem.docs
  BY <1>1, <1>4, KillIsGood
<1>7. ASSUME logged
      PROVE  /\ group = 1 /\ Len(file) = settled + 1
             /\ file[settled + 1].whole /\ file[settled + 1].rec.op = "remove"
             /\ file[settled + 1].rec.n = d.n
  <2>1. Records = <<RemoveRecord(x, d.n)>>
    BY DEF Records
  <2>2. Calling /\ queue = <<>>
    BY <1>3, <1>7, LogTypes DEF Core, Calling
  <2>3. group = 1 /\ Len(queue) = 0
    BY <2>1, <2>2 DEF Core, InCall
  <2>4. file[settled + 1] = W!Whole(Records[1])
    BY <2>2, <2>3 DEF Core, InCall
  <2> QED BY <1>3, <1>7, <2>1, <2>3, <2>4 DEF W!Whole, RemoveRecord
<1> HIDE DEF d, x
<1>8. Typed'
  BY <1>1, <1>2 DEF Core, Typed
<1>9. InRequest'
  BY <1>1, <1>4 DEF Core, InRequest
<1>10. Fresh'
  <2>1. \A i \in 1..Len(todo) : todo[i].n < next'
    BY <1>2 DEF Core, Fresh
  <2>2. /\ \A i \in 1..Len(mem'.docs) : mem'.docs[i].n < todo[1].n
        /\ \A i, j \in 1..Len(todo) : i < j => todo[i].n < todo[j].n
    BY <1>6 DEF Core, Fresh
  <2>3. \A i \in 1..settled' : file'[i].rec.op = "add" => file'[i].rec.n < todo[1].n
    <3>1. \A i \in 1..settled : file[i].rec.op = "add" => file[i].rec.n < todo[1].n
      BY <1>1 DEF Core, Fresh
    <3>2. CASE logged
      BY <1>3, <1>4, <1>7, <3>1, <3>2
    <3>3. CASE ~logged
      <4>1. file = <<>>
        BY <3>3 DEF Core, InCall
      <4> QED BY <1>3, <4>1
    <3> QED BY <1>4, <3>2, <3>3
  <2> QED BY <1>1, <1>2, <2>1, <2>2, <2>3 DEF Fresh
<1>11. Unlogged'
  BY <1>1, <1>2 DEF Core, Unlogged, Snapshot
<1>12. Expected'
  <2>1. \/ Doubled(mem')
        \/ FindByUri(mem', todo[1].uri) # 0
        \/ \A i \in 1..Len(todo) : Promised(promise, DoneFirst(mem', "index_add", todo, i))
    <3>1. \/ Doubled(mem)
          \/ \A i \in 0..Len(todo) : Promised(promise, DoneFirst(mem, "index_add", todo, i))
      BY DEF Core, Expected
    <3>2. CASE Doubled(mem)
      BY <1>1, <1>4, <3>2, KillDoubled DEF d, x
    <3>3. ASSUME \A i \in 0..Len(todo) : Promised(promise, DoneFirst(mem, "index_add", todo, i)),
                 FindByUri(mem', todo[1].uri) = 0
          PROVE  \A i \in 1..Len(todo) : Promised(promise, DoneFirst(mem', "index_add", todo, i))
      <4> TAKE i \in 1..Len(todo)
      <4>1. DoneFirst(mem', "index_add", todo, i) = DoneFirst(mem, "index_add", todo, i)
        BY <1>1, <1>4, <3>3, HalfDone DEF d, x
      <4>2. i \in 0..Len(todo)
        BY <1>4
      <4> QED BY <3>3, <4>1, <4>2
    <3> QED BY <3>1, <3>2, <3>3
  <2>2. logged => RemoveStable'
    <3>1. logged => settled + 1 \in 1..Len(stable')
      BY <1>3, <1>4, <1>7
    <3> QED BY <1>1, <1>3, <1>7, <3>1 DEF RemoveStable, d
  <2> QED BY <1>1, <2>1, <2>2 DEF Expected
<1> QED BY <1>3, <1>8, <1>9, <1>10, <1>11, <1>12 DEF Core

\* The add record of an upsert is applied.
LEMMA ApplyInsertCore == Core /\ WP!IInv' /\ Apply /\ pc = "insert" => Core'
<1> SUFFICES ASSUME Core, WP!IInv', Apply, pc = "insert" PROVE Core'
  OBVIOUS
<1> DEFINE d == todo[1]
           rest == Tail(todo)
<1>1. /\ mem' = Push(mem, d) /\ todo' = rest
      /\ pc' = (IF Len(todo) = 1 THEN "build" ELSE FirstStep(mem', todo[2]))
      /\ UNCHANGED <<kind, hit, promise>>
      /\ up /\ up' = up /\ logged' = logged
  BY DEF Apply, Changed, Advance, logUnchanged
<1>2. /\ mem' \in GoodTable /\ Snapshot' \in GoodTable
      /\ \A i \in 1..Len(file') : file'[i].rec.n < next'
      /\ \A i \in 1..Len(stable') : stable'[i].rec.n < next'
      /\ \A i \in 1..Len(mem'.docs) : mem'.docs[i].n < next'
      /\ \A i \in 1..Len(snap'.docs) : snap'.docs[i].n < next'
      /\ settled' \in Nat /\ settled' <= Len(file')
      /\ UNCHANGED <<logged, up, snap, next, ghost, open>>
  BY ApplyShared
<1>3. /\ KnownExact' /\ KnownKept' /\ Synced' /\ OldLog'
      /\ file' = file /\ phase' = "idle" /\ InCall'
      /\ settled' = Len(file)
      /\ logged => Len(file) = settled + group /\ phase = "sync"
  BY ApplyDisk
<1>4. /\ mem \in GoodTable /\ todo \in Seq(Document) /\ todo # <<>>
      /\ kind = "index_add" /\ Len(todo) \in Nat /\ Len(file) \in Nat
      /\ settled \in Nat /\ logged \in BOOLEAN
  BY LogTypes DEF Core, Typed, InRequest
<1>5. d \in Document /\ 1 \in 1..Len(todo)
  BY <1>4
<1>6. /\ rest \in Seq(Document) /\ Len(rest) \in Nat /\ Len(rest) = Len(todo) - 1
      /\ \A i \in 1..Len(rest) : rest[i] = todo[i + 1]
      /\ Len(todo) = 1 => rest = <<>>
  BY <1>4, RestIsTail
<1>7. /\ \A i \in 1..Len(mem.docs) : mem.docs[i].n < d.n
      /\ \A i, j \in 1..Len(todo) : i < j => todo[i].n < todo[j].n
      /\ \A i \in 1..settled : file[i].rec.op = "add" => file[i].rec.n < d.n
      /\ \A i \in 1..Len(todo) : todo[i].n < next
  BY <1>1 DEF Core, Fresh
<1>8. ASSUME logged
      PROVE  Len(file) = settled + 1 /\ file[settled + 1].rec.n = d.n
  <2>1. Records = <<AddRecord(d)>>
    BY DEF Records
  <2>2. Calling /\ queue = <<>>
    BY <1>3, <1>8, LogTypes DEF Core, Calling
  <2>3. group = 1 /\ Len(queue) = 0
    BY <2>1, <2>2 DEF Core, InCall
  <2>4. file[settled + 1] = W!Whole(Records[1])
    BY <2>2, <2>3 DEF Core, InCall
  <2> QED BY <1>3, <1>8, <2>1, <2>3, <2>4 DEF W!Whole, AddRecord
<1>9. \A i \in 1..settled' : file'[i].rec.op = "add" => file'[i].rec.n <= d.n
  <2>1. d.n \in Nat /\ \A i \in 1..Len(file) : file[i].rec.n \in Nat
    <3>1. file \in Log
      BY LogTypes DEF Core
    <3> QED BY <1>5, <3>1, FrameFields, RecordFields DEF Document, Write
  <2>2. CASE logged
    BY <1>3, <1>4, <1>7, <1>8, <2>1, <2>2
  <2>3. CASE ~logged
    <3>1. file = <<>>
      BY <2>3 DEF Core, InCall
    <3> QED BY <1>3, <3>1
  <2> QED BY <1>4, <2>2, <2>3
<1>10. mem'.docs = Append(mem.docs, d) /\ mem.docs \in Seq(Document)
  BY <1>1, <1>4, <1>5, PushIsGood DEF GoodTable
<1>11. /\ pc' \in {"drop", "insert", "build"}
       /\ pc' \in {"drop", "insert"} => rest # <<>> /\ 1 \in 1..Len(rest) /\ rest[1] = todo[2]
       /\ pc' = "build" => rest = <<>>
       /\ pc' = "drop" => FindByUri(mem', rest[1].uri) # 0
  <2>1. CASE Len(todo) = 1
    BY <1>1, <1>6, <2>1
  <2>2. CASE Len(todo) # 1
    <3>1. Len(rest) >= 1 /\ 1 \in 1..Len(rest) /\ rest # <<>>
      <4> HIDE DEF rest
      <4>1. Len(todo) >= 1 /\ Len(todo) \in Nat /\ Len(todo) # 1
        BY <1>4, <1>5, <2>2
      <4>2. Len(rest) >= 1 /\ 1 \in 1..Len(rest)
        BY <1>6, <4>1
      <4> QED BY <4>2
    <3>2. rest[1] = todo[2]
      BY <1>6, <3>1
    <3> QED BY <1>1, <2>2, <3>1, <3>2 DEF FirstStep
  <2> QED BY <2>1, <2>2
<1> HIDE DEF d, rest
<1>12. Typed'
  BY <1>1, <1>2, <1>11 DEF Core, Typed
<1>13. InRequest'
  <2>1. Len(rest) \in Nat /\ Len(rest) <= MaxItems
    BY <1>4, <1>6, BoundsAssumption DEF Core, InRequest
  <2> QED BY <1>1, <1>4, <1>6, <1>11, <2>1 DEF Core, InRequest
<1>14. Fresh'
  <2>1. \A i \in 1..Len(rest) : rest[i].n < next'
    BY <1>2, <1>4, <1>6, <1>7
  <2>2. ASSUME NEW i \in 1..Len(rest), NEW j \in 1..Len(rest), i < j
        PROVE  rest[i].n < rest[j].n
    <3>1. i + 1 \in 1..Len(todo) /\ j + 1 \in 1..Len(todo) /\ i + 1 < j + 1
      BY <1>4, <1>6, <2>2
    <3>2. rest[i] = todo[i + 1] /\ rest[j] = todo[j + 1]
      BY <1>6
    <3>3. todo[i + 1].n < todo[j + 1].n
      BY <1>7, <3>1
    <3> QED BY <3>2, <3>3
  <2>3. ASSUME pc' \in {"drop", "insert"}
        PROVE  /\ \A i \in 1..Len(mem'.docs) : mem'.docs[i].n < rest[1].n
               /\ \A i \in 1..settled' : file'[i].rec.op = "add" => file'[i].rec.n < rest[1].n
    <3>1. d.n < rest[1].n /\ d.n \in Nat /\ rest[1].n \in Nat
      <4>1. 2 \in 1..Len(todo) /\ rest[1] = todo[2] /\ rest[1] \in Document
        BY <1>4, <1>6, <1>11, <2>3
      <4> QED BY <1>5, <1>7, <4>1 DEF d, Document, Write
    <3>2. \A i \in 1..Len(mem.docs) : mem.docs[i].n < rest[1].n
      <4>1. \A i \in 1..Len(mem.docs) : mem.docs[i].n \in Nat
        BY <1>10, Numbered
      <4> QED BY <1>7, <3>1, <4>1
    <3>3. \A i \in 1..Len(mem'.docs) : mem'.docs[i].n < rest[1].n
      BY <1>5, <1>10, <3>1, <3>2, AppendBelow
    <3>4. \A i \in 1..settled' : file'[i].rec.op = "add" => file'[i].rec.n < rest[1].n
      <4>1. \A i \in 1..settled' : file'[i].rec.n \in Nat
        <5>1. file \in Log /\ settled' = Len(file) /\ file' = file
          BY <1>3, LogTypes DEF Core
        <5> QED BY <5>1, Numbered
      <4> QED BY <1>9, <3>1, <4>1
    <3> QED BY <3>3, <3>4
  <2> QED BY <1>1, <1>2, <2>1, <2>2, <2>3 DEF Fresh
<1>15. Unlogged'
  BY <1>1, <1>2 DEF Core, Unlogged, Snapshot
<1>16. \/ Doubled(mem')
       \/ \A i \in 0..Len(rest) : Promised(promise, DoneFirst(mem', "index_add", rest, i))
  <2>1. CASE Doubled(mem)
    BY <1>1, <1>4, <1>5, <2>1, PushDoubled
  <2>2. CASE FindByUri(mem, d.uri) # 0
    <3>1. \A i \in 1..Len(mem.docs) : mem.docs[i].n # d.n
      <4>1. \A i \in 1..Len(mem.docs) : mem.docs[i].n \in Nat
        BY <1>10, Numbered
      <4>2. d.n \in Nat
        BY <1>5 DEF Document, Write
      <4> QED BY <1>7, <4>1, <4>2
    <3> QED BY <1>1, <1>4, <1>5, <2>2, <3>1, PushDoubled
  <2>3. ASSUME FindByUri(mem, d.uri) = 0,
               \A i \in 1..Len(todo) : Promised(promise, DoneFirst(mem, "index_add", todo, i)),
               NEW i \in 0..Len(rest)
        PROVE  Promised(promise, DoneFirst(mem', "index_add", rest, i))
    <3>1. Done(mem, "index_add", todo[1]) = mem'
      BY <1>1, <1>4, <2>3, UpsertAdds DEF Done, d
    <3>2. i \in Nat /\ i + 1 \in 1..Len(todo) /\ \A j \in 1..i : rest[j] = todo[j + 1]
      BY <1>4, <1>6, <2>3
    <3>3. DoneFirst(mem, "index_add", todo, i + 1)
            = DoneFirst(Done(mem, "index_add", todo[1]), "index_add", rest, i)
      BY <3>2, DoneRest
    <3> QED BY <2>3, <3>1, <3>2, <3>3
  <2> QED BY <2>1, <2>2, <2>3 DEF Core, Expected, d
<1>17. Expected'
  <2>1. \A i \in 1..Len(rest) : i \in 0..Len(rest)
    BY <1>6
  <2>2. 0 \in 0..Len(rest) /\ DoneFirst(mem', "index_add", rest, 0) = mem'
    BY <1>6, DoneNothing
  <2> QED BY <1>1, <1>4, <1>11, <1>16, <2>1, <2>2 DEF Expected
<1> QED BY <1>3, <1>12, <1>13, <1>14, <1>15, <1>17 DEF Core

\* add_documents() applies what it has logged in one call.
LEMMA ApplyBulkCore == Core /\ WP!IInv' /\ Apply /\ pc = "bulk" => Core'
<1> SUFFICES ASSUME Core, WP!IInv', Apply, pc = "bulk" PROVE Core'
  OBVIOUS
<1>1. /\ Reply(logged)
      /\ up /\ up' = up /\ logged' = logged /\ logged \in BOOLEAN
  BY DEF Apply, Advance, logUnchanged, Core, Typed
<1>2. /\ mem' \in GoodTable /\ Snapshot' \in GoodTable
      /\ \A i \in 1..Len(file') : file'[i].rec.n < next'
      /\ \A i \in 1..Len(stable') : stable'[i].rec.n < next'
      /\ \A i \in 1..Len(mem'.docs) : mem'.docs[i].n < next'
      /\ \A i \in 1..Len(snap'.docs) : snap'.docs[i].n < next'
      /\ settled' \in Nat /\ settled' <= Len(file')
      /\ UNCHANGED <<logged, up, snap, next, ghost, open>>
  BY ApplyShared
<1>3. /\ KnownExact' /\ KnownKept' /\ Synced' /\ OldLog' /\ InCall'
  BY ApplyDisk
<1>4. /\ pc' = "idle" /\ kind' = "none" /\ todo' = <<>> /\ hit' = FALSE
      /\ promise' \in [Uris -> SUBSET SUBSET Write]
      /\ \A u \in Uris : promise'[u] # {}
      /\ Promised(promise', mem')
      /\ ~logged => \A u \in Uris : promise[u] \subseteq promise'[u]
  BY <1>1, <1>2, ReplyEnds DEF Core
<1>5. Typed'
  <2>1. /\ logged \in BOOLEAN /\ up \in BOOLEAN /\ ghost \in BOOLEAN
        /\ open = (logged /\ up)
        /\ next \in 1..(MaxWrites + 1) /\ snap.upto \in 1..next
    BY DEF Core, Typed
  <2> QED BY <1>2, <1>4, <2>1 DEF Typed
<1>6. InRequest' /\ Fresh'
  BY <1>2, <1>4, BoundsAssumption DEF InRequest, Fresh
<1>7. Unlogged'
  BY <1>1, <1>2, <1>4, PromisedMore DEF Core, Unlogged, Snapshot
<1>8. Expected'
  BY <1>4 DEF Expected
<1> QED BY <1>3, <1>5, <1>6, <1>7, <1>8 DEF Core

\* One document is deleted.
LEMMA EraseRest ==
    ASSUME InRequest, mem \in GoodTable, pc = "erase", todo # <<>>,
           pc' = "erase", kind' = kind, todo' = Tail(todo), mem'.docs = mem.docs,
           hit' \in BOOLEAN
    PROVE  /\ InRequest'
           /\ {todo'[i].id : i \in 1..Len(todo')} \subseteq {todo[i].id : i \in 1..Len(todo)}
           /\ todo[1].id \in {todo[i].id : i \in 1..Len(todo)}
           /\ Fresh => \A i \in 1..Len(todo') : todo'[i].n < next
<1> DEFINE D == [id : 1..Len(mem.docs), n : Write]
           rest == Tail(todo)
<1>1. todo \in Seq(D) /\ kind = "index_delete"
  BY DEF InRequest
<1> HIDE DEF D
<1>2. /\ rest \in Seq(D) /\ Len(rest) \in Nat /\ Len(todo) \in Nat
      /\ Len(rest) = Len(todo) - 1
      /\ \A i \in 1..Len(rest) : rest[i] = todo[i + 1]
  BY <1>1, RestIsTail
<1> HIDE DEF rest
<1>3. \A i \in 1..Len(rest) : i + 1 \in 1..Len(todo)
  BY <1>2
<1>4. InRequest'
  <2>1. rest \in Seq([id : 1..Len(mem'.docs), n : Write])
    BY <1>2 DEF D
  <2>2. Len(rest) \in Nat /\ Len(rest) <= MaxItems
    BY <1>2, BoundsAssumption DEF InRequest
  <2> QED BY <1>1, <2>1, <2>2 DEF InRequest, rest
<1>5. \A i \in 1..Len(rest) : rest[i].id \in {todo[j].id : j \in 1..Len(todo)}
  BY <1>2, <1>3
<1>6. 1 \in 1..Len(todo)
  BY <1>1, <1>2
<1>7. ASSUME Fresh PROVE \A i \in 1..Len(rest) : rest[i].n < next
  BY <1>2, <1>3, <1>7 DEF Fresh
<1> QED BY <1>4, <1>5, <1>6, <1>7 DEF rest

LEMMA ApplyEraseCore == Core /\ WP!IInv' /\ Apply /\ pc = "erase" => Core'
<1> SUFFICES ASSUME Core, WP!IInv', Apply, pc = "erase" PROVE Core'
  OBVIOUS
<1> DEFINE x == todo[1].id
<1>1. /\ mem' = Kill(mem, x) /\ todo' = Tail(todo) /\ hit' = TRUE
      /\ pc' = "erase" /\ kind' = kind /\ promise' = promise
      /\ up /\ up' = up /\ logged' = logged /\ todo # <<>> /\ mem \in GoodTable
  BY DEF Apply, Changed, Advance, logUnchanged, Mutating, Core, Typed
<1>2. /\ mem' \in GoodTable /\ Snapshot' \in GoodTable
      /\ \A i \in 1..Len(file') : file'[i].rec.n < next'
      /\ \A i \in 1..Len(stable') : stable'[i].rec.n < next'
      /\ \A i \in 1..Len(mem'.docs) : mem'.docs[i].n < next'
      /\ \A i \in 1..Len(snap'.docs) : snap'.docs[i].n < next'
      /\ settled' \in Nat /\ settled' <= Len(file')
      /\ UNCHANGED <<logged, up, snap, next, ghost, open>>
  BY ApplyShared
<1>3. /\ KnownExact' /\ KnownKept' /\ Synced' /\ OldLog' /\ InCall'
  BY ApplyDisk
<1>4. mem'.docs = mem.docs
  BY <1>1, KillIsGood
<1>5. /\ InRequest'
      /\ {todo'[i].id : i \in 1..Len(todo')} \subseteq {todo[i].id : i \in 1..Len(todo)}
      /\ x \in {todo[i].id : i \in 1..Len(todo)}
      /\ \A i \in 1..Len(todo') : todo'[i].n < next
  <2>1. InRequest /\ Fresh
    BY DEF Core
  <2> QED BY <1>1, <1>4, <2>1, EraseRest
<1> HIDE DEF x
<1>6. Typed'
  BY <1>1, <1>2 DEF Core, Typed
<1>7. Fresh'
  BY <1>1, <1>2, <1>5 DEF Fresh
<1>8. Unlogged'
  BY <1>1, <1>2 DEF Core, Unlogged, Snapshot
<1>9. Expected'
  <2>1. ASSUME NEW ids \in SUBSET {todo'[i].id : i \in 1..Len(todo')}
        PROVE  Promised(promise, Erased(mem', ids))
    <3>1. {x} \union ids \in SUBSET {todo[i].id : i \in 1..Len(todo)}
      BY <1>5
    <3>2. Erased(mem', ids) = Erased(mem, {x} \union ids)
      BY <1>1, ErasedOneFirst
    <3> QED BY <3>1, <3>2 DEF Core, Expected
  <2> QED BY <1>1, <2>1 DEF Expected
<1> QED BY <1>3, <1>5, <1>6, <1>7, <1>8, <1>9 DEF Core

LEMMA ApplyCore == Core /\ WP!IInv' /\ Apply => Core'
<1>1. Apply => pc \in {"drop", "insert", "bulk", "erase"}
  BY DEF Apply, Mutating
<1> QED BY <1>1, ApplyDropCore, ApplyInsertCore, ApplyBulkCore, ApplyEraseCore

LEMMA LogPrefixes ==
    ASSUME NEW f \in Log
    PROVE  /\ Len(f) \in Nat /\ SubSeq(f, 1, Len(f)) = f
           /\ \A n \in 0..Len(f) : SubSeq(f, 1, n) \in Log /\ Len(SubSeq(f, 1, n)) = n
           /\ \A x \in W!Frame : \A n \in 0..Len(f) :
                  SubSeq(Append(f, x), 1, n) = SubSeq(f, 1, n)
<1>1. Len(f) \in Nat /\ SubSeq(f, 1, Len(f)) = f
  BY DEF Log
<1>2. \A n \in 0..Len(f) : SubSeq(f, 1, n) \in Log /\ Len(SubSeq(f, 1, n)) = n
  BY DEF Log
<1>3. ASSUME NEW x \in W!Frame, NEW n \in 0..Len(f)
      PROVE  SubSeq(Append(f, x), 1, n) = SubSeq(f, 1, n)
  BY DEF Log
<1> QED BY <1>1, <1>2, <1>3

-----------------------------------------------------------------------------
(* The append fails.  What it wrote stays in the log: whole frames make a  *)
(* ghost, a fragment alone changes nothing.                                *)

\* The log as an append that fails leaves it, its last write() cut or not.
Fragment == file' = file \/ (queue # <<>> /\ file' = Append(file, W!Torn(Head(queue))))

LEMMA FailedDisk ==
    ASSUME Core, up, logged, Calling,
           Fragment,
           UNCHANGED <<stable, snap, mem, logged, up>>,
           settled' = Len(file'), ~ghost' => ~ghost /\ Len(queue) = group,
           \A u \in Uris : promise[u] \subseteq promise'[u]
    PROVE  /\ KnownExact' /\ KnownKept' /\ OldLog' /\ Unlogged'
           /\ hit' = hit /\ pc' \in {"idle", "insert", "erase"} => Synced'
<1>1. /\ file \in Log /\ stable \in Log /\ queue \in Seq(Record)
      /\ Len(file) \in Nat /\ settled \in Nat /\ settled <= Len(file)
      /\ Len(queue) \in Nat /\ group \in Nat /\ Len(queue) <= group
      /\ Len(file) = settled + (group - Len(queue))
      /\ ghost \in BOOLEAN
  BY LogTypes DEF Core, Typed, InCall
<1>m. Len(file) \in Nat /\ settled \in Nat
  BY <1>1
<1>2. /\ Kept(file, stable) \in 0..Len(file)
      /\ settled = Len(file) => settled \in Kept(file, stable)..settled
  <2>1. Kept(file, stable) \in 0..Len(file)
    BY <1>1, KeptNumber
  <2> QED BY <1>m, <2>1
<1>p. /\ SubSeq(file, 1, Len(file)) = file
      /\ \A n \in 0..Len(file) : SubSeq(file, 1, n) \in Log
  BY <1>1, LogPrefixes
<1>g. ~ghost' => ~ghost /\ settled = Len(file)
  BY <1>1
<1>3. CASE file' = file
  <2>1. ~ghost' => ~ghost /\ settled' = settled
    BY <1>3, <1>g
  <2>2. Kept(file', stable') = Kept(file, stable)
    BY <1>3
  <2>3. KnownExact'
    BY <1>3, <2>1 DEF Core, KnownExact
  <2>4. KnownKept'
    BY <1>3, <2>1, <2>2, PromisedMore DEF Core, KnownKept
  <2>5. OldLog' /\ Unlogged'
    BY <1>3, PromisedMore DEF Core, OldLog, Unlogged, Snapshot
  <2>6. ASSUME hit' = hit, pc' \in {"idle", "insert", "erase"} PROVE Synced'
    BY <1>3, <2>1, <2>2, <2>6 DEF Core, Synced
  <2> QED BY <2>3, <2>4, <2>5, <2>6
<1>4. ASSUME queue # <<>>, file' = Append(file, W!Torn(Head(queue)))
      PROVE  /\ KnownExact' /\ KnownKept' /\ OldLog' /\ Unlogged'
             /\ hit' = hit /\ pc' \in {"idle", "insert", "erase"} => Synced'
  <2> DEFINE r == Head(queue)
  <2>1. r \in Record
    BY <1>1, <1>4
  <2>2. W!Torn(r) \in W!Frame
    BY <2>1 DEF W!Torn, W!Frame
  <2> HIDE DEF r
  <2>n. Len(file') = Len(file) + 1 /\ settled' = Len(file) + 1
    <3>1. file' = Append(file, W!Torn(r))
      BY <1>4 DEF r
    <3> QED BY <1>1, <2>2, <3>1, AppendToLog
  <2>3. /\ file' \in Log
        /\ SubSeq(file', 1, Len(file')) = file'
        /\ \A n \in 0..Len(file) : SubSeq(file', 1, n) = SubSeq(file, 1, n)
    <3>1. file' = Append(file, W!Torn(r))
      BY <1>4 DEF r
    <3>2. Len(file') = Len(file) + 1 /\ file' \in Log
      BY <1>1, <2>2, <3>1, AppendToLog
    <3> QED BY <1>1, <2>2, <3>1, <3>2, LogPrefixes
  <2>4. Sound(snap, file') => Sound(snap, file) /\ Replay(snap, file') = Replay(snap, file)
    <3>1. file' = Append(file, W!Torn(r))
      BY <1>4 DEF r
    <3> QED BY <1>1, <2>1, <2>2, <3>1, SoundAppend, ReplayTorn
  <2>5. /\ Kept(file', stable) \in Nat /\ Kept(file, stable) <= Kept(file', stable)
        /\ W!Extends(file, stable) => W!Extends(file', stable)
    BY <1>1, <1>4, <2>2, KeptGrows DEF r
  <2>6. ~ghost' => ~ghost /\ settled = Len(file) /\ settled' = Len(file) + 1
    BY <1>g, <2>n
  <2>7. ASSUME ~ghost', NEW n \in Kept(file', stable)..settled'
        PROVE  \E m \in Kept(file, stable)..settled :
                  Sound(snap, SubSeq(file', 1, n)) =>
                     /\ Sound(snap, SubSeq(file, 1, m))
                     /\ Replay(snap, SubSeq(file', 1, n)) = Replay(snap, SubSeq(file, 1, m))
    <3>1. CASE n <= Len(file)
      <4>1. n \in Kept(file, stable)..settled /\ n \in 0..Len(file)
        BY <1>2, <2>5, <2>6, <2>7, <3>1
      <4> QED BY <2>3, <4>1
    <3>2. CASE ~(n <= Len(file))
      <4>1. settled = Len(file) /\ settled' = Len(file) + 1
        BY <2>6, <2>7
      <4>2. n \in Nat /\ n <= settled'
        BY <1>1, <2>5, <2>7, <4>1
      <4>3. n = Len(file')
        BY <1>m, <2>n, <3>2, <4>2
      <4>4. settled \in Kept(file, stable)..settled
        BY <1>2, <4>1
      <4> QED BY <1>p, <2>3, <2>4, <4>1, <4>3, <4>4
    <3> QED BY <3>1, <3>2
  <2>8. KnownExact'
    <3>1. ~ghost' => settled' = Len(file') /\ settled = Len(file)
      BY <2>6
    <3> QED BY <1>p, <2>3, <2>4, <2>6, <3>1 DEF Core, KnownExact
  <2>9. KnownKept'
    <3> SUFFICES ASSUME ~ghost', NEW n \in Kept(file', stable)..settled',
                        Sound(snap, SubSeq(file', 1, n))
                 PROVE  \/ Replay(snap, SubSeq(file', 1, n)) = mem
                        \/ Promised(promise', Replay(snap, SubSeq(file', 1, n)))
      BY DEF KnownKept
    <3>1. PICK m \in Kept(file, stable)..settled :
             /\ Sound(snap, SubSeq(file, 1, m))
             /\ Replay(snap, SubSeq(file', 1, n)) = Replay(snap, SubSeq(file, 1, m))
      BY <2>7
    <3>2. \/ Replay(snap, SubSeq(file, 1, m)) = mem
          \/ Promised(promise, Replay(snap, SubSeq(file, 1, m)))
      BY <2>6, <3>1 DEF Core, KnownKept
    <3>3. \A t : Promised(promise, t) => Promised(promise', t)
      BY PromisedMore
    <3> QED BY <3>1, <3>2, <3>3
  <2>10. OldLog' /\ Unlogged'
    BY <2>5, PromisedMore DEF Core, OldLog, Unlogged, Snapshot
  <2>11. ASSUME hit' = hit, pc' \in {"idle", "insert", "erase"} PROVE Synced'
    <3> SUFFICES ASSUME ~ghost', hit, NEW n \in Kept(file', stable)..settled',
                        Sound(snap, SubSeq(file', 1, n))
                 PROVE  Replay(snap, SubSeq(file', 1, n)) = mem
      BY <2>11 DEF Synced
    <3>1. PICK m \in Kept(file, stable)..settled :
             /\ Sound(snap, SubSeq(file, 1, m))
             /\ Replay(snap, SubSeq(file', 1, n)) = Replay(snap, SubSeq(file, 1, m))
      BY <2>7
    <3> QED BY <2>6, <3>1 DEF Core, Synced
  <2> QED BY <2>8, <2>9, <2>10, <2>11
<1> QED BY <1>3, <1>4 DEF Fragment

\* The frames of a call that ends in an error are numbered like its items.
LEMMA FailedFresh ==
    ASSUME Core, Calling, up, logged,
           Fragment
    PROVE  /\ \A i \in 1..Len(file') : file'[i].rec.n < next
           /\ pc = "drop" => \A i \in 1..Len(file') :
                                file'[i].rec.op = "add" => file'[i].rec.n < todo[1].n
           /\ Len(file') \in Nat
<1>1. /\ file \in Log /\ queue \in Seq(Record) /\ Len(file) \in Nat /\ Len(queue) \in Nat
      /\ group \in Nat /\ Len(queue) <= group /\ settled \in Nat
      /\ Mutating /\ group = Len(Records)
      /\ Len(file) = settled + (group - Len(queue))
      /\ \A i \in 1..(group - Len(queue)) : file[settled + i] = W!Whole(Records[i])
      /\ \A i \in 1..Len(queue) : queue[i] = Records[(group - Len(queue)) + i]
  BY LogTypes DEF Core, Typed, InCall
<1>2. \A i \in 1..Len(file) : file[i].rec.n < next
  BY DEF Core, Fresh
<1>3. ASSUME pc = "drop"
      PROVE  /\ group = 1 /\ Records[1].op = "remove"
             /\ \A i \in 1..Len(file) : file[i].rec.op = "add" => file[i].rec.n < todo[1].n
  <2>1. group = 1 /\ Records[1].op = "remove"
    BY <1>1, <1>3 DEF Records, RemoveRecord
  <2>2. \A i \in 1..settled : file[i].rec.op = "add" => file[i].rec.n < todo[1].n
    BY <1>3 DEF Core, Fresh
  <2>3. ASSUME NEW i \in 1..Len(file), ~(i <= settled) PROVE file[i].rec.op = "remove"
    <3>1. i = settled + 1 /\ 1 \in 1..(group - Len(queue))
      BY <1>1, <2>1, <2>3
    <3>2. file[settled + 1] = W!Whole(Records[1])
      BY <1>1, <3>1
    <3> QED BY <2>1, <3>1, <3>2 DEF W!Whole
  <2> QED BY <1>1, <2>1, <2>2, <2>3
<1>4. CASE file' = file
  BY <1>1, <1>2, <1>3, <1>4
<1>5. ASSUME queue # <<>>, file' = Append(file, W!Torn(Head(queue)))
      PROVE  /\ \A i \in 1..Len(file') : file'[i].rec.n < next
             /\ pc = "drop" => \A i \in 1..Len(file') :
                                  file'[i].rec.op = "add" => file'[i].rec.n < todo[1].n
             /\ Len(file') \in Nat
  <2> DEFINE r == Head(queue)
             t == W!Torn(r)
  <2>1. r = queue[1] /\ r \in Record /\ 1 \in 1..Len(queue)
    BY <1>1, <1>5
  <2>2. t \in W!Frame /\ t.rec = r
    BY <2>1 DEF W!Torn, W!Frame
  <2>3. r = Records[(group - Len(queue)) + 1] /\ (group - Len(queue)) + 1 \in 1..Len(Records)
    BY <1>1, <2>1
  <2>4. r.n < next
    <3> HIDE DEF r
    <3> QED BY <1>1, <2>3, RecordsFresh DEF Core
  <2>5. pc = "drop" => r.op = "remove"
    <3>1. pc = "drop" => (group - Len(queue)) + 1 = 1
      <4>1. pc = "drop" => group = 1
        BY <1>3
      <4>2. Len(queue) >= 1 /\ Len(queue) \in Nat /\ Len(queue) <= group
        BY <1>1, <2>1
      <4> QED BY <4>1, <4>2
    <3> HIDE DEF r
    <3> QED BY <1>3, <2>3, <3>1
  <2> HIDE DEF r, t
  <2>6. file' = Append(file, t)
    BY <1>5 DEF t, r
  <2>7. /\ Len(file') = Len(file) + 1 /\ file'[Len(file) + 1] = t
        /\ \A i \in 1..Len(file) : file'[i] = file[i]
    BY <1>1, <2>2, <2>6, AppendToLog
  <2>8. \A i \in 1..Len(file') : i \in 1..Len(file) \/ file'[i] = t
    BY <1>1, <2>7
  <2>9. \A i \in 1..Len(file') : file'[i].rec.n < next
    BY <1>2, <2>2, <2>4, <2>7, <2>8
  <2>10. ASSUME pc = "drop", NEW i \in 1..Len(file'), file'[i].rec.op = "add"
         PROVE  file'[i].rec.n < todo[1].n
    BY <1>3, <2>2, <2>5, <2>7, <2>8, <2>10
  <2> QED BY <1>1, <2>7, <2>9, <2>10
<1> QED BY <1>4, <1>5 DEF Fragment

LEMMA ApplyFailsCore == Core /\ WP!IInv' /\ ApplyFails => Core'
<1> SUFFICES ASSUME Core, WP!IInv', ApplyFails PROVE Core'
  OBVIOUS
<1>1. /\ up /\ Mutating /\ Advance(FALSE) /\ mem' = mem
      /\ settled' = Len(file')
      /\ UNCHANGED <<logged, up, snap, next>>
  BY DEF ApplyFails, logUnchanged
<1>2. /\ phase \in {"write", "sync"} /\ phase' = "idle" /\ queue' = <<>> /\ group' = 0
      /\ stable' = stable /\ open' = open
      /\ file' = file \/ (phase = "write" /\ file' = Append(file, W!Torn(Head(queue))))
  BY DEF ApplyFails, W!SyncError, W!WriteError, W!LeftBehind, W!CallEnds
<1>3. /\ Calling /\ logged /\ Fragment
      /\ Len(queue) \in Nat /\ group \in Nat /\ Len(queue) <= group
  BY <1>1, <1>2, LogTypes DEF Core, InCall, Calling, Fragment
<1>4. ghost' \in BOOLEAN /\ (~ghost' => ~ghost /\ Len(queue) = group)
  <2> DEFINE some == Len(queue) < group
  <2>1. ghost' = (ghost \/ some)
    BY DEF ApplyFails
  <2>2. ~some => Len(queue) = group
    BY <1>3
  <2> HIDE DEF some
  <2> QED BY <2>1, <2>2
<1>5. /\ \A i \in 1..Len(file') : file'[i].rec.n < next
      /\ pc = "drop" => \A i \in 1..Len(file') :
                           file'[i].rec.op = "add" => file'[i].rec.n < todo[1].n
      /\ Len(file') \in Nat
  BY <1>1, <1>3, FailedFresh
<1>6. /\ logged \in BOOLEAN /\ mem' \in GoodTable /\ Snapshot' \in GoodTable
      /\ open' = (logged' /\ up')
      /\ next' \in 1..(MaxWrites + 1) /\ snap'.upto \in 1..next'
      /\ up' \in BOOLEAN /\ logged' \in BOOLEAN
      /\ kind \in {"none", "index_add", "add", "index_delete"}
      /\ hit \in BOOLEAN
      /\ promise \in [Uris -> SUBSET SUBSET Write] /\ \A u \in Uris : promise[u] # {}
  BY <1>1, <1>2 DEF Core, Typed, Snapshot
<1>7. /\ \A i \in 1..Len(file') : file'[i].rec.n < next'
      /\ \A i \in 1..Len(stable') : stable'[i].rec.n < next'
      /\ \A i \in 1..Len(mem'.docs) : mem'.docs[i].n < next'
      /\ \A i \in 1..Len(snap'.docs) : snap'.docs[i].n < next'
  BY <1>1, <1>2, <1>5 DEF Core, Fresh
<1>8. settled' \in Nat /\ settled' <= Len(file') /\ InCall'
  BY <1>1, <1>2, <1>3, <1>5 DEF InCall, Calling
<1>9. (\A u \in Uris : promise[u] \subseteq promise'[u]) =>
        /\ KnownExact' /\ KnownKept' /\ OldLog' /\ Unlogged'
        /\ hit' = hit /\ pc' \in {"idle", "insert", "erase"} => Synced'
  BY <1>1, <1>2, <1>3, <1>4, FailedDisk
<1>10. CASE pc = "drop"
  <2>1. pc' = "insert" /\ UNCHANGED <<kind, todo, hit, promise>>
    BY <1>1, <1>10 DEF Advance
  <2>2. Typed' /\ InRequest'
    BY <1>1, <1>4, <1>6, <1>8, <1>10, <2>1 DEF Core, Typed, InRequest
  <2>3. Fresh'
    BY <1>1, <1>5, <1>7, <1>10, <2>1 DEF Core, Fresh
  <2>4. Expected'
    <3>1. FindByUri(mem, todo[1].uri) # 0
      BY <1>10 DEF Core, InRequest
    <3>2. Doubled(mem) \/ Promised(promise, mem)
      <4>1. Len(todo) \in Nat
        BY DEF Core, InRequest
      <4>2. 0 \in 0..Len(todo)
        BY <4>1
      <4> QED BY <1>10, <4>2, DoneNothing DEF Core, Expected
    <3> QED BY <1>1, <2>1, <3>1, <3>2 DEF Expected
  <2> QED BY <1>8, <1>9, <2>1, <2>2, <2>3, <2>4 DEF Core
<1>11. CASE pc \in {"insert", "bulk"}
  <2>1. Reply(FALSE)
    BY <1>1, <1>11 DEF Advance
  <2>2. /\ pc' = "idle" /\ kind' = "none" /\ todo' = <<>> /\ hit' = FALSE
        /\ promise' \in [Uris -> SUBSET SUBSET Write]
        /\ \A u \in Uris : promise'[u] # {}
        /\ Promised(promise', mem')
        /\ \A u \in Uris : promise[u] \subseteq promise'[u]
    BY <1>6, <2>1, ReplyEnds DEF Core
  <2>3. Typed'
    BY <1>4, <1>6, <1>8, <2>2 DEF Typed
  <2>4. InRequest' /\ Fresh' /\ Synced' /\ Expected'
    BY <1>7, <2>2, BoundsAssumption DEF InRequest, Fresh, Synced, Expected
  <2> QED BY <1>8, <1>9, <2>2, <2>3, <2>4 DEF Core
<1>12. CASE pc = "erase"
  <2>1. todo' = Tail(todo) /\ pc' = "erase" /\ UNCHANGED <<kind, promise>> /\ hit' = hit
    BY <1>1, <1>6, <1>12 DEF Advance
  <2>2. todo # <<>>
    BY <1>1, <1>12 DEF Mutating
  <2>3. /\ InRequest'
        /\ {todo'[i].id : i \in 1..Len(todo')} \subseteq {todo[i].id : i \in 1..Len(todo)}
        /\ \A i \in 1..Len(todo') : todo'[i].n < next
    <3>1. InRequest /\ Fresh /\ mem \in GoodTable
      BY DEF Core, Typed
    <3> QED BY <1>1, <1>6, <1>12, <2>1, <2>2, <3>1, EraseRest
  <2>4. Typed'
    BY <1>4, <1>6, <1>8, <2>1 DEF Typed
  <2>5. Fresh'
    BY <1>1, <1>7, <2>1, <2>3 DEF Fresh
  <2>6. Expected'
    <3>1. \A ids \in SUBSET {todo[i].id : i \in 1..Len(todo)} : Promised(promise, Erased(mem, ids))
      BY <1>12 DEF Core, Expected
    <3>2. \A ids \in SUBSET {todo'[i].id : i \in 1..Len(todo')} : Promised(promise, Erased(mem, ids))
      BY <2>3, <3>1
    <3> QED BY <1>1, <2>1, <3>2 DEF Expected
  <2> QED BY <1>8, <1>9, <2>1, <2>3, <2>4, <2>5, <2>6 DEF Core
<1> QED BY <1>1, <1>10, <1>11, <1>12 DEF Mutating

-----------------------------------------------------------------------------
(* The steps of a request that leave the log and the table alone.          *)

\* An id that is unknown or deleted is passed over.
LEMMA PassOverCore == Core /\ WP!IInv' /\ PassOver => Core'
<1> SUFFICES ASSUME Core, WP!IInv', PassOver PROVE Core'
  OBVIOUS
<1>1. /\ up /\ pc = "erase" /\ todo # <<>> /\ phase = "idle"
      /\ todo' = Tail(todo) /\ pc' = "erase" /\ UNCHANGED <<kind, promise>> /\ hit' = hit
      /\ UNCHANGED <<logged, up, snap, next, mem, settled, ghost>>
      /\ UNCHANGED <<open, file, stable, phase, queue, group>>
  BY DEF PassOver, Needless, Advance, logUnchanged, walVars, Core, Typed
<1>2. /\ InRequest'
      /\ {todo'[i].id : i \in 1..Len(todo')} \subseteq {todo[i].id : i \in 1..Len(todo)}
      /\ \A i \in 1..Len(todo') : todo'[i].n < next
  <2>1. InRequest /\ Fresh /\ mem \in GoodTable /\ hit' \in BOOLEAN
    BY <1>1 DEF Core, Typed
  <2> QED BY <1>1, <2>1, EraseRest
<1>3. Typed'
  BY <1>1 DEF Core, Typed, Snapshot
<1>4. Fresh'
  BY <1>1, <1>2 DEF Core, Fresh
<1>5. InCall'
  BY <1>1 DEF Core, InCall, Calling
<1>6. KnownExact' /\ KnownKept' /\ OldLog' /\ Unlogged'
  BY <1>1, DiskKept
<1>7. Synced'
  BY <1>1 DEF Core, Synced
<1>8. Expected'
  <2>1. \A ids \in SUBSET {todo[i].id : i \in 1..Len(todo)} : Promised(promise, Erased(mem, ids))
    BY <1>1 DEF Core, Expected
  <2>2. \A ids \in SUBSET {todo'[i].id : i \in 1..Len(todo')} : Promised(promise, Erased(mem, ids))
    BY <1>2, <2>1
  <2> QED BY <1>1, <2>2 DEF Expected
<1> QED BY <1>2, <1>3, <1>4, <1>5, <1>6, <1>7, <1>8 DEF Core

\* A request that goes on to its next step, all else staying as it is.
LEMMA OnwardCore ==
    ASSUME Core, WP!IInv', up,
           pc = "erase" \/ pc = "build", pc = "erase" => hit, todo = <<>>,
           pc' = "persist", UNCHANGED <<kind, todo, hit, promise>>,
           UNCHANGED <<walVars, logged, up, snap, next, mem, settled, ghost>>
    PROVE  Core'
<1>1. UNCHANGED <<open, file, stable, phase, queue, group>>
  BY DEF walVars
<1>2. Typed' /\ InRequest' /\ Fresh'
  BY <1>1 DEF Core, Typed, InRequest, Fresh, Snapshot
<1>3. InCall'
  <2>1. ~Calling
    BY DEF Core, InCall, Mutating
  <2> QED BY <1>1, <2>1 DEF Core, InCall, Calling
<1>4. KnownExact' /\ KnownKept' /\ OldLog' /\ Unlogged'
  BY <1>1, DiskKept
<1>5. Synced'
  BY <1>1 DEF Core, Synced
<1>6. Expected'
  <2>1. CASE pc = "build"
    BY <2>1 DEF Core, Expected
  <2>2. CASE pc = "erase"
    <3>1. Len(todo) = 0 /\ mem \in GoodTable
      BY DEF Core, Typed
    <3>2. Promised(promise, Erased(mem, {}))
      BY <2>2 DEF Core, Expected
    <3>3. Promised(promise, mem)
      BY <3>1, <3>2, ErasedNone
    <3>4. \A i \in 0..Len(todo) : DoneFirst(mem, "index_add", todo, i) = mem
      BY <3>1, DoneNothing
    <3> QED BY <3>3, <3>4 DEF Expected
  <2> QED BY <2>1, <2>2
<1> QED BY <1>2, <1>3, <1>4, <1>5, <1>6 DEF Core

LEMMA IdleLog ==
    ASSUME Core, pc \in {"build", "persist"} \/ (pc = "erase" /\ todo = <<>>)
    PROVE  ~Calling /\ phase = "idle"
BY LogTypes DEF Core, InCall, Mutating, Calling

LEMMA DeleteDoneCore == Core /\ WP!IInv' /\ DeleteDone => Core'
<1> SUFFICES ASSUME Core, WP!IInv', DeleteDone PROVE Core'
  OBVIOUS
<1>1. /\ up /\ pc = "erase" /\ todo = <<>> /\ hit \in BOOLEAN
      /\ UNCHANGED <<walVars, logged, up, snap, next, mem, settled, ghost>>
      /\ UNCHANGED <<open, file, stable, phase>>
  BY DEF DeleteDone, logUnchanged, walVars, Core, Typed
<1>2. CASE hit
  BY <1>1, <1>2, OnwardCore DEF DeleteDone
<1>3. CASE ~hit
  <2>1. Reply(FALSE)
    BY <1>3 DEF DeleteDone
  <2> QED BY <1>1, <2>1, IdleLog, ReplyCore
<1> QED BY <1>2, <1>3

LEMMA BuildCore == Core /\ WP!IInv' /\ Build => Core'
<1> SUFFICES ASSUME Core, WP!IInv', Build PROVE Core'
  OBVIOUS
<1>1. /\ up /\ pc = "build" /\ todo = <<>>
      /\ UNCHANGED <<walVars, logged, up, snap, next, mem, settled, ghost>>
      /\ UNCHANGED <<open, file, stable, phase>>
      /\ (pc' = "persist" /\ UNCHANGED <<kind, todo, hit, promise>>) \/ Reply(FALSE)
  BY DEF Build, logUnchanged, walVars, Core, InRequest
<1>2. CASE pc' = "persist" /\ UNCHANGED <<kind, todo, hit, promise>>
  BY <1>1, <1>2, OnwardCore
<1>3. CASE Reply(FALSE)
  BY <1>1, <1>3, IdleLog, ReplyCore
<1> QED BY <1>1, <1>2, <1>3

LEMMA PersistNothingCore == Core /\ WP!IInv' /\ PersistNothing => Core'
<1> SUFFICES ASSUME Core, WP!IInv', PersistNothing PROVE Core'
  OBVIOUS
<1>1. /\ up /\ pc = "persist" /\ logged /\ Reply(TRUE)
      /\ UNCHANGED <<walVars, logged, up, snap, next, mem, settled, ghost>>
      /\ UNCHANGED <<open, file, stable, phase>>
  BY DEF PersistNothing, logUnchanged, walVars
<1> QED BY <1>1, IdleLog, ReplyCore

LEMMA SaveFailsCore == Core /\ WP!IInv' /\ SaveFails => Core'
<1> SUFFICES ASSUME Core, WP!IInv', SaveFails PROVE Core'
  OBVIOUS
<1>1. /\ up /\ pc = "persist" /\ Reply(FALSE)
      /\ UNCHANGED <<walVars, logged, up, snap, next, mem, settled, ghost>>
      /\ UNCHANGED <<open, file, stable, phase>>
  BY DEF SaveFails, logUnchanged, walVars
<1> QED BY <1>1, IdleLog, ReplyCore

-----------------------------------------------------------------------------
(* The checkpoint: the snapshot replaces the log.                          *)

\* A log all of whose prefixes give the table is known.
LEMMA AllKnown ==
    ASSUME file' \in Log, stable' \in Log, settled' \in 0..Len(file'),
           \A n \in 0..Len(file') : Sound(snap', SubSeq(file', 1, n)) =>
               Replay(snap', SubSeq(file', 1, n)) = mem'
    PROVE  KnownExact' /\ KnownKept' /\ Synced'
<1>1. Kept(file', stable') \in 0..Len(file') /\ Len(file') \in Nat
  BY KeptNumber DEF Log
<1>2. \A n \in Kept(file', stable')..settled' : n \in 0..Len(file')
  BY <1>1
<1>3. KnownExact'
  BY DEF KnownExact
<1>4. KnownKept' /\ Synced'
  BY <1>2 DEF KnownKept, Synced
<1> QED BY <1>3, <1>4

LEMMA EmptyKnown ==
    ASSUME file' = <<>>, stable' \in Log, settled' = 0, Snapshot' = mem'
    PROVE  KnownExact' /\ KnownKept' /\ Synced'
<1>1. file' \in Log /\ Len(file') = 0
  BY DEF Log
<1>2. \A n \in 0..Len(file') : SubSeq(file', 1, n) = <<>>
  BY <1>1
<1>3. Replay(snap', <<>>) = mem'
  BY ReplayEmpty DEF Snapshot
<1>4. settled' \in 0..Len(file')
  BY <1>1
<1>5. \A n \in 0..Len(file') : Sound(snap', SubSeq(file', 1, n)) =>
               Replay(snap', SubSeq(file', 1, n)) = mem'
  BY <1>2, <1>3
<1> QED BY <1>1, <1>4, <1>5, AllKnown

\* Behind a new snapshot every frame of the log is one that it contains.
LEMMA SavedKnown ==
    ASSUME Core, snap' = [docs |-> mem.docs, dead |-> mem.dead, upto |-> next],
           UNCHANGED <<file, stable, mem, settled, up, logged>>
    PROVE  /\ Snapshot' = mem
           /\ up => KnownExact' /\ KnownKept' /\ Synced'
<1>1. /\ file \in Log /\ stable \in Log /\ Len(file) \in Nat /\ settled \in Nat
      /\ up => settled <= Len(file)
      /\ mem \in GoodTable
  BY LogTypes DEF Core, Typed
<1>2. Snapshot' = mem
  <2>1. Snapshot' = [docs |-> mem.docs, dead |-> mem.dead]
    BY DEF Snapshot
  <2> QED BY <1>1, <2>1 DEF GoodTable
<1>3. ASSUME NEW n \in 0..Len(file'), Sound(snap', SubSeq(file', 1, n))
      PROVE  Replay(snap', SubSeq(file', 1, n)) = mem'
  <2> DEFINE f == SubSeq(file, 1, n)
  <2>1. n \in 0..Len(file) /\ file' = file
    BY <1>3
  <2>2. f \in Log /\ Len(f) = n /\ \A i \in 1..n : f[i] = file[i]
    BY <1>1, <2>1 DEF Log
  <2>3. \A i \in 1..n : f[i].rec.n < next
    BY <1>1, <2>1, <2>2 DEF Core, Fresh
  <2>4. \A i \in 1..Len(f) : ~(f[i].rec.n < next)
    BY <1>3, <2>1 DEF Sound
  <2> HIDE DEF f
  <2>5. n = 0
    BY <1>1, <2>1, <2>2, <2>3, <2>4
  <2>6. f = <<>>
    BY <1>1, <2>1, <2>5 DEF f, Log
  <2>7. Replay(snap', <<>>) = mem'
    BY <1>2, ReplayEmpty DEF Snapshot
  <2> QED BY <2>1, <2>6, <2>7 DEF f
<1>4. ASSUME up PROVE KnownExact' /\ KnownKept' /\ Synced'
  <2>1. file' \in Log /\ stable' \in Log /\ settled' \in 0..Len(file')
    BY <1>1, <1>4
  <2> QED BY <1>3, <2>1, AllKnown
<1> QED BY <1>2, <1>4

LEMMA SaveCore == Core /\ WP!IInv' /\ Save => Core'
<1> SUFFICES ASSUME Core, WP!IInv', Save PROVE Core'
  OBVIOUS
<1>1. /\ up /\ pc = "persist" /\ todo = <<>> /\ logged \in BOOLEAN
      /\ snap' = [docs |-> mem.docs, dead |-> mem.dead, upto |-> next]
      /\ UNCHANGED <<logged, up, mem, next, settled, ghost>>
      /\ UNCHANGED <<open, file, stable, phase, queue, group>>
      /\ IF logged THEN pc' = "truncate" /\ UNCHANGED <<kind, todo, hit, promise>>
                   ELSE Reply(TRUE)
  BY DEF Save, walVars, Core, Typed, InRequest
<1>2. Snapshot' = mem /\ KnownExact' /\ KnownKept' /\ Synced'
  BY <1>1, SavedKnown
<1>3. ~Calling /\ phase' = "idle"
  BY <1>1, IdleLog
<1>4. /\ snap'.upto = next /\ snap'.docs = mem.docs
      /\ next \in 1..(MaxWrites + 1) /\ next \in 1..next
      /\ mem \in GoodTable /\ promise \in [Uris -> SUBSET SUBSET Write]
      /\ \A u \in Uris : promise[u] # {}
      /\ up \in BOOLEAN /\ ghost \in BOOLEAN /\ hit \in BOOLEAN
      /\ open = (logged /\ up) /\ settled \in Nat /\ (up => settled <= Len(file))
  BY <1>1 DEF Core, Typed
<1>5. OldLog'
  <2>1. \A i \in 1..Len(stable) : stable[i].rec.n < next
    BY DEF Core, Fresh
  <2> QED BY <1>1, <1>4, <2>1 DEF OldLog
<1>6. InCall'
  BY <1>1, <1>3 DEF Core, InCall, Calling
<1>7. CASE logged
  <2>1. pc' = "truncate" /\ UNCHANGED <<kind, todo, hit, promise>>
    BY <1>1, <1>7
  <2>2. Typed'
    BY <1>1, <1>2, <1>4, <2>1 DEF Core, Typed
  <2>3. InRequest'
    BY <1>1, <1>2, <1>4, <1>7, <2>1 DEF Core, InRequest
  <2>4. Fresh'
    BY <1>1, <1>4, <2>1 DEF Core, Fresh
  <2>5. Expected'
    BY <1>1, <2>1 DEF Core, Expected
  <2>6. Unlogged'
    BY <1>1, <1>7 DEF Unlogged
  <2> QED BY <1>2, <1>5, <1>6, <2>2, <2>3, <2>4, <2>5, <2>6 DEF Core
<1>8. CASE ~logged
  <2>1. Reply(TRUE) /\ mem' \in GoodTable
    BY <1>1, <1>4, <1>8
  <2>2. /\ pc' = "idle" /\ kind' = "none" /\ todo' = <<>> /\ hit' = FALSE
        /\ promise' \in [Uris -> SUBSET SUBSET Write]
        /\ \A u \in Uris : promise'[u] # {}
        /\ Promised(promise', mem')
    BY <2>1, ReplyEnds DEF Core
  <2>3. Typed'
    BY <1>1, <1>2, <1>4, <2>1, <2>2 DEF Typed
  <2>4. InRequest' /\ Expected'
    BY <2>2, BoundsAssumption DEF InRequest, Expected
  <2>5. Fresh'
    BY <1>1, <1>4, <2>2 DEF Core, Fresh
  <2>6. Unlogged'
    BY <1>1, <1>2, <2>2 DEF Unlogged
  <2> QED BY <1>2, <1>5, <1>6, <2>3, <2>4, <2>5, <2>6 DEF Core
<1> QED BY <1>1, <1>7, <1>8

LEMMA TruncateCore == Core /\ WP!IInv' /\ Truncate => Core'
<1> SUFFICES ASSUME Core, WP!IInv', Truncate PROVE Core'
  OBVIOUS
<1>1. /\ up /\ pc = "truncate" /\ file' = <<>> /\ phase' = "cut"
      /\ settled' = 0 /\ ghost' = FALSE
      /\ UNCHANGED <<open, stable, queue, group, mem, pc, kind, todo, hit, promise>>
      /\ UNCHANGED <<logged, up, snap, next>>
  BY DEF Truncate, W!StartTruncate, logUnchanged
<1>2. logged /\ snap.upto = next /\ Snapshot = mem /\ todo = <<>> /\ stable \in Log
  BY <1>1, LogTypes DEF Core, InRequest
<1>3. KnownExact' /\ KnownKept' /\ Synced'
  BY <1>1, <1>2, EmptyKnown DEF Snapshot
<1>4. Typed'
  <2>1. settled' \in Nat /\ settled' <= Len(file')
    BY <1>1
  <2>3. ghost' \in BOOLEAN /\ open' = (logged' /\ up')
    BY <1>1 DEF Core, Typed
  <2>2. Snapshot' \in GoodTable
    BY <1>1 DEF Core, Typed, Snapshot
  <2> QED BY <1>1, <2>1, <2>2, <2>3 DEF Core, Typed
<1>5. InRequest' /\ InCall' /\ Fresh'
  BY <1>1, <1>2 DEF Core, InRequest, InCall, Fresh, Calling, Snapshot
<1>6. OldLog'
  BY <1>1, <1>2 DEF Core, Fresh, OldLog
<1>7. Expected' /\ Unlogged'
  BY <1>1, <1>2 DEF Core, Expected, Unlogged
<1> QED BY <1>3, <1>4, <1>5, <1>6, <1>7 DEF Core

LEMMA TruncateDoneCore == Core /\ WP!IInv' /\ TruncateDone => Core'
<1> SUFFICES ASSUME Core, WP!IInv', TruncateDone PROVE Core'
  OBVIOUS
<1>1. /\ up /\ phase = "cut" /\ stable' = <<>> /\ phase' = "idle"
      /\ UNCHANGED <<open, file, logged, up, snap, next, mem, settled, ghost>>
      /\ Reply(TRUE)
  BY DEF TruncateDone, W!TruncateSyncOk, W!CallEnds, logUnchanged
<1>2. pc = "truncate" /\ file = <<>> /\ logged /\ settled = 0 /\ Snapshot = mem
  BY <1>1 DEF Core, InCall, InRequest, Calling
<1>3. KnownExact' /\ KnownKept' /\ Synced'
  <2>1. stable' \in Log
    BY <1>1 DEF Log
  <2> QED BY <1>1, <1>2, <2>1, EmptyKnown DEF Snapshot
<1>4. mem' \in GoodTable
  BY <1>1 DEF Core, Typed
<1>5. /\ pc' = "idle" /\ kind' = "none" /\ todo' = <<>> /\ hit' = FALSE
      /\ promise' \in [Uris -> SUBSET SUBSET Write]
      /\ \A u \in Uris : promise'[u] # {}
      /\ Promised(promise', mem')
  BY <1>1, <1>4, ReplyEnds DEF Core
<1>6. Typed'
  <2>1. /\ logged \in BOOLEAN /\ up \in BOOLEAN /\ ghost \in BOOLEAN
        /\ open = (logged /\ up) /\ Snapshot' \in GoodTable
        /\ next \in 1..(MaxWrites + 1) /\ snap.upto \in 1..next
        /\ settled \in Nat /\ (up => settled <= Len(file))
    BY <1>1 DEF Core, Typed, Snapshot
  <2> QED BY <1>1, <1>4, <1>5, <2>1 DEF Typed
<1>7. InRequest' /\ Expected'
  BY <1>5, BoundsAssumption DEF InRequest, Expected
<1>8. InCall'
  BY <1>1, <1>2 DEF InCall, Calling
<1>9. Fresh'
  BY <1>1, <1>5 DEF Core, Fresh
<1>10. OldLog' /\ Unlogged'
  BY <1>1, <1>2 DEF OldLog, Unlogged
<1> QED BY <1>3, <1>6, <1>7, <1>8, <1>9, <1>10 DEF Core

LEMMA TruncateFailsCore == Core /\ WP!IInv' /\ TruncateFails => Core'
<1> SUFFICES ASSUME Core, WP!IInv', TruncateFails PROVE Core'
  OBVIOUS
<1>1. Reply(FALSE)
  BY DEF TruncateFails, Reply
<1>4. /\ up /\ pc = "truncate"
      /\ UNCHANGED <<logged, up, snap, next, mem, settled, ghost>>
  BY DEF TruncateFails, logUnchanged
<1>2. phase \in {"cut", "idle"} /\ phase' = "idle" /\ UNCHANGED <<open, file, stable>>
  BY DEF TruncateFails, W!TruncateSyncError, W!CallEnds, walVars
<1>3. ~Calling
  BY <1>2 DEF Calling
<1> QED BY <1>1, <1>2, <1>3, <1>4, ReplyCore

-----------------------------------------------------------------------------
(* Crash, power loss and restart.                                          *)

AllBelow(f, m) == \A i \in 1..Len(f) : f[i].rec.n < m

LEMMA PrefixBelow ==
    ASSUME NEW f \in Log, NEW m, AllBelow(f, m), NEW n \in 0..Len(f)
    PROVE  SubSeq(f, 1, n) \in Log /\ AllBelow(SubSeq(f, 1, n), m)
<1> DEFINE g == SubSeq(f, 1, n)
<1>1. g \in Log /\ Len(g) = n /\ Len(f) \in Nat
  BY LogPrefixes
<1>2. \A i \in 1..n : g[i] = f[i] /\ i \in 1..Len(f)
  BY <1>1 DEF Log
<1> HIDE DEF g
<1>3. AllBelow(g, m)
  BY <1>1, <1>2 DEF AllBelow
<1> QED BY <1>1, <1>3 DEF g

LEMMA TornBelow ==
    ASSUME NEW f \in Log, NEW m, AllBelow(f, m), NEW r \in Record, r.n < m
    PROVE  Append(f, W!Torn(r)) \in Log /\ AllBelow(Append(f, W!Torn(r)), m)
<1> DEFINE g == Append(f, W!Torn(r))
<1>1. W!Torn(r) \in W!Frame /\ W!Torn(r).rec = r
  BY DEF W!Torn, W!Frame
<1>2. /\ g \in Log /\ Len(f) \in Nat /\ Len(g) = Len(f) + 1 /\ g[Len(f) + 1] = W!Torn(r)
      /\ \A i \in 1..Len(f) : g[i] = f[i]
  BY <1>1, AppendToLog
<1> HIDE DEF g
<1>3. \A i \in 1..Len(g) : i \in 1..Len(f) \/ g[i] = W!Torn(r)
  BY <1>2
<1>4. AllBelow(g, m)
  BY <1>1, <1>2, <1>3 DEF AllBelow
<1> QED BY <1>2, <1>4 DEF g

\* Every log the next start may find holds writes that were asked for.
LEMMA DiskFresh ==
    ASSUME Core, NEW f \in Disk
    PROVE  f \in Log /\ AllBelow(f, next)
<1> DEFINE from == IF W!Extends(file, stable) THEN Len(stable) ELSE 0
<1>1. /\ file \in Log /\ stable \in Log /\ Len(file) \in Nat /\ Len(stable) \in Nat
      /\ from \in Nat /\ queue \in Seq(Record) /\ Len(queue) \in Nat /\ group \in Nat
      /\ Len(queue) <= group
      /\ phase = "write" => queue # <<>>
  BY LogTypes DEF Core
<1>2. AllBelow(file, next) /\ AllBelow(stable, next)
  BY DEF Core, Fresh, AllBelow
<1>3. ASSUME NEW n \in from..Len(file), f = SubSeq(file, 1, n)
      PROVE  f \in Log /\ AllBelow(f, next)
  <2>1. n \in 0..Len(file)
    BY <1>1
  <2> QED BY <1>1, <1>2, <1>3, <2>1, PrefixBelow
<1>4. ASSUME NEW n \in (from + 1)..Len(file),
             f = Append(SubSeq(file, 1, n - 1), W!Torn(file[n].rec))
      PROVE  f \in Log /\ AllBelow(f, next)
  <2>1. n - 1 \in 0..Len(file) /\ n \in 1..Len(file)
    BY <1>1
  <2>2. file[n].rec \in Record /\ file[n].rec.n < next
    BY <1>1, <1>2, <2>1, FrameFields DEF AllBelow
  <2>3. SubSeq(file, 1, n - 1) \in Log /\ AllBelow(SubSeq(file, 1, n - 1), next)
    BY <1>1, <1>2, <2>1, PrefixBelow
  <2> QED BY <1>4, <2>2, <2>3, TornBelow
<1>5. ASSUME NEW cut \in {phase = "write"}, f = W!LeftBehind(cut)
      PROVE  f \in Log /\ AllBelow(f, next)
  <2>1. CASE cut
    <3>1. f = Append(file, W!Torn(Head(queue))) /\ phase = "write"
      BY <1>5, <2>1 DEF W!LeftBehind
    <3>2. Head(queue) \in Record /\ Head(queue) = queue[1] /\ 1 \in 1..Len(queue)
      BY <1>1, <3>1
    <3>3. /\ Mutating /\ group = Len(Records)
          /\ queue[1] = Records[(group - Len(queue)) + 1]
      BY <3>1, <3>2 DEF Core, InCall, Calling
    <3>4. (group - Len(queue)) + 1 \in 1..Len(Records)
      BY <1>1, <3>2, <3>3
    <3>5. Head(queue).n < next
      BY <3>2, <3>3, <3>4, RecordsFresh DEF Core
    <3> QED BY <1>1, <1>2, <3>1, <3>2, <3>5, TornBelow
  <2>2. CASE ~cut
    BY <1>1, <1>2, <1>5, <2>2 DEF W!LeftBehind
  <2> QED BY <2>1, <2>2
<1>6. \/ f \in {file, stable}
      \/ \E n \in from..Len(file) : f = SubSeq(file, 1, n)
      \/ \E n \in (from + 1)..Len(file) :
             f = Append(SubSeq(file, 1, n - 1), W!Torn(file[n].rec))
      \/ \E cut \in {phase = "write"} : f = W!LeftBehind(cut)
  BY DEF Disk, W!PowerLossImages
<1> QED BY <1>1, <1>2, <1>3, <1>4, <1>5, <1>6

\* A stop, whatever it leaves of the log.
LEMMA StopIInv ==
    ASSUME IInv, WP!IInv', up' = FALSE, open' = FALSE, phase' = "idle", stopped,
           logged => file' \in Disk /\ stable' \in Log,
           ~logged => UNCHANGED <<file, stable>>,
           Disk' \subseteq Disk,
           ~W!Extends(file', stable') => stable' = stable /\ ~W!Extends(file, stable),
           stable' \in {stable, file'}
    PROVE  IInv'
<1>1. UNCHANGED <<logged, mem, pc, kind, todo, hit, snap, next, settled, ghost, promise>>
  BY DEF stopped
<1>2. Core /\ DiskPromised /\ logged \in BOOLEAN /\ up' \in BOOLEAN /\ ~up'
  BY DEF IInv, Core, Typed
<1>3. AllBelow(file', next) /\ AllBelow(stable', next)
  <2>1. AllBelow(file, next) /\ AllBelow(stable, next)
    BY <1>2 DEF Core, Fresh, AllBelow
  <2>2. logged => AllBelow(file', next)
    BY <1>2, DiskFresh
  <2>3. AllBelow(file', next)
    BY <1>2, <2>1, <2>2
  <2> QED BY <2>1, <2>3
<1>4. Typed'
  <2>1. open' = (logged' /\ up')
    BY <1>1, <1>2
  <2> QED BY <1>1, <1>2, <2>1 DEF Core, Typed, Snapshot
<1>5. InRequest'
  BY <1>1, <1>2 DEF Core, InRequest, Snapshot
<1>6. InCall'
  BY <1>1, <1>2 DEF Core, InCall, Calling
<1>7. Fresh'
  BY <1>1, <1>2, <1>3 DEF Core, Fresh, AllBelow
<1>8. KnownExact' /\ KnownKept' /\ Synced'
  BY DEF KnownExact, KnownKept, Synced
<1>9. OldLog'
  BY <1>1, <1>2 DEF Core, OldLog
<1>10. Expected' /\ Unlogged'
  BY <1>1, <1>2 DEF Core, Expected, Unlogged, Snapshot
<1>11. DiskPromised'
  <2> SUFFICES ASSUME logged, NEW f \in Disk' PROVE Survives(f)'
    BY <1>1 DEF DiskPromised
  <2>1. Survives(f)
    BY <1>2 DEF DiskPromised
  <2> QED BY <1>1, <2>1 DEF Survives, HalfUpsert, NotReplaced
<1> QED BY <1>4, <1>5, <1>6, <1>7, <1>8, <1>9, <1>10, <1>11 DEF IInv, Core

\* A fragment is one of the ends that a power loss could have made.
LEMMA CrashDisk ==
    ASSUME Core, stable' = stable, phase' = "idle",
           file' = file \/ (phase = "write" /\ file' = Append(file, W!Torn(Head(queue))))
    PROVE  Disk' \subseteq Disk
<1> DEFINE from == IF W!Extends(file, stable) THEN Len(stable) ELSE 0
           r == Head(queue)
<1>1. /\ file \in Log /\ stable \in Log /\ Len(file) \in Nat /\ Len(stable) \in Nat
      /\ from \in Nat /\ queue \in Seq(Record)
      /\ phase = "write" => queue # <<>>
  BY LogTypes DEF Core
<1>2. Disk' = {file'} \union {stable}
        \union {SubSeq(file', 1, n) :
                    n \in (IF W!Extends(file', stable) THEN Len(stable) ELSE 0)..Len(file')}
        \union {Append(SubSeq(file', 1, n - 1), W!Torn(file'[n].rec)) :
                    n \in ((IF W!Extends(file', stable) THEN Len(stable) ELSE 0) + 1)..Len(file')}
        \union {file' : cut \in {FALSE}}
  <2>1. {W!LeftBehind(cut) : cut \in {phase = "write"}}' = {file' : cut \in {FALSE}}
    BY DEF W!LeftBehind
  <2> QED BY <2>1 DEF Disk, W!PowerLossImages
<1>3. Disk = {file} \union {stable} \union {SubSeq(file, 1, n) : n \in from..Len(file)}
        \union {Append(SubSeq(file, 1, n - 1), W!Torn(file[n].rec)) :
                    n \in (from + 1)..Len(file)}
        \union {W!LeftBehind(cut) : cut \in {phase = "write"}}
  BY DEF Disk, W!PowerLossImages
<1>4. CASE file' = file
  BY <1>2, <1>3, <1>4
<1>5. ASSUME phase = "write", file' = Append(file, W!Torn(r)) PROVE Disk' \subseteq Disk
  <2> DEFINE past == IF W!Extends(file', stable) THEN Len(stable) ELSE 0
  <2>1. W!Torn(r) \in W!Frame /\ W!Torn(r).rec = r
    <3>1. r \in Record
      BY <1>1, <1>5
    <3> QED BY <3>1 DEF W!Torn, W!Frame
  <2>2. from <= past /\ past \in Nat
    BY <1>1, <1>5, <2>1, KeptGrows DEF Kept
  <2>3. /\ Len(file') = Len(file) + 1 /\ file'[Len(file) + 1] = W!Torn(r)
        /\ \A i \in 1..Len(file) : file'[i] = file[i]
    BY <1>1, <1>5, <2>1, AppendToLog
  <2>4. /\ \A n \in 0..Len(file) : SubSeq(file', 1, n) = SubSeq(file, 1, n)
        /\ SubSeq(file, 1, Len(file)) = file
    BY <1>1, <1>5, <2>1, LogPrefixes
  <2>5. SubSeq(file', 1, Len(file')) = file'
    <3>1. file' \in Log
      BY <1>1, <1>5, <2>1, AppendToLog
    <3> QED BY <3>1, LogPrefixes
  <2>6. file' \in Disk
    <3>1. file' = W!LeftBehind(TRUE) /\ TRUE \in {phase = "write"}
      BY <1>5 DEF W!LeftBehind
    <3> QED BY <1>3, <3>1
  <2> HIDE DEF from, past, r
  <2>7. ASSUME NEW n \in past..Len(file') PROVE SubSeq(file', 1, n) \in Disk
    <3>1. CASE n = Len(file')
      BY <2>5, <2>6, <3>1, Zenon
    <3>2. CASE n # Len(file')
      <4>1. n \in from..Len(file) /\ n \in 0..Len(file)
        BY <1>1, <2>2, <2>3, <2>7, <3>2
      <4>2. SubSeq(file, 1, n) \in {SubSeq(file, 1, k) : k \in from..Len(file)}
        BY <4>1, Zenon
      <4>3. SubSeq(file, 1, n) \in Disk
        BY <1>3, <4>2, Zenon
      <4> QED BY <2>4, <4>1, <4>3, Zenon
    <3> QED BY <3>1, <3>2
  <2>8. ASSUME NEW n \in (past + 1)..Len(file')
        PROVE  Append(SubSeq(file', 1, n - 1), W!Torn(file'[n].rec)) \in Disk
    <3>1. CASE n = Len(file')
      <4>1. n - 1 = Len(file) /\ Len(file) \in 0..Len(file)
        BY <1>1, <2>3, <3>1
      <4>2. SubSeq(file', 1, n - 1) = file
        BY <2>4, <4>1
      <4>3. file'[n].rec = r
        BY <2>1, <2>3, <3>1
      <4> QED BY <1>5, <2>6, <4>2, <4>3
    <3>2. CASE n # Len(file')
      <4>1. n \in (from + 1)..Len(file) /\ n - 1 \in 0..Len(file) /\ n \in 1..Len(file)
        BY <1>1, <2>2, <2>3, <2>8, <3>2
      <4>2. SubSeq(file', 1, n - 1) = SubSeq(file, 1, n - 1) /\ file'[n] = file[n]
        BY <2>3, <2>4, <4>1
      <4> QED BY <1>3, <4>1, <4>2
    <3> QED BY <3>1, <3>2
  <2>9. stable \in Disk
    BY <1>3
  <2> QED BY <1>2, <2>6, <2>7, <2>8, <2>9 DEF past
<1> QED BY <1>4, <1>5

LEMMA CrashIInv == IInv /\ WP!IInv' /\ Crash => IInv'
<1> SUFFICES ASSUME IInv, WP!IInv', Crash PROVE IInv'
  OBVIOUS
<1>1. /\ Core /\ up' = FALSE /\ stopped /\ logged \in BOOLEAN
      /\ phase \in {"idle", "write", "sync", "cut"}
  BY LogTypes DEF IInv, Crash, Core, Typed
<1>2. /\ open' = FALSE /\ phase' = "idle" /\ stable' = stable
      /\ file' = file \/ (phase = "write" /\ file' = Append(file, W!Torn(Head(queue))))
      /\ ~logged => file' = file
  <2>1. CASE logged
    BY <2>1 DEF Crash, W!Crash, W!LeftBehind, W!Down, W!CallEnds
  <2>2. CASE ~logged
    <3>1. UNCHANGED <<open, file, stable, phase>>
      BY <2>2 DEF Crash, walVars
    <3>2. open = FALSE /\ phase = "idle"
      BY <1>1, <2>2 DEF Core, Typed, InCall
    <3> QED BY <3>1, <3>2
  <2> QED BY <1>1, <2>1, <2>2
<1>3. Disk' \subseteq Disk
  BY <1>1, <1>2, CrashDisk
<1>4. file' \in Disk /\ stable' \in Log
  <2>1. file' \in Disk'
    BY DEF Disk
  <2> QED BY <1>1, <1>2, <1>3, <2>1, LogTypes DEF Core
<1>5. ~W!Extends(file', stable') => stable' = stable /\ ~W!Extends(file, stable)
  <2>1. CASE file' = file
    BY <1>2, <2>1
  <2>2. CASE phase = "write" /\ file' = Append(file, W!Torn(Head(queue)))
    <3>1. file \in Log /\ stable \in Log /\ queue \in Seq(Record) /\ queue # <<>>
      BY <1>1, <2>2, LogTypes DEF Core
    <3>2. W!Torn(Head(queue)) \in W!Frame
      <4>1. Head(queue) \in Record
        BY <3>1
      <4> QED BY <4>1 DEF W!Torn, W!Frame
    <3> QED BY <1>2, <2>2, <3>1, <3>2, KeptGrows
  <2> QED BY <1>2, <2>1, <2>2
<1> QED BY <1>1, <1>2, <1>3, <1>4, <1>5, StopIInv

LEMMA PowerLossIInv == IInv /\ WP!IInv' /\ PowerLoss => IInv'
<1> SUFFICES ASSUME IInv, WP!IInv', PowerLoss PROVE IInv'
  OBVIOUS
<1>1. /\ Core /\ up' = FALSE /\ stopped /\ logged \in BOOLEAN
      /\ file' \in W!PowerLossImages /\ stable' = file'
      /\ open' = FALSE /\ phase' = "idle"
  BY DEF IInv, PowerLoss, W!PowerLoss, W!Down, W!CallEnds, Core, Typed
<1>2. file' \in Disk
  BY <1>1 DEF Disk
<1>3. file' \in Log /\ stable' \in Log
  BY <1>1, <1>2, DiskFresh
<1>4. /\ Len(file') \in Nat /\ SubSeq(file', 1, Len(file')) = file'
      /\ W!Extends(file', stable')
  BY <1>1, <1>3, LogPrefixes DEF W!Extends
<1>5. Disk' = {file'}
  <2>1. {W!LeftBehind(cut) : cut \in {phase = "write"}}' = {file' : cut \in {FALSE}}
    BY <1>1 DEF W!LeftBehind
  <2>2. {SubSeq(file', 1, n) : n \in Len(file')..Len(file')} = {file'}
    BY <1>4
  <2>3. {Append(SubSeq(file', 1, n - 1), W!Torn(file'[n].rec)) :
            n \in (Len(file') + 1)..Len(file')} = {}
    BY <1>4
  <2>4. Disk' = {file'} \union {stable'}
          \union {SubSeq(file', 1, n) : n \in Len(stable')..Len(file')}
          \union {Append(SubSeq(file', 1, n - 1), W!Torn(file'[n].rec)) :
                      n \in (Len(stable') + 1)..Len(file')}
          \union {file' : cut \in {FALSE}}
    BY <1>4, <2>1 DEF Disk, W!PowerLossImages
  <2> QED BY <1>1, <2>2, <2>3, <2>4
<1>6. ~logged => UNCHANGED <<file, stable>>
  <2> SUFFICES ASSUME ~logged PROVE UNCHANGED <<file, stable>>
    OBVIOUS
  <2>1. file = <<>> /\ stable = <<>> /\ phase = "idle"
    BY DEF IInv, Core, InCall
  <2>2. /\ file \in Log /\ stable \in Log /\ Len(file) = 0
        /\ Kept(file, stable) \in 0..Len(file)
    BY <1>1, <2>1, LogTypes, KeptNumber DEF Core
  <2>3. Kept(file, stable) = 0
    BY <2>2
  <2>4. \/ file' = stable
        \/ \E n \in Kept(file, stable)..Len(file) : file' = SubSeq(file, 1, n)
        \/ \E n \in (Kept(file, stable) + 1)..Len(file) :
               file' = Append(SubSeq(file, 1, n - 1), W!Torn(file[n].rec))
        \/ \E cut \in {phase = "write"} : file' = W!LeftBehind(cut)
    BY <1>1 DEF W!PowerLossImages, Kept
  <2>5. \A n \in Kept(file, stable)..Len(file) : SubSeq(file, 1, n) = file
    <3>1. \A n \in 0..0 : n = 0
      OBVIOUS
    <3>2. SubSeq(file, 1, 0) = file
      BY <2>2, LogPrefixes
    <3> QED BY <2>2, <2>3, <3>1, <3>2
  <2>6. (Kept(file, stable) + 1)..Len(file) = {}
    BY <2>2, <2>3
  <2>7. \A cut \in {phase = "write"} : W!LeftBehind(cut) = file
    BY <2>1 DEF W!LeftBehind
  <2> QED BY <1>1, <2>1, <2>4, <2>5, <2>6, <2>7
<1> QED BY <1>1, <1>2, <1>3, <1>4, <1>5, <1>6, StopIInv

\* What the replay adds is numbered like the log.
LEMMA ReplayIsFresh ==
    ASSUME NEW s, [docs |-> s.docs, dead |-> s.dead] \in GoodTable, NEW f \in Log, NEW m,
           \A i \in 1..Len(s.docs) : s.docs[i].n < m, AllBelow(f, m)
    PROVE  \A i \in 1..Len(Replay(s, f).docs) : Replay(s, f).docs[i].n < m
<1> DEFINE t == [docs |-> s.docs, dead |-> s.dead]
           recs == W!Replayed(f)
           Below(x) == x \in GoodTable /\ \A i \in 1..Len(x.docs) : x.docs[i].n < m
<1>1. recs \in Seq(Record) /\ Len(recs) \in Nat /\ Below(t)
      /\ \A i \in 1..Len(recs) : recs[i].n < m
  <2>1. /\ recs \in Seq(Record) /\ Len(recs) = W!Intact(f)
        /\ \A i \in 1..W!Intact(f) : recs[i] = f[i].rec
    BY ReplayedRecords
  <2>2. W!Intact(f) \in 0..Len(f) /\ Len(f) \in Nat
    BY IntactSpec, LogPrefixes
  <2>3. \A i \in 1..Len(recs) : recs[i].n < m
    BY <2>1, <2>2 DEF AllBelow
  <2> QED BY <2>1, <2>2, <2>3
<1> HIDE DEF t, recs
<1>2. PICK at :
         /\ \A i \in 0..Len(recs) :
               at[i] = IF i = 0 THEN t ELSE ReplayRecord(at[i - 1], recs[i])
         /\ ReplayFrom(t, recs) = at[Len(recs)]
  BY <1>1, ReplayFunction
<1> DEFINE S == {j \in Nat : j <= Len(recs) => Below(at[j])}
<1>3. ASSUME NEW x, Below(x), NEW r \in Record, r.n < m PROVE Below(ReplayRecord(x, r))
  <2>1. CASE r.op = "add"
    <3> DEFINE d == [uri |-> r.uri, n |-> r.n]
    <3>1. d \in Document /\ d.n < m
      BY <1>3, <2>1, RecordFields
    <3> HIDE DEF d
    <3>2. Upsert(x, d) \in GoodTable /\ Upsert(x, d).docs = Append(x.docs, d)
      BY <1>3, <3>1, UpsertIsGood
    <3>3. x.docs \in Seq(Document) /\ \A i \in 1..Len(x.docs) : x.docs[i].n < m
      BY <1>3 DEF GoodTable
    <3>4. \A i \in 1..Len(Append(x.docs, d)) : Append(x.docs, d)[i].n < m
      BY <3>1, <3>3, AppendBelow
    <3>5. ReplayRecord(x, r) = Upsert(x, d)
      BY <2>1 DEF ReplayRecord, d
    <3> QED BY <3>2, <3>4, <3>5
  <2>2. CASE r.op # "add"
    BY <1>3, <2>2, KillIsGood DEF ReplayRecord
  <2> QED BY <2>1, <2>2
<1> HIDE DEF Below
<1>4. 0 \in S
  BY <1>1, <1>2
<1>5. ASSUME NEW j \in Nat, j \in S PROVE j + 1 \in S
  <2> SUFFICES ASSUME j + 1 <= Len(recs) PROVE Below(at[j + 1])
    OBVIOUS
  <2>1. Below(at[j]) /\ recs[j + 1] \in Record /\ recs[j + 1].n < m
    BY <1>1, <1>5
  <2>2. j + 1 \in 0..Len(recs) /\ j + 1 # 0 /\ (j + 1) - 1 = j
    BY <1>1
  <2>3. at[j + 1] = ReplayRecord(at[j], recs[j + 1])
    BY <1>2, <2>2
  <2> QED BY <1>3, <2>1, <2>3
<1>6. Nat \subseteq S
  <2> HIDE DEF S
  <2> QED BY <1>4, <1>5, Induction
<1>7. Below(ReplayFrom(t, recs))
  BY <1>1, <1>2, <1>6
<1> QED BY <1>7 DEF Replay, t, recs, Below

LEMMA RestartCore == Core /\ WP!IInv' /\ Restart => Core'
<1> SUFFICES ASSUME Core, WP!IInv', Restart PROVE Core'
  OBVIOUS
<1>1. /\ ~up /\ up' = TRUE /\ settled' = Len(file) /\ ghost' = FALSE
      /\ pc' = "idle" /\ kind' = "none" /\ todo' = <<>> /\ hit' = FALSE
      /\ mem' = (IF logged THEN Recovered(file) ELSE Snapshot)
      /\ promise' = [u \in DOMAIN promise |->
             promise[u] \union {LiveOf(t, u) : t \in Served}]
      /\ UNCHANGED <<logged, snap, next>>
  BY DEF Restart
<1>2. UNCHANGED <<file, stable, phase>> /\ (logged => open' = TRUE) /\ (~logged => open' = open)
  <2>1. CASE logged
    BY <2>1 DEF Restart, W!Open
  <2>2. CASE ~logged
    BY <2>2 DEF Restart, walVars
  <2>3. logged \in BOOLEAN
    BY DEF Core, Typed
  <2> QED BY <2>1, <2>2, <2>3
<1>3. /\ file \in Log /\ stable \in Log /\ Len(file) \in Nat /\ Snapshot \in GoodTable
      /\ promise \in [Uris -> SUBSET SUBSET Write] /\ \A u \in Uris : promise[u] # {}
      /\ open = (logged /\ up) /\ logged \in BOOLEAN
      /\ next \in 1..(MaxWrites + 1) /\ snap.upto \in 1..next
  BY LogTypes DEF Core, Typed
<1>4. \A f \in Disk : Replay(snap, f) \in GoodTable
  <2> TAKE f \in Disk
  <2>1. f \in Log
    BY DiskFresh
  <2> QED BY <1>3, <2>1, ReplayIsGood DEF Snapshot
<1>5. /\ logged => Served = {Replay(snap, f) : f \in Disk}
      /\ ~logged => Served = {Snapshot}
  BY RecoveredIsReplay DEF Served, Disk
<1>6. \A t \in Served : t \in GoodTable
  BY <1>3, <1>4, <1>5
<1>7. file \in Disk
  BY DEF Disk
<1>8. mem' \in Served /\ mem' \in GoodTable /\ (logged => mem' = Replay(snap, file))
  <2>1. logged => mem' = Replay(snap, file)
    BY <1>1, RecoveredIsReplay
  <2>2. mem' \in Served
    BY <1>1, <1>3, <1>5, <1>7, <2>1
  <2> QED BY <1>6, <2>1, <2>2
<1>9. /\ promise' \in [Uris -> SUBSET SUBSET Write] /\ \A u \in Uris : promise'[u] # {}
      /\ \A t \in Served : Promised(promise', t)
  <2>1. \A u \in Uris : \A t \in Served : LiveOf(t, u) \in SUBSET Write
    BY <1>6, LiveOfWrites
  <2>2. promise' = [u \in Uris |-> promise[u] \union {LiveOf(t, u) : t \in Served}]
    BY <1>1, <1>3
  <2>3. promise' \in [Uris -> SUBSET SUBSET Write]
    BY <1>3, <2>1, <2>2
  <2>4. \A u \in Uris : promise'[u] # {}
    BY <1>3, <2>2
  <2>5. \A t \in Served : Promised(promise', t)
    BY <2>2 DEF Promised
  <2> QED BY <2>3, <2>4, <2>5
<1>10. Typed'
  <2>1. open' = (logged' /\ up') /\ Snapshot' \in GoodTable
    BY <1>1, <1>2, <1>3 DEF Snapshot
  <2>2. settled' \in Nat /\ settled' <= Len(file')
    BY <1>1, <1>2, <1>3
  <2> QED BY <1>1, <1>3, <1>8, <1>9, <2>1, <2>2 DEF Typed
<1>11. InRequest' /\ Synced'
  BY <1>1, BoundsAssumption DEF InRequest, Synced
<1>12. InCall'
  <2>1. phase = "idle"
    BY <1>1 DEF Core, InCall
  <2>2. ~logged => file = <<>> /\ stable = <<>>
    BY DEF Core, InCall
  <2> QED BY <1>1, <1>2, <2>1, <2>2 DEF InCall, Calling
<1>13. Fresh'
  <2>1. \A i \in 1..Len(mem'.docs) : mem'.docs[i].n < next
    <3>1. \A i \in 1..Len(snap.docs) : snap.docs[i].n < next
      BY DEF Core, Fresh
    <3>2. AllBelow(file, next)
      BY DEF Core, Fresh, AllBelow
    <3>3. CASE logged
      BY <1>3, <1>8, <3>1, <3>2, <3>3, ReplayIsFresh DEF Snapshot
    <3>4. CASE ~logged
      BY <1>1, <3>1, <3>4 DEF Snapshot
    <3> QED BY <1>3, <3>3, <3>4
  <2> QED BY <1>1, <1>2, <2>1 DEF Core, Fresh
<1>14. KnownExact'
  <2>1. SubSeq(file, 1, Len(file)) = file
    BY <1>3, LogPrefixes
  <2> QED BY <1>1, <1>2, <1>8, <2>1 DEF KnownExact
<1>15. KnownKept'
  <2> SUFFICES ASSUME logged, NEW n \in Kept(file, stable)..Len(file)
               PROVE  Promised(promise', Replay(snap, SubSeq(file, 1, n)))
    BY <1>1, <1>2 DEF KnownKept
  <2>1. SubSeq(file, 1, n) \in {SubSeq(file, 1, k) : k \in Kept(file, stable)..Len(file)}
    BY Zenon
  <2>2. SubSeq(file, 1, n) \in Disk
    BY <2>1 DEF Disk, W!PowerLossImages, Kept
  <2> QED BY <1>5, <1>9, <2>2
<1>16. OldLog'
  BY <1>1, <1>2 DEF Core, OldLog
<1>17. Expected'
  BY <1>1, <1>8, <1>9 DEF Expected
<1>18. Unlogged'
  BY <1>1, <1>5, <1>9 DEF Unlogged, Snapshot
<1> QED BY <1>10, <1>11, <1>12, <1>13, <1>14, <1>15, <1>16, <1>17, <1>18 DEF Core

-----------------------------------------------------------------------------
(* The invariant holds in every behaviour.                                 *)

LEMMA CoreEnough ==
    ASSUME Core', up'
    PROVE  IInv'
BY DiskOfRunningNext DEF RunningPromised, IInv

LEMMA InitIInv == Init => IInv
<1>1. Init => Core /\ up
  BY InitCore DEF Init
<1> QED BY <1>1, DiskOfRunning DEF RunningPromised, IInv

LEMMA StutterIInv == IInv /\ UNCHANGED vars => IInv'
<1> SUFFICES ASSUME IInv, UNCHANGED vars PROVE IInv'
  OBVIOUS
<1>1. /\ Core /\ DiskPromised
      /\ UNCHANGED <<open, file, stable, bytes, phase, queue, group, acked>>
      /\ UNCHANGED <<logged, up, mem, pc, kind, todo, hit, snap, next, settled, ghost, promise>>
  BY DEF IInv, vars, walVars
<1>2. WP!IInv'
  <2>1. [W!Next]_walVars
    BY DEF vars
  <2> QED BY <1>1, <2>1, WalStepHere DEF Core
<1>3. Typed' /\ InRequest' /\ Fresh'
  BY <1>1 DEF Core, Typed, InRequest, Fresh, Snapshot
<1>4. InCall'
  <2>1. Records' = Records /\ Mutating' = Mutating /\ Needless' = Needless
    BY <1>1 DEF Records, Mutating, Needless
  <2> QED BY <1>1, <2>1 DEF Core, InCall, Calling
<1>5. KnownExact' /\ KnownKept' /\ OldLog' /\ Unlogged'
  BY <1>1, DiskKept
<1>6. Synced' /\ Expected'
  BY <1>1 DEF Core, Synced, Expected, RemoveStable
<1>7. DiskPromised'
  <2>1. Disk' = Disk
    BY <1>1 DEF Disk, W!PowerLossImages, W!LeftBehind
  <2> SUFFICES ASSUME logged, NEW f \in Disk PROVE Survives(f)'
    BY <1>1, <2>1 DEF DiskPromised
  <2>2. Survives(f)
    BY <1>1 DEF DiskPromised
  <2> QED BY <1>1, <2>2 DEF Survives, HalfUpsert, NotReplaced
<1> QED BY <1>2, <1>3, <1>4, <1>5, <1>6, <1>7 DEF IInv, Core

LEMMA NextIInv == IInv /\ [Next]_vars => IInv'
<1> SUFFICES ASSUME IInv, [Next]_vars PROVE IInv'
  OBVIOUS
<1>1. Core /\ WP!IInv'
  BY StepOfWal, WalStepHere DEF IInv, Core
<1>2. ASSUME NEW n \in 1..MaxItems, NEW us \in [1..n -> Uri \union {Anon}],
             IndexAdd(us) \/ AddDocuments(us)
      PROVE  IInv'
  <2>1. up'
    BY <1>2 DEF IndexAdd, AddDocuments, Begin
  <2> QED BY <1>1, <1>2, <2>1, IndexAddCore, CoreEnough
<1>3. ASSUME NEW n \in 1..MaxItems, NEW ids \in [1..n -> 1..Len(mem.docs)], IndexDelete(ids)
      PROVE  IInv'
  <2>1. up'
    BY <1>3 DEF IndexDelete, Begin
  <2> QED BY <1>1, <1>3, <2>1, IndexDeleteCore, CoreEnough
<1>4. CASE StartLog
  <2>1. up'
    BY <1>4 DEF StartLog, logUnchanged
  <2> QED BY <1>1, <1>4, <2>1, StartLogCore, CoreEnough
<1>5. CASE WriteLog
  <2>1. up'
    BY <1>5 DEF WriteLog, logUnchanged
  <2> QED BY <1>1, <1>5, <2>1, WriteLogCore, CoreEnough
<1>6. CASE Apply
  <2>1. up'
    BY <1>6 DEF Apply, logUnchanged
  <2> QED BY <1>1, <1>6, <2>1, ApplyCore, CoreEnough
<1>7. CASE ApplyFails
  <2>1. up'
    BY <1>7 DEF ApplyFails, logUnchanged
  <2> QED BY <1>1, <1>7, <2>1, ApplyFailsCore, CoreEnough
<1>8. CASE PassOver
  <2>1. up'
    BY <1>8 DEF PassOver, logUnchanged
  <2> QED BY <1>1, <1>8, <2>1, PassOverCore, CoreEnough
<1>9. CASE DeleteDone
  <2>1. up'
    BY <1>9 DEF DeleteDone, logUnchanged
  <2> QED BY <1>1, <1>9, <2>1, DeleteDoneCore, CoreEnough
<1>10. CASE Build
  <2>1. up'
    BY <1>10 DEF Build, logUnchanged
  <2> QED BY <1>1, <1>10, <2>1, BuildCore, CoreEnough
<1>11. CASE PersistNothing
  <2>1. up'
    BY <1>11 DEF PersistNothing, logUnchanged
  <2> QED BY <1>1, <1>11, <2>1, PersistNothingCore, CoreEnough
<1>12. CASE Save
  <2>1. up'
    BY <1>12 DEF Save
  <2> QED BY <1>1, <1>12, <2>1, SaveCore, CoreEnough
<1>13. CASE SaveFails
  <2>1. up'
    BY <1>13 DEF SaveFails, logUnchanged
  <2> QED BY <1>1, <1>13, <2>1, SaveFailsCore, CoreEnough
<1>14. CASE Truncate
  <2>1. up'
    BY <1>14 DEF Truncate, logUnchanged
  <2> QED BY <1>1, <1>14, <2>1, TruncateCore, CoreEnough
<1>15. CASE TruncateDone
  <2>1. up'
    BY <1>15 DEF TruncateDone, logUnchanged
  <2> QED BY <1>1, <1>15, <2>1, TruncateDoneCore, CoreEnough
<1>16. CASE TruncateFails
  <2>1. up'
    BY <1>16 DEF TruncateFails, logUnchanged
  <2> QED BY <1>1, <1>16, <2>1, TruncateFailsCore, CoreEnough
<1>17. CASE Crash
  BY <1>1, <1>17, CrashIInv
<1>18. CASE PowerLoss
  BY <1>1, <1>18, PowerLossIInv
<1>19. CASE Restart
  <2>1. up'
    BY <1>19 DEF Restart
  <2> QED BY <1>1, <1>19, <2>1, RestartCore, CoreEnough
<1>20. CASE UNCHANGED vars
  BY <1>20, StutterIInv
<1> QED BY <1>2, <1>3, <1>4, <1>5, <1>6, <1>7, <1>8, <1>9, <1>10, <1>11, <1>12, <1>13,
           <1>14, <1>15, <1>16, <1>17, <1>18, <1>19, <1>20 DEF Next

LEMMA Invariance == Spec => []IInv
BY InitIInv, NextIInv, PTL DEF Spec

-----------------------------------------------------------------------------
(* What the invariant says of the server.                                  *)

\* The variables have their types, and the running request is where pc says
\* (index_add, index_delete, add_document, checkpoint).
THEOREM TypeCorrect == Spec => []TypeOK
<1>1. IInv => TypeOK
  <2> SUFFICES ASSUME IInv PROVE TypeOK
    OBVIOUS
  <2>1. Typed /\ InRequest /\ WP!TypeOK
    BY DEF IInv, Core, WP!IInv
  <2>2. W!TypeOK
    <3>1. WP!Frame = W!Frame
      BY DEF WP!Frame, W!Frame
    <3> QED BY <2>1, <3>1 DEF WP!TypeOK, W!TypeOK
  <2>3. \A t \in GoodTable : t \in Table /\ t.dead \subseteq 1..Len(t.docs)
    BY DEF GoodTable, Table, Document, Uris
  <2>4. mem \in GoodTable /\ Snapshot \in GoodTable
    BY <2>1 DEF Typed
  <2>5. /\ mem \in Table /\ mem.dead \subseteq 1..Len(mem.docs)
        /\ Snapshot \in Table /\ snap.dead \subseteq 1..Len(snap.docs)
    <3>1. Snapshot.docs = snap.docs /\ Snapshot.dead = snap.dead
      BY DEF Snapshot
    <3> QED BY <2>3, <2>4, <3>1
  <2>6. /\ logged \in BOOLEAN /\ up \in BOOLEAN
        /\ open = (logged /\ up)
        /\ pc \in {"idle", "drop", "insert", "bulk", "erase", "build", "persist", "truncate"}
        /\ kind \in {"none", "index_add", "add", "index_delete"}
        /\ next \in 1..(MaxWrites + 1) /\ snap.upto \in 1..next
        /\ settled \in Nat /\ (up => settled <= Len(file))
    BY <2>1 DEF Typed
  <2>7. \A u \in DOMAIN promise : promise[u] # {} /\ promise[u] \subseteq SUBSET Write
    BY <2>1 DEF Typed
  <2>8. /\ pc = "idle" <=> kind = "none"
        /\ pc \in {"drop", "insert", "bulk"} => todo # <<>>
        /\ pc \in {"build", "persist", "truncate"} => todo = <<>>
    BY <2>1 DEF InRequest
  <2> QED BY <2>2, <2>5, <2>6, <2>7, <2>8 DEF TypeOK
<1> QED BY <1>1, Invariance, PTL

\* Outside the exposed states a restart serves, for every uri, what the last
\* reply said or what a request without a success reply asked for, whatever
\* failed before and whenever the process or the machine stops.
THEOREM WritesSurvive == Spec => []AckedWritesSurvive
<1>1. IInv => AckedWritesSurvive
  <2> SUFFICES ASSUME IInv, ~Exposed PROVE Promised(promise, OnDisk)
    BY DEF AckedWritesSurvive, Promised, Uris
  <2>1. CASE logged
    <3>1. Survives(file)
      BY <2>1 DEF IInv, DiskPromised, Disk
    <3>2. Sound(snap, file) /\ ~ghost /\ ~HalfUpsert(file) /\ ~NotReplaced
      BY FaithfulIsSound DEF Exposed
    <3>3. Promised(promise, Replay(snap, file))
      BY <3>1, <3>2 DEF Survives
    <3> QED BY <2>1, <3>3, RecoveredIsReplay DEF OnDisk
  <2>2. CASE ~logged
    BY <2>2 DEF IInv, Core, Unlogged, OnDisk
  <2> QED BY <2>1, <2>2
<1> QED BY <1>1, Invariance, PTL

\* Outside the exposed states open_wal() would give the running process's own
\* table from the frames whose outcome it knows: the same documents under the
\* same ids, the same tombstones.
THEOREM ReplayExact == Spec => []ReplayIsExact
<1>1. IInv => ReplayIsExact
  <2> SUFFICES ASSUME IInv, up, logged, ~Exposed
               PROVE  Recovered(SubSeq(file, 1, settled)) = mem
    BY DEF ReplayIsExact
  <2>1. /\ file \in Log /\ settled \in 0..Len(file)
    BY LogTypes DEF IInv, Core, Typed
  <2>2. Sound(snap, file) /\ ~ghost
    BY FaithfulIsSound DEF Exposed
  <2>3. Sound(snap, SubSeq(file, 1, settled))
    BY <2>1, <2>2, SoundPrefix
  <2>4. Replay(snap, SubSeq(file, 1, settled)) = mem
    BY <2>2, <2>3 DEF IInv, Core, KnownExact
  <2> QED BY <2>4, RecoveredIsReplay
<1> QED BY <1>1, Invariance, PTL

\* A server with a log uses it only by the calls of Wal - its requests, the
\* checkpoint and the restart included - and so implements Wal: what holds of
\* every behaviour of Wal holds of the server's log.
THEOREM LogUse == logged /\ Spec => W!Spec
<1>1. logged /\ Init => W!Init
  BY DEF Init, W!Init
<1>2. IInv /\ [Next]_vars => [W!Next]_walVars
  BY StepOfWal DEF IInv, Core
<1>3. IInv /\ [Next]_vars => [W!Next]_(W!vars)
  BY <1>2 DEF walVars, W!vars
<1> QED BY <1>1, <1>3, Invariance, PTL DEF Spec, W!Spec
=============================================================================
