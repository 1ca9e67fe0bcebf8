-------------------------------- MODULE Cache -------------------------------
(* The least-recently-used cache (LruCache in include/rag/cache/cache.hpp)   *)
(* and the rerankers that score through one (CachingReranker in              *)
(* include/rag/rerank/reranker.hpp and rerank_cached in                      *)
(* src/rerank/reranker.cpp): a list of keys, the latest used first, and a    *)
(* map, which must drop the same entry when the cache is full.               *)
EXTENDS Integers, Sequences, FiniteSets

CONSTANTS
    Identities,    \* the rerankers that share the cache
    Passages,      \* what they score, each with the query it is scored for
    Capacity,      \* cap_, at least 1 whatever was asked for
    Score,         \* the model of an identity: <<identity, passage>> -> score
    NoScore,       \* a place not filled yet
    MaxAsked       \* bound: passages a call

Keys == Identities \X Passages

ASSUME CacheAssumption ==
    /\ Capacity \in Nat \ {0} /\ MaxAsked \in Nat
    /\ \A k \in Keys : Score[k] # NoScore

VARIABLES
    order,         \* order_
    map,           \* map_
    recent,        \* every key ever used, the latest first: what an unbounded cache's list is
    who,           \* the identity that is scoring
    asked,         \* passages
    out,           \* out
    miss,          \* miss_idx
    cPc            \* "idle", "look", "model", "fill", "answered", "failed"

cacheVars == <<order, map, recent, who, asked, out, miss, cPc>>

Ran(s) == {s[i] : i \in DOMAIN s}
Key(i) == <<who, asked[i]>>

-----------------------------------------------------------------------------
\* The list: a key put first, moved from wherever it is, or taken off the end.
PushFront(list, k) == [i \in 1 .. Len(list) + 1 |-> IF i = 1 THEN k ELSE list[i - 1]]
Place(list, k) == CHOOSE i \in DOMAIN list : list[i] = k
\* Broken variant: an entry that is used stays where it is.
StayPut(list, k) == list
MoveToFront(list, k) ==
    LET p == Place(list, k)
    IN [i \in DOMAIN list |-> IF i = 1 THEN k ELSE IF i <= p THEN list[i - 1] ELSE list[i]]
PopBack(list) == [i \in 1 .. Len(list) - 1 |-> list[i]]
Touch(list, k) == IF k \in Ran(list) THEN MoveToFront(list, k) ELSE PushFront(list, k)

\* put: a new entry drops the last of the list, from the map too.
Put(k, v) ==
    LET list == PushFront(order, k)
    IN IF k \in DOMAIN map
       THEN /\ map' = [map EXCEPT ![k] = v]
            /\ order' = MoveToFront(order, k)
       ELSE IF Cardinality(DOMAIN map) + 1 > Capacity
       THEN /\ order' = PopBack(list)
            /\ map' = [q \in (DOMAIN map \cup {k}) \ {list[Len(list)]} |-> IF q = k THEN v ELSE map[q]]
       ELSE /\ order' = list
            /\ map' = [q \in DOMAIN map \cup {k} |-> IF q = k THEN v ELSE map[q]]

-----------------------------------------------------------------------------
CacheInit ==
    /\ order = << >> /\ map = << >> /\ recent = << >>
    /\ who \in Identities /\ asked = << >> /\ out = << >> /\ miss = << >> /\ cPc = "idle"

Ask ==
    /\ cPc \in {"idle", "answered", "failed"}
    /\ \E n \in 1 .. MaxAsked : asked' \in [1 .. n -> Passages] /\ who' \in Identities
    /\ out' = << >> /\ miss' = << >> /\ cPc' = "look"
    /\ UNCHANGED <<order, map, recent>>

\* get() for the next passage: a hit is used and filled in, a miss noted.
LookUp ==
    /\ cPc = "look" /\ Len(out) < Len(asked)
    /\ LET i == Len(out) + 1
       IN IF Key(i) \in DOMAIN map
          THEN /\ out' = Append(out, map[Key(i)])
               /\ order' = MoveToFront(order, Key(i))
               /\ recent' = Touch(recent, Key(i))
               /\ UNCHANGED miss
          ELSE /\ out' = Append(out, NoScore)
               /\ miss' = Append(miss, i)
               /\ UNCHANGED <<order, recent>>
    /\ UNCHANGED <<map, who, asked, cPc>>

EndLookUp ==
    /\ cPc = "look" /\ Len(out) = Len(asked)
    /\ cPc' = IF miss = << >> THEN "answered" ELSE "model"
    /\ UNCHANGED <<order, map, recent, who, asked, out, miss>>

\* The model is asked for the misses only; it may fail, or answer another count.
AskModel ==
    /\ cPc = "model"
    /\ cPc' \in {"fill", "failed"}
    /\ UNCHANGED <<order, map, recent, who, asked, out, miss>>

\* Each answer goes to its passage's place and into the cache.
Fill ==
    /\ cPc = "fill" /\ miss # << >>
    /\ LET i == Head(miss)
       IN /\ out' = [out EXCEPT ![i] = Score[Key(i)]]
          /\ Put(Key(i), Score[Key(i)])
          /\ recent' = Touch(recent, Key(i))
    /\ miss' = Tail(miss)
    /\ UNCHANGED <<who, asked, cPc>>

EndFill ==
    /\ cPc = "fill" /\ miss = << >>
    /\ cPc' = "answered"
    /\ UNCHANGED <<order, map, recent, who, asked, out, miss>>

\* clear(): between calls.
ClearCache ==
    /\ cPc \in {"idle", "answered", "failed"}
    /\ order' = << >> /\ map' = << >> /\ recent' = << >>
    /\ cPc' = "idle" /\ UNCHANGED <<who, asked, out, miss>>

CacheNext == Ask \/ LookUp \/ EndLookUp \/ AskModel \/ Fill \/ EndFill \/ ClearCache
CacheSpec == CacheInit /\ [][CacheNext]_cacheVars

-----------------------------------------------------------------------------
\* The list and the map hold the same keys, each once, and never more than the
\* capacity; at the limit both drop the same entry (cache.hpp:42-56).
LruAgrees ==
    /\ Ran(order) = DOMAIN map
    /\ \A i, j \in DOMAIN order : i # j => order[i] # order[j]
    /\ Len(order) <= Capacity

\* What is kept is what was used last: the list is the front of the list of a
\* cache without bound, so a key misses only when at least Capacity others were
\* used since (cache.hpp:34-56).
KeepsMostRecent ==
    order = [i \in 1 .. (IF Len(recent) < Capacity THEN Len(recent) ELSE Capacity) |-> recent[i]]

\* Scores through the cache are the model's own: no passage gets another's,
\* an evicted one's or another reranker's score, and none is left out
\* (reranker.hpp:152-196).
ScoresAreTheModels ==
    /\ \A k \in DOMAIN map : map[k] = Score[k]
    /\ cPc = "answered" => /\ Len(out) = Len(asked)
                           /\ \A i \in DOMAIN asked : out[i] = Score[Key(i)]

\* The cache is the one a list without bound would explain, and scoring
\* through it is scoring with the model.
CacheFaithful == LruAgrees /\ KeepsMostRecent /\ ScoresAreTheModels
=============================================================================
