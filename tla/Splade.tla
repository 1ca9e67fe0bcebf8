------------------------------- MODULE Splade -------------------------------
(* The learned-sparse index (src/sparse/splade.cpp): impacts of terms in     *)
(* chunks, a graph of co-occurring terms that widens a query, and a blob     *)
(* that keeps neither the configuration nor the tokenizer.                   *)
(*                                                                           *)
(* A chunk is the set of its terms; impacts are integers with the order of   *)
(* the code's logarithms and roots, and those up to MinWeight are left out.  *)
EXTENDS Integers, Sequences, FiniteSets, FiniteSetsExt, Functions, Sums

CONSTANTS
    SpTerms,       \* the terms, numbers
    StableTerms,   \* those every tokenizer makes the same of
    DefaultDecay,  \* SpladeConfig::expansion_decay, in tenths
    MinWeight,     \* SpladeConfig::min_weight
    Expansions,    \* SpladeConfig::expansion_terms
    SpladeK        \* the k of a search

ASSUME SpladeAssumption ==
    IsFiniteSet(SpTerms) /\ DefaultDecay \in Nat /\ MinWeight \in Nat
      /\ Expansions \in Nat /\ SpladeK \in Nat

VARIABLES
    spChunks,      \* the terms of each chunk of the corpus
    spBuilt,       \* the configuration and the corpus' tokenizer: [decay, tok]
    spCfg,         \* cfg_ and tok_ of the index in memory
    spIndex,       \* [vocab, idf, expand, vecs, inverted]
    spBlob,        \* what serialize returned, or NoBlob
    spAsked, spHits,   \* the last query and its hits
    spPc           \* "start", "ready", "searched"

spladeVars == <<spChunks, spBuilt, spCfg, spIndex, spBlob, spAsked, spHits, spPc>>

NoBlob == [whole |-> FALSE]
DefaultCfg == [decay |-> DefaultDecay, tok |-> "default"]
EmptyIndex == [vocab |-> {}, idf |-> << >>, expand |-> << >>, vecs |-> << >>, inverted |-> << >>]

SpladeInit(inputs) ==
    /\ \E in \in inputs : spChunks = in.chunks /\ spBuilt = in.cfg
    /\ spCfg = DefaultCfg
    /\ spIndex = EmptyIndex /\ spBlob = NoBlob
    /\ spAsked = {} /\ spHits = {} /\ spPc = "start"

Vocab == UNION Range(spChunks)
DocFreq(t) == Cardinality({d \in DOMAIN spChunks : t \in spChunks[d]})
Together(a, b) == Cardinality({d \in DOMAIN spChunks : {a, b} \subseteq spChunks[d]})

\* A rare term weighs more; one that is in nearly every chunk may weigh too
\* little to be kept.
Idf(t) == Len(spChunks) - DocFreq(t) + 1
Heavy(idf, S) == {t \in S : 120 * idf[t] > MinWeight}

\* The pull of a term on one it occurs with, in twelfths.
Pull(a, b) == (12 * Together(a, b)) \div (DocFreq(a) * DocFreq(b) + 1)

\* The strongest Expansions neighbours of a term, ties as the sort puts them.
Expanded(t, low) ==
    LET near == {u \in Vocab \ {t} : Together(t, u) > 0}
        ahead(u) == {x \in near : \/ Pull(t, x) > Pull(t, u)
                                  \/ Pull(t, x) = Pull(t, u) /\ (IF low THEN x < u ELSE x > u)}
    IN {u \in near : Cardinality(ahead(u)) < Expansions}

\* The posting lists of the vectors, by the position of the chunk.
Transposed(vecs, vocab) ==
    [t \in vocab |-> {[at |-> d, w |-> vecs[d][t]] : d \in {d \in DOMAIN vecs : t \in DOMAIN vecs[d]}}]

\* build(): every chunk's vector is kept unexpanded.
SpladeBuild ==
    /\ spPc = "start" /\ spChunks # << >>
    /\ \E low \in BOOLEAN :
         LET idf  == [t \in Vocab |-> Idf(t)]
             vecs == [d \in DOMAIN spChunks |-> [t \in Heavy(idf, spChunks[d]) |-> 120 * idf[t]]]
         IN spIndex' = [vocab |-> Vocab, idf |-> idf, vecs |-> vecs,
                        expand |-> [t \in Vocab |-> [u \in Expanded(t, low) |-> Pull(t, u)]],
                        inverted |-> Transposed(vecs, Vocab)]
    /\ spCfg' = spBuilt
    /\ spPc' = "ready"
    /\ UNCHANGED <<spChunks, spBuilt, spBlob, spAsked, spHits>>

\* What the vocabulary knows of a query: a tokenizer other than the corpus'
\* makes other terms of what is not stable.
Known(query) == (IF spCfg.tok = spBuilt.tok THEN query ELSE query \cap StableTerms)
                \cap spIndex.vocab

\* encode(): the literal terms, and what they pull in when that is enough.
Encoded(known) ==
    LET own == Heavy(spIndex.idf, known)
        added(u) == {spCfg.decay * spIndex.idf[t] * spIndex.expand[t][u] :
                       t \in {t \in own : u \in DOMAIN spIndex.expand[t]}}
        weight(u) == Max({0} \cup {w \in added(u) : w > MinWeight}
                         \cup (IF u \in own THEN {120 * spIndex.idf[u]} ELSE {}))
    IN [u \in {v \in spIndex.vocab : weight(v) > 0} |-> weight(u)]

Impact(q, d) ==
    LET part(t) == q[t] * (CHOOSE p \in spIndex.inverted[t] : p.at = d).w
    IN SumOver({t \in DOMAIN q : \E p \in spIndex.inverted[t] : p.at = d}, part)

\* search(): the SpladeK best of the chunks with an impact.
SpladeSearch ==
    /\ spPc \in {"ready", "searched"}
    /\ \E query \in SUBSET SpTerms :
         LET q        == Encoded(Known(query))
             impact   == [d \in DOMAIN spIndex.vecs |-> Impact(q, d)]
             matching == {d \in DOMAIN spIndex.vecs : impact[d] > 0}
         IN /\ spAsked' = query
            /\ \E H \in SUBSET matching :
                 /\ Cardinality(H) = Min({SpladeK, Cardinality(matching)})
                 /\ \A d \in H, e \in matching \ H : impact[d] >= impact[e]
                 /\ spHits' = H
    /\ spPc' = "searched"
    /\ UNCHANGED <<spChunks, spBuilt, spCfg, spIndex, spBlob>>

\* serialize(): vocabulary, idf, expansions and vectors; the copy on a device
\* may be cut short.
SpladeSave ==
    /\ spPc = "ready" /\ spBlob = NoBlob
    /\ \/ spBlob' = [whole |-> TRUE, vocab |-> spIndex.vocab, idf |-> spIndex.idf,
                     expand |-> spIndex.expand, vecs |-> spIndex.vecs]
       \/ spBlob' = [whole |-> FALSE, cut |-> TRUE]
    /\ UNCHANGED <<spChunks, spBuilt, spCfg, spIndex, spAsked, spHits, spPc>>

LoadInto(inverted) ==
    /\ spPc # "start" /\ spBlob # NoBlob
    /\ IF spBlob.whole
       THEN /\ spIndex' = [vocab |-> spBlob.vocab, idf |-> spBlob.idf, expand |-> spBlob.expand,
                           vecs |-> spBlob.vecs, inverted |-> inverted]
            /\ spCfg' = DefaultCfg
       ELSE UNCHANGED <<spIndex, spCfg>>
    /\ spPc' = "ready" /\ spAsked' = {} /\ spHits' = {}
    /\ UNCHANGED <<spChunks, spBuilt, spBlob>>

\* Broken variant: the posting lists are sized but not filled.
SpladeLoadBare == LoadInto([t \in DOMAIN spBlob.idf |-> {}])

\* deserialize(): a new index with the default configuration, its posting
\* lists rebuilt from the vectors; an error leaves the caller with the old one.
SpladeLoad == LoadInto(IF spBlob.whole THEN Transposed(spBlob.vecs, DOMAIN spBlob.idf) ELSE {})

SpladeNext == SpladeBuild \/ SpladeSearch \/ SpladeSave \/ SpladeLoad

-----------------------------------------------------------------------------
Holding(S) == {d \in DOMAIN spChunks : spChunks[d] \cap S # {}}
Telling(S) == Heavy([t \in Vocab |-> Idf(t)], S \cap Vocab)

\* An index finds through any number of saves and loads, whatever
\* configuration and tokenizer were lost on the way, every chunk that holds a
\* term of weight every tokenizer makes the same, as far as k reaches; nothing
\* that neither holds a term of the query nor one that occurs with such a term;
\* and an index built with the defaults finds after a load what it found before.
SparseSurvivesReload ==
    spPc = "searched" =>
      /\ \/ Holding(Telling(spAsked \cap StableTerms)) \subseteq spHits
         \/ Cardinality(spHits) = SpladeK
      /\ spHits \subseteq Holding(spAsked \cup UNION {spChunks[d] : d \in Holding(spAsked)})
      /\ spBuilt = DefaultCfg =>
           \/ Holding(Telling(spAsked)) \subseteq spHits
           \/ Cardinality(spHits) = SpladeK
=============================================================================
