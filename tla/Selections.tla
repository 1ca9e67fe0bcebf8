----------------------------- MODULE Selections -----------------------------
(* A sequence from a set, and a part of a sequence: sorting, cutting and     *)
(* choosing by place.                                                        *)
EXTENDS Integers, Sequences, FiniteSets, FiniteSetsExt

\* The members of S by descending score; among equals the order is the sort's.
Sorted(S, score, tie) ==
    LET ahead(c) == {d \in S : \/ score[d] > score[c]
                               \/ score[d] = score[c] /\ tie[d] <= tie[c]}
    IN [i \in 1 .. Cardinality(S) |-> CHOOSE c \in S : Cardinality(ahead(c)) = i]

\* The first k members of a list.
Truncated(hits, k) == SubSeq(hits, 1, Min({k, Len(hits)}))

\* The members of s at the places S, in their order.
Selected(s, S) ==
    [n \in 1 .. Cardinality(S) |-> s[CHOOSE i \in S : Cardinality({j \in S : j < i}) = n - 1]]
=============================================================================
