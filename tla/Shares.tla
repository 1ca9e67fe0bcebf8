-------------------------------- MODULE Shares ------------------------------
(* How a parallel region is split (include/rag/util/parallel.hpp): the range *)
(* [0, n) is cut into contiguous blocks, or dealt out in strides, and a      *)
(* splitter of the host runs the shares, concurrently and so in any order.   *)
(* parallel_blocks has the body its one caller gives it, the scan of         *)
(* Corpus::dense_search (src/index/corpus.cpp), which sizes a buffer from    *)
(* the length of its block before it scans it.                               *)
EXTENDS Integers

CONSTANTS
    ParallelMin,   \* kParallelMin
    Widths,        \* what width() may be, or the workers of a strided region
    Lengths        \* bound: the ranges that are split

ASSUME SharesAssumption ==
    ParallelMin \in Nat /\ Widths \subseteq Nat \ {0} /\ Lengths \subseteq Nat

VARIABLES
    region,        \* the call: which loop, its range and how many shares it wants
    ran,           \* the shares that have run
    touched,       \* how often each item was given to the body
    thrown         \* a body threw: the sizes of its block underflowed

sharesVars == <<region, ran, touched, thrown>>

Regions == [loop : {"for", "blocks", "strided"}, n : Lengths, width : Widths]

-----------------------------------------------------------------------------
\* block_count: nothing for nothing, one for a small range or a single lane.
BlockCount(n, width) ==
    IF n = 0 THEN 0
    ELSE IF n < ParallelMin \/ width <= 1 THEN 1
    ELSE IF width < n THEN width ELSE n

\* The shares of a strided region: as many as were asked for, at most n.
StrideCount(n, width) == IF width < n THEN width ELSE n

ShareCount(r) ==
    IF r.loop = "strided" THEN StrideCount(r.n, r.width) ELSE BlockCount(r.n, r.width)

\* Broken variant: the length of a block rounded down.
ChunkDown(n, count) == n \div count
Chunk(n, count) == (n + count - 1) \div count

\* lo and hi of block b, when every block is k long, and the items it has.
BlockLow(k, b) == b * k
BlockHigh(n, k, b) == IF b * k + k < n THEN b * k + k ELSE n
Block(n, k, b) == BlockLow(k, b) .. BlockHigh(n, k, b) - 1

\* Share b of a strided region of count shares takes b, b + count, ...
Strided(n, count, b) == {i \in 0 .. n - 1 : i >= b /\ (i - b) % count = 0}

Items(r, b) ==
    IF r.loop = "strided" THEN Strided(r.n, ShareCount(r), b)
    ELSE Block(r.n, Chunk(r.n, ShareCount(r)), b)

-----------------------------------------------------------------------------
SharesInit ==
    /\ region \in Regions
    /\ ran = {} /\ touched = [i \in 0 .. region.n - 1 |-> 0] /\ thrown = FALSE

\* hi - lo is unsigned: where lo is past hi the buffer is asked to be larger
\* than memory, and reserve throws (corpus.cpp:607-609 and 637-639).
Underflows(b) ==
    /\ region.loop = "blocks" /\ ShareCount(region) > 1
    /\ LET k == Chunk(region.n, ShareCount(region))
       IN BlockHigh(region.n, k, b) < BlockLow(k, b)

RunShare(b) ==
    /\ ~thrown /\ b \notin ran
    /\ \/ Underflows(b) /\ thrown' = TRUE /\ UNCHANGED <<ran, touched>>
       \/ /\ ~Underflows(b)
          /\ ran' = ran \cup {b}
          /\ touched' = [i \in 0 .. region.n - 1 |->
                            IF i \in Items(region, b) THEN touched[i] + 1 ELSE touched[i]]
          /\ UNCHANGED thrown
    /\ UNCHANGED region

SharesNext == \E b \in 0 .. ShareCount(region) - 1 : RunShare(b)
SharesSpec == SharesInit /\ [][SharesNext]_sharesVars

-----------------------------------------------------------------------------
\* No item is given to the body twice, and when every share has run each was
\* given once, whatever the width and the length (parallel.hpp:58-105).
EachItemOnce ==
    /\ \A i \in DOMAIN touched : touched[i] <= 1
    /\ ran = 0 .. ShareCount(region) - 1 => \A i \in DOMAIN touched : touched[i] = 1
=============================================================================
