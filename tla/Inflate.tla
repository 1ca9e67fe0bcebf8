------------------------------ MODULE Inflate -------------------------------
(* The DEFLATE decoder behind every ZIP document (src/loaders/ooxml.cpp):    *)
(* canonical Huffman tables, a reader of bits, and the blocks and copies the *)
(* bits describe.                                                            *)
(*                                                                           *)
(* The alphabet is small: symbols below EndSymbol are literals, the ones     *)
(* above it lengths, as 256 divides them in the code.  A stream is a list of *)
(* blocks as a writer meant them, and its bits the writer's encoding.        *)
EXTENDS Integers, Sequences, FiniteSets, FiniteSetsExt, SequencesExt

CONSTANTS
    EndSymbol,     \* 256 in the code
    LengthBase,    \* symbol -> length, kLenBase
    DistBase,      \* symbol -> distance, kDistBase
    MaxCode,       \* the longest code, 15 in the code
    MaxInflate     \* kMaxInflate

VARIABLES
    stream,        \* what was written: blocks [type, size, lit, dist, header, tokens],
                   \* where the copy was cut, and noise read instead of it
    bits,          \* the bits still to read
    inflated,      \* out
    blockNo,       \* the block being read
    tables,        \* the block's tables, [lit, dist]
    walk,          \* decode()'s code, first, index, len; which table it reads
    pending,       \* the length whose distance comes next, 0 for none
    zPc            \* "block", "symbol", "done", "failed"

inflateVars == <<stream, bits, inflated, blockNo, tables, walk, pending, zPc>>

\* A table is a function from symbols 0 .. n to code lengths, 0 for no code.
CountOf(lengths, len) == Cardinality({s \in DOMAIN lengths : lengths[s] = len})

\* Huffman::build: refuses a table with more codes than bits can tell apart.
Built(lengths) ==
    LET left[len \in 0 .. MaxCode] ==
          IF len = 0 THEN 1 ELSE 2 * left[len - 1] - CountOf(lengths, len)
    IN \A len \in 1 .. MaxCode : left[len] >= 0

\* The symbols by code length and, in a length, by number.
SymbolAt(lengths, index) ==
    LET before(s) == Cardinality({t \in DOMAIN lengths :
                       /\ lengths[t] # 0
                       /\ lengths[t] < lengths[s] \/ (lengths[t] = lengths[s] /\ t < s)})
    IN {s \in DOMAIN lengths : lengths[s] # 0 /\ before(s) = index}

-----------------------------------------------------------------------------
\* The writer's side, from the definition of the format: the codes of a length
\* count up from twice the end of the shorter ones.
FirstCode(lengths, len) ==
    LET first[l \in 1 .. MaxCode] ==
          IF l = 1 THEN 0 ELSE 2 * (first[l - 1] + CountOf(lengths, l - 1))
    IN first[len]
CodeOf(lengths, s) ==
    LET len == lengths[s]
        c   == FirstCode(lengths, len) + Cardinality({t \in DOMAIN lengths : lengths[t] = len /\ t < s})
    IN [i \in 1 .. len |-> (c \div 2 ^ (len - i)) % 2]

TokenBits(b, t) ==
    IF t.copy = 0 THEN CodeOf(b.lit, t.symbol)
    ELSE CodeOf(b.lit, t.symbol) \o CodeOf(b.dist, t.copy - 1)
BlockBits(b) ==
    CASE b.type = "stored" -> [i \in 1 .. b.size |-> 0]
      [] b.type = "coded" /\ Built(b.lit) ->
           FlattenSeq([i \in DOMAIN b.tokens |-> TokenBits(b, b.tokens[i])])
             \o CodeOf(b.lit, EndSymbol)
      [] OTHER -> << >>
StreamBits(bs) == FlattenSeq([i \in DOMAIN bs |-> BlockBits(bs[i])])

\* What a writer meant: literals, and copies of what came a distance before;
\* good is FALSE when a copy starts before the output.
Meant(bs) ==
    LET copied(out, n, d) ==
          LET grown[k \in 0 .. n] ==
                IF k = 0 THEN out
                ELSE LET o == grown[k - 1] IN Append(o, o[Len(o) - d + 1])
          IN grown[n]
        token(m, t) ==
          IF t.copy = 0 THEN [m EXCEPT !.out = Append(@, t.symbol)]
          ELSE IF ~m.good \/ DistBase[t.copy - 1] > Len(m.out) THEN [m EXCEPT !.good = FALSE]
          ELSE [m EXCEPT !.out = copied(@, LengthBase[t.symbol], DistBase[t.copy - 1])]
        block(m, b) == IF b.type = "stored" THEN [m EXCEPT !.out = @ \o [i \in 1 .. b.size |-> 0]]
                       ELSE FoldLeft(token, m, b.tokens)
    IN FoldLeft(block, [out |-> << >>, good |-> TRUE], bs)

-----------------------------------------------------------------------------
Root(table) == [table |-> table, code |-> 0, first |-> 0, index |-> 0, len |-> 1]

InflateInit(inputs) ==
    /\ stream \in inputs
    /\ LET written == StreamBits(stream.blocks)
       IN bits = IF stream.noise # << >> THEN stream.noise
                 ELSE SubSeq(written, 1, Min({stream.cut, Len(written)}))
    /\ inflated = << >> /\ blockNo = 1
    /\ tables = [lit |-> << >>, dist |-> << >>]
    /\ walk = Root("lit") /\ pending = 0 /\ zPc = "block"

ThisBlock == stream.blocks[blockNo]
AtBlock(type) == zPc = "block" /\ blockNo \in DOMAIN stream.blocks /\ ThisBlock.type = type
Failed == zPc' = "failed" /\ UNCHANGED <<stream, bits, inflated, blockNo, tables, walk, pending>>

\* A stored block comes whole or the stream fails.
StoredBlock ==
    /\ AtBlock("stored")
    /\ IF ThisBlock.size > Len(bits) \/ Len(inflated) + ThisBlock.size > MaxInflate THEN Failed
       ELSE /\ bits' = SubSeq(bits, ThisBlock.size + 1, Len(bits))
            /\ inflated' = inflated \o SubSeq(bits, 1, ThisBlock.size)
            /\ blockNo' = blockNo + 1
            /\ UNCHANGED <<stream, tables, walk, pending, zPc>>

\* The code lengths of a dynamic block: one each, or runs of the one before or
\* of zeros; good is FALSE for a run of nothing and one past the table's end.
HeaderLengths(header, size) ==
    LET put(h, op) ==
          LET run == IF op.op = "len" THEN <<op.n>>
                     ELSE [i \in 1 .. op.n |-> IF op.op = "zeros" THEN 0 ELSE h.lens[Len(h.lens)]]
          IN IF ~h.good \/ (op.op = "again" /\ h.lens = << >>) THEN [h EXCEPT !.good = FALSE]
             ELSE IF Len(h.lens) + Len(run) > size THEN [h EXCEPT !.good = FALSE]
             ELSE [h EXCEPT !.lens = @ \o run]
    IN FoldLeft(put, [lens |-> << >>, good |-> TRUE], header)

\* The tables of a block: the fixed ones, or the two halves of a header's list.
ReadTables ==
    LET nlit == Cardinality(DOMAIN ThisBlock.lit)
        ndist == Cardinality(DOMAIN ThisBlock.dist)
        read == HeaderLengths(ThisBlock.header, nlit + ndist)
    IN IF ThisBlock.header = << >> THEN {[lit |-> ThisBlock.lit, dist |-> ThisBlock.dist]}
       ELSE IF ~read.good \/ Len(read.lens) < nlit + ndist THEN {}
       ELSE {[lit |-> [s \in 0 .. nlit - 1 |-> read.lens[s + 1]],
              dist |-> [s \in 0 .. ndist - 1 |-> read.lens[nlit + s + 1]]]}

OpenBlock ==
    /\ AtBlock("coded")
    /\ \/ /\ \E t \in ReadTables : Built(t.lit) /\ Built(t.dist) /\ tables' = t
          /\ zPc' = "symbol" /\ walk' = Root("lit") /\ pending' = 0
          /\ UNCHANGED <<stream, bits, inflated, blockNo>>
       \/ (\A t \in ReadTables : ~(Built(t.lit) /\ Built(t.dist))) /\ Failed

\* A block type that is reserved.
ReservedBlock == AtBlock("reserved") /\ Failed

StreamEnds ==
    /\ zPc = "block" /\ blockNo \notin DOMAIN stream.blocks
    /\ zPc' = "done"
    /\ UNCHANGED <<stream, bits, inflated, blockNo, tables, walk, pending>>

Table == IF walk.table = "lit" THEN tables.lit ELSE tables.dist

\* BitReader::decode, a bit at a time: the symbol when the code is one of its
\* length, else one level deeper; past the longest code it is none.
Walked(bit) ==
    LET code  == walk.code + bit
        count == CountOf(Table, walk.len)
    IN [hit  |-> IF code - walk.first < count
                 THEN SymbolAt(Table, walk.index + (code - walk.first)) ELSE {},
        deep |-> [walk EXCEPT !.code = 2 * code, !.first = 2 * (walk.first + count),
                              !.index = walk.index + count, !.len = walk.len + 1]]

\* Broken variant: the copied bytes are taken before the copy begins.
CopiedAtOnce(out, n, d) == out \o SubSeq(out, Len(out) - d + 1, Min({Len(out), Len(out) - d + n}))

\* A copy may reach into what it has just written.
Copied(out, n, d) ==
    LET from == Len(out) - d
    IN out \o [k \in 1 .. n |-> out[from + ((k - 1) % d) + 1]]

\* What a decoded symbol does.
Literal(s) ==
    IF Len(inflated) >= MaxInflate THEN zPc' = "failed" /\ UNCHANGED <<inflated, pending, blockNo, walk>>
    ELSE /\ inflated' = Append(inflated, s) /\ walk' = Root("lit")
         /\ UNCHANGED <<pending, blockNo, zPc>>
BlockEnds ==
    /\ zPc' = "block" /\ blockNo' = blockNo + 1
    /\ UNCHANGED <<inflated, pending, walk>>
LengthOf(s) ==
    IF s \notin DOMAIN LengthBase
    THEN zPc' = "failed" /\ UNCHANGED <<inflated, pending, blockNo, walk>>
    ELSE /\ pending' = LengthBase[s] /\ walk' = Root("dist")
         /\ UNCHANGED <<inflated, blockNo, zPc>>
CopyFrom(s) ==
    IF \/ s \notin DOMAIN DistBase \/ DistBase[s] > Len(inflated)
       \/ Len(inflated) + pending > MaxInflate
    THEN zPc' = "failed" /\ UNCHANGED <<inflated, pending, blockNo, walk>>
    ELSE /\ inflated' = Copied(inflated, pending, DistBase[s])
         /\ pending' = 0 /\ walk' = Root("lit")
         /\ UNCHANGED <<blockNo, zPc>>

\* One bit of a coded block.
ReadBit ==
    /\ zPc = "symbol"
    /\ IF bits = << >> THEN zPc' = "failed" /\ UNCHANGED <<bits, inflated, blockNo, walk, pending>>
       ELSE LET next == Walked(Head(bits))
            IN /\ bits' = Tail(bits)
               /\ \/ /\ next.hit = {} /\ walk.len < MaxCode
                     /\ walk' = next.deep /\ UNCHANGED <<inflated, pending, blockNo, zPc>>
                  \/ /\ next.hit = {} /\ walk.len >= MaxCode
                     /\ zPc' = "failed" /\ UNCHANGED <<inflated, pending, blockNo, walk>>
                  \/ \E s \in next.hit :
                       \/ walk.table = "dist" /\ CopyFrom(s)
                       \/ walk.table = "lit" /\ s < EndSymbol /\ Literal(s)
                       \/ walk.table = "lit" /\ s = EndSymbol /\ BlockEnds
                       \/ walk.table = "lit" /\ s > EndSymbol /\ LengthOf(s)
    /\ UNCHANGED <<stream, tables>>

InflateNext == StoredBlock \/ OpenBlock \/ ReservedBlock \/ StreamEnds \/ ReadBit

-----------------------------------------------------------------------------
\* A block is sound when its tables can be told apart and its header says them.
SoundBlock(b) ==
    \/ b.type = "stored"
    \/ /\ b.type = "coded" /\ Built(b.lit) /\ Built(b.dist)
       /\ b.header = << >> \/
          HeaderLengths(b.header, Cardinality(DOMAIN b.lit) + Cardinality(DOMAIN b.dist)) =
            [lens |-> [i \in 1 .. Cardinality(DOMAIN b.lit) |-> b.lit[i - 1]]
                      \o [i \in 1 .. Cardinality(DOMAIN b.dist) |-> b.dist[i - 1]], good |-> TRUE]

\* A stream that is read to its end is read as it was meant, whatever tables
\* encode it; what is read of a cut one is the beginning of that; and a sound
\* stream fails only because it was cut, a copy starts before the output or
\* the output is too large (src/loaders/ooxml.cpp:247, :53).
InflateInverts ==
    LET meant == Meant(stream.blocks)
    IN /\ stream.noise = << >> /\ (\A i \in DOMAIN stream.blocks : SoundBlock(stream.blocks[i])) =>
            /\ meant.good => IsPrefix(inflated, meant.out)
            /\ zPc = "done" => meant.good /\ inflated = meant.out
            /\ zPc = "failed" => \/ stream.cut < Len(StreamBits(stream.blocks))
                                \/ ~meant.good \/ Len(meant.out) > MaxInflate
       /\ Len(inflated) <= MaxInflate
=============================================================================
