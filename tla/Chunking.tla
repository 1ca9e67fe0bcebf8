------------------------------ MODULE Chunking ------------------------------
(* Cutting a document into chunks: windows of lines with a heading breadcrumb*)
(* (src/text/chunker.cpp), code at its definitions (src/loaders/             *)
(* code_chunker.cpp), formats nobody knows at the definitions their own      *)
(* repetition gives away (src/loaders/structure.cpp), sentences at breaks of *)
(* meaning (src/text/semantic_chunker.cpp), and what tells a chunk where it  *)
(* stands (src/text/contextual.cpp).                                         *)
(*                                                                           *)
(* A line is its kind, of which KindOf tells what the chunkers look at; a    *)
(* chunk is the range of its lines, numbered from 1.                         *)
EXTENDS Integers, Sequences, FiniteSets, FiniteSetsExt, Functions, Sums

CONSTANTS
    KindOf,        \* kind -> [word, indent, size, role]; role "def", "comment",
                   \* "blank", "heading1", "heading2", "open" (ends in a bracket) or "text"
    MaxLines, MaxChars, MinLines,   \* CodeChunkOptions, ChunkOptions
    Overlap,       \* ChunkOptions::overlap_lines
    MinOfFile, MinOfText,           \* 8 lines and 6 that are not blank, in the code
    BreakPercent   \* SemanticChunkOptions::breakpoint_percentile

\* A line that is not blank has some size.
ASSUME ChunkingAssumption ==
    /\ MaxLines \in Nat /\ MaxChars \in Nat /\ MinLines \in Nat /\ Overlap \in Nat
    /\ \A k \in DOMAIN KindOf :
          KindOf[k].size \in Nat /\ (KindOf[k].role # "blank" => KindOf[k].size > 0)

VARIABLES
    doc,           \* the lines and what there is to say of the document
    strategy,      \* how it is cut, "" before that is decided
    profile,       \* StructureProfile: words that define, and their indentation
    at, seg,       \* the line the loop is at, the first line of the segment
    chars,         \* the size of the segment so far
    crumb,         \* the heading line of each level, 0 for none; or the definition
    chunks,        \* [first, last, context, situated, full]
    chPc           \* "choose", "cut", "cutDone", "done"

chunkVars == <<doc, strategy, profile, at, seg, chars, crumb, chunks, chPc>>

Lines == 1 .. Len(doc.lines)
Kind(i) == KindOf[doc.lines[i]]
IsBlank(i) == Kind(i).role = "blank"
Defines(i) == Kind(i).role = "def"     \* a definition, to the rules of the known language
Word(i) == Kind(i).word                \* leading_token(), "" for a word that never defines
NoProfile == [defs |-> {}, indent |-> 0, prefix |-> FALSE]

ChunkingInit(inputs) ==
    /\ doc \in inputs
    /\ strategy = "" /\ profile = NoProfile
    /\ at = 1 /\ seg = 1 /\ chars = 0 /\ crumb = <<0, 0>>
    /\ chunks = << >> /\ chPc = "choose"

-----------------------------------------------------------------------------
\* infer_structure(): a comment prefix is common but not everywhere.
Commented == LET c == {i \in Lines : Kind(i).role = "comment"}
                 all == {i \in Lines : ~IsBlank(i)}
             IN Cardinality(c) >= 3 /\ 10 * Cardinality(c) < 7 * Cardinality(all)
CommentIn(prof, i) == prof.prefix /\ Kind(i).role = "comment"

NextText(i) == {j \in Lines : j > i /\ ~IsBlank(j) /\ \A m \in i + 1 .. j - 1 : IsBlank(m)}
Opens(i) == \E j \in NextText(i) : Kind(j).indent > Kind(i).indent

\* The words that start lines often enough and mostly in one column, and that
\* column (of equally frequent ones any).
Uses(w) == {i \in Lines : Word(i) = w /\ ~IsBlank(i)
                            /\ ~CommentIn([NoProfile EXCEPT !.prefix = Commented], i)}
Columns(w) ==
    LET hits(c) == Cardinality({i \in Uses(w) : Kind(i).indent = c})
        all == {Kind(i).indent : i \in Uses(w)}
    IN {c \in all : (\A e \in all : hits(c) >= hits(e)) /\ 10 * hits(c) >= 6 * Cardinality(Uses(w))}
Candidates == {w \in {Word(i) : i \in Lines} \ {""} : Cardinality(Uses(w)) >= 3 /\ Columns(w) # {}}

\* The evidence of nesting: lines deeper than the one before, brackets, or a
\* word that opens a body half of the times it is used.
Nests(word) ==
    LET text     == {i \in Lines : ~IsBlank(i)}
        later    == {i \in text : \E j \in text : j < i}
        deeper   == {i \in text : Opens(i)}
        brackets == {i \in text : Kind(i).role \in {"open", "def"}}
    IN \/ 100 * Cardinality(deeper) >= 15 * Cardinality(later) /\ later # {}
       \/ 10 * Cardinality(brackets) > Cardinality(text)
       \/ 2 * Cardinality({i \in Uses(word) : Opens(i)}) >= Cardinality(Uses(word))

\* The profiles the scores may give: up to six candidates, the best of which
\* sets the indentation; which are the best, and whether they are trusted, is
\* left open.
Inferred ==
    IF Len(doc.lines) < MinOfFile \/ Cardinality({i \in Lines : ~IsBlank(i)}) < MinOfText
    THEN {NoProfile}
    ELSE {NoProfile} \cup
         UNION {{[defs |-> D, indent |-> c, prefix |-> Commented] :
                    D \in {S \in SUBSET Candidates : best \in S /\ Cardinality(S) <= 6},
                    c \in Columns(best)} :
                best \in {w \in Candidates : Nests(w)}}

\* chunk_source(), strategy_for(): a known language, an inferred structure, or
\* windows; a document that is not source is cut by its headings or sentences.
ChooseStrategy ==
    /\ chPc = "choose" /\ chPc' = "cut"
    /\ \/ doc.type = "prose" /\ strategy' = "document" /\ UNCHANGED profile
       \/ doc.type = "sentences" /\ strategy' = "semantic" /\ UNCHANGED profile
       \/ doc.type = "code" /\ strategy' = "code" /\ UNCHANGED profile
       \/ doc.type = "markup" /\ strategy' = "windows" /\ UNCHANGED profile
       \/ /\ doc.type = "unknown"
          /\ profile' \in Inferred
          /\ strategy' = IF profile'.defs = {} THEN "windows" ELSE "structure"
    /\ UNCHANGED <<doc, at, seg, chars, crumb, chunks>>

-----------------------------------------------------------------------------
\* A range of lines becomes a chunk unless nothing but blank lines is left of
\* it; full tells that its size, not its content, ended it.
Flushed(first, last, context, full) ==
    IF \A i \in first .. last : IsBlank(i) THEN chunks
    ELSE Append(chunks, [first |-> first, last |-> last, context |-> context,
                         situated |-> "", full |-> full])

Boundary(i) == IF strategy = "code" THEN Defines(i)
               ELSE /\ ~IsBlank(i) /\ ~CommentIn(profile, i)
                    /\ Word(i) \in profile.defs /\ Kind(i).indent <= profile.indent
Comment(i) == IF strategy = "code" THEN Kind(i).role = "comment" ELSE CommentIn(profile, i)

\* claim_leading_comments(): up over comments and a blank line below one.
Claimable(i) == Comment(i) \/ (IsBlank(i) /\ i > 1 /\ Comment(i - 1))
Claimed(i) == Min({s \in 1 .. i : \A j \in s .. i - 1 : Claimable(j)})

\* Broken variant: the cut is at the definition, its comments stay above.
CutAtLine(i) == i

CutAt(i) == IF Boundary(i) THEN Claimed(i) ELSE i

\* One line of chunk_code or chunk_by_structure; only the latter never cuts
\* at or before the segment's own start for a boundary.
CodeLine ==
    /\ chPc = "cut" /\ strategy \in {"code", "structure"} /\ at <= Len(doc.lines)
    /\ LET cut    == CutAt(at)
           length == IF cut > seg THEN cut - seg ELSE 0
           tooBig == at - seg >= MaxLines \/ chars >= MaxChars
           cuts   == \/ Boundary(at) /\ length >= MinLines /\ (strategy = "code" \/ cut > seg)
                     \/ tooBig
       IN /\ chunks' = IF cuts THEN Flushed(seg, cut - 1, crumb, tooBig) ELSE chunks
          /\ seg' = IF cuts THEN cut ELSE seg
          /\ chars' = (IF cuts THEN 0 ELSE chars) + Kind(at).size
          /\ crumb' = IF Boundary(at) THEN <<at, 0>> ELSE crumb
    /\ at' = at + 1
    /\ UNCHANGED <<doc, strategy, profile, chPc>>

CodeEnd ==
    /\ chPc = "cut" /\ strategy \in {"code", "structure"} /\ at > Len(doc.lines)
    /\ chunks' = Flushed(seg, Len(doc.lines), crumb, FALSE)
    /\ chPc' = "cutDone"
    /\ UNCHANGED <<doc, strategy, profile, at, seg, chars, crumb>>

\* chunk_code() for markup and unknown languages.
FixedWindow ==
    /\ chPc = "cut" /\ strategy = "windows"
    /\ LET last == Min({at + MaxLines - 1, Len(doc.lines)})
       IN /\ chunks' = Flushed(at, last, <<0, 0>>, TRUE)
          /\ at' = last + 1
          /\ chPc' = IF last = Len(doc.lines) THEN "cutDone" ELSE "cut"
    /\ UNCHANGED <<doc, strategy, profile, seg, chars, crumb>>

\* The last line of a window of chunk_document that starts at a line: it ends
\* at its limits or on a blank line past half of them.
SizeOf(first, last) == LET size(i) == Kind(i).size IN SumOver(first .. last, size)
WindowEnd(first) ==
    LET ends(j) == \/ j = Len(doc.lines)
                   \/ j - first + 1 >= MaxLines \/ SizeOf(first, j) >= MaxChars
                   \/ IsBlank(j) /\ j - first + 1 >= MaxLines \div 2
    IN Min({j \in first .. Len(doc.lines) : ends(j)})

\* The breadcrumb after a line: a heading ends the deeper ones.
Crumbs(from, first, last) ==
    LET after[i \in first - 1 .. last] ==
          IF i < first THEN from
          ELSE LET before == after[i - 1]
               IN CASE Kind(i).role = "heading1" -> <<i, 0>>
                    [] Kind(i).role = "heading2" -> <<before[1], i>>
                    [] OTHER -> before
    IN after[last]

\* The next window repeats the tail of this one when this one is longer.
StepBack(first, last) ==
    IF last < Len(doc.lines) /\ last + 1 > first + Overlap THEN last + 1 - Overlap ELSE last + 1

\* One window of chunk_document.
DocumentWindow ==
    /\ chPc = "cut" /\ strategy = "document" /\ at <= Len(doc.lines)
    /\ LET last == WindowEnd(at)
       IN /\ chunks' = Flushed(at, last, Crumbs(crumb, at, at), TRUE)
          /\ crumb' = Crumbs(crumb, at, last)
          /\ at' = StepBack(at, last)
    /\ UNCHANGED <<doc, strategy, profile, seg, chars, chPc>>

DocumentEnd ==
    /\ chPc = "cut" /\ strategy = "document" /\ at > Len(doc.lines)
    /\ chPc' = "cutDone"
    /\ UNCHANGED <<doc, strategy, profile, at, seg, chars, crumb, chunks>>

\* semantic_chunk(): lines are sentences; the ones farther from their
\* predecessor than the percentile of all distances begin a chunk.
Distances == [i \in 2 .. Len(doc.lines) |-> doc.distance[i]]
Percentile(v) ==
    LET below(i) == {j \in DOMAIN v : v[j] < v[i] \/ (v[j] = v[i] /\ j <= i)}
        index    == (BreakPercent * (Cardinality(DOMAIN v) - 1)) \div 100
    IN v[CHOOSE i \in DOMAIN v : Cardinality(below(i)) = index + 1]
Breaks == {i \in DOMAIN Distances : Distances[i] > Percentile(Distances)}

\* One sentence of assemble(); the embedder of the sentences may have failed.
Sentence ==
    /\ chPc = "cut" /\ strategy = "semantic" /\ doc.embeds /\ at <= Len(doc.lines)
    /\ LET cuts == (at \in Breaks /\ chars > 0) \/ chars + Kind(at).size > MaxChars
       IN /\ chunks' = IF cuts /\ chars > 0 THEN Flushed(seg, at - 1, <<0, 0>>, FALSE) ELSE chunks
          /\ seg' = IF cuts THEN at ELSE seg
          /\ chars' = (IF cuts THEN 0 ELSE chars) + Kind(at).size
    /\ at' = at + 1
    /\ UNCHANGED <<doc, strategy, profile, crumb, chPc>>

SentencesEnd ==
    /\ chPc = "cut" /\ strategy = "semantic"
    /\ \/ /\ doc.embeds /\ at > Len(doc.lines)
          /\ chunks' = Flushed(seg, Len(doc.lines), <<0, 0>>, FALSE) /\ chPc' = "cutDone"
       \/ ~doc.embeds /\ chPc' = "done" /\ UNCHANGED chunks
    /\ UNCHANGED <<doc, strategy, profile, at, seg, chars, crumb>>

\* contextualize(): for each chunk the model's words, or when it fails or has
\* none the title of the document.
Contextualize ==
    /\ chPc = "cutDone"
    /\ \E S \in SUBSET DOMAIN chunks :
         chunks' = [c \in DOMAIN chunks |->
           [chunks[c] EXCEPT !.situated =
              IF c \in S THEN "model" ELSE IF doc.titled THEN "document" ELSE ""]]
    /\ chPc' = "done"
    /\ UNCHANGED <<doc, strategy, profile, at, seg, chars, crumb>>

ChunkingNext ==
    \/ ChooseStrategy \/ CodeLine \/ CodeEnd \/ FixedWindow \/ DocumentWindow \/ DocumentEnd
    \/ Sentence \/ SentencesEnd \/ Contextualize

-----------------------------------------------------------------------------
InChunk(i, c) == i \in c.first .. c.last
CutOver == chPc = "cutDone" \/ (chPc = "done" /\ chunks # << >>)

\* No line with text is lost, and what two chunks repeat is the tail a window
\* hands on, or a comment a definition claims back after a cut for size had
\* already taken it (src/loaders/structure.cpp:381).  The cutting makes progress:
\* there are never more chunks than lines.
LinesCovered ==
  /\ Len(chunks) <= Len(doc.lines)
  /\ CutOver =>
       /\ \A i \in Lines : ~IsBlank(i) => \E c \in Range(chunks) : InChunk(i, c)
       /\ \A a, b \in DOMAIN chunks : a < b =>
            LET shared == {i \in Lines : InChunk(i, chunks[a]) /\ InChunk(i, chunks[b])}
            IN CASE strategy = "document" -> Cardinality(shared) <= Overlap * (b - a)
                 [] strategy \in {"code", "structure"} ->
                      \A i \in shared : Comment(i) \/ IsBlank(i)
                 [] OTHER -> shared = {}

\* A definition is in one chunk with all of its comments, unless a chunk that
\* was full took some of them away (src/loaders/code_chunker.cpp:112).
CommentsTravel ==
    CutOver /\ strategy \in {"code", "structure"} =>
      \A i \in Lines : Boundary(i) =>
        \/ \E c \in Range(chunks) : Claimed(i) .. i \subseteq c.first .. c.last
        \/ \E c \in Range(chunks) : c.full /\ c.last \in Claimed(i) .. i - 1

\* Chunks lose no line, repeat only what they may, and keep comments with the
\* code they describe.
ChunkingSound == LinesCovered /\ CommentsTravel
=============================================================================
