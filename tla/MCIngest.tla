------------------------------ MODULE MCIngest ------------------------------
(* Small inputs for the modules that read documents: chunking, the deflate   *)
(* decoder, office files, and the loaders of files, directories and tables.  *)
EXTENDS Chunking, Inflate, Office, Extraction

LineKind(word, indent, size, role) ==
    [word |-> word, indent |-> indent, size |-> size, role |-> role]
MCKindOf ==
    [D |-> LineKind("fn", 0, 1, "def"), n |-> LineKind("fn", 4, 1, "open"),
     C |-> LineKind("//", 0, 1, "comment"), c |-> LineKind("//", 0, 4, "comment"),
     B |-> LineKind("", 0, 1, "blank"), T |-> LineKind("x", 4, 1, "text"),
     P |-> LineKind("Revenue", 0, 1, "text"), L |-> LineKind("y", 0, 4, "text"),
     H |-> LineKind("#", 0, 1, "heading1"), h |-> LineKind("##", 0, 1, "heading2")]
Titled(docLines, type) ==
    [lines |-> docLines, type |-> type, distance |-> << >>, embeds |-> TRUE, titled |-> TRUE]
ShortDocs ==
    {Titled(l, "code") : l \in UNION {[1 .. m -> {"D", "C", "c", "T"}] : m \in {1, 4}}}
    \cup {Titled(l, t) : l \in [1 .. 4 -> {"H", "h", "B", "P", "L"}], t \in {"prose", "markup"}}
\* Long enough for a structure to be inferred from what repeats.
LongDocs ==
    [lines : {<<"D", "T", "C", "B", "C", "D", "C", "T", "D">>,
              <<"P", "B", "P", "T", "P", "B", "P", "B", "P">>,
              <<"C", "D", "T", "C", "n", "T", "C", "D", "B", "P">>,
              <<"P", "D", "T", "D", "C", "C", "c", "D", "T", "D">>},
     type : {"unknown", "code"}, distance : {<< >>}, embeds : {TRUE}, titled : {FALSE}]
Sentences ==
    [lines : [1 .. 4 -> {"P", "L"}], type : {"sentences"}, distance : [1 .. 4 -> {0, 1, 2}],
     embeds : {TRUE}, titled : {TRUE}]
    \cup [lines : [1 .. 2 -> {"P", "L"}], type : {"sentences"}, distance : {<<0, 1>>},
          embeds : {FALSE}, titled : {TRUE}]
ChunkInputs == ShortDocs \cup LongDocs \cup Sentences
ChunkRest == {Titled(<<"P">>, "prose")}

-----------------------------------------------------------------------------
\* Symbols 0 and 1 are bytes, 2 ends the block, 3 and 4 are copies.
MCLengthBase == (3 :> 2) @@ (4 :> 3)
MCDistBase == (0 :> 1) @@ (1 :> 2)
DeflateTokens ==
    UNION {[1 .. n -> {[symbol |-> 0, copy |-> 0], [symbol |-> 1, copy |-> 0],
                       [symbol |-> 3, copy |-> 1], [symbol |-> 4, copy |-> 2]}] : n \in 0 .. 3}
DeflateBlock(type, lit, dist, header, codes) ==
    [type |-> type, size |-> 2, lit |-> lit, dist |-> dist, header |-> header, tokens |-> codes]
Stream(blocks, cut, noise) == [blocks |-> blocks, cut |-> cut, noise |-> noise]
Flat == [s \in 0 .. 4 |-> 3]
TwoDists == [s \in 0 .. 1 |-> 1]
Stored == DeflateBlock("stored", << >>, << >>, << >>, << >>)
Op(o, n) == [op |-> o, n |-> n]
LengthHeaders ==
    {<<Op("len", 3), Op("again", 4), Op("len", 1), Op("again", 1)>>, <<Op("again", 3), Op("len", 1)>>,
     <<Op("len", 3), Op("again", 4), Op("zeros", 3)>>, <<Op("len", 3), Op("again", 4), Op("zeros", 1)>>}
InflateInputs ==
    {Stream(<<DeflateBlock("coded", l, TwoDists, << >>, t)>>, c, << >>) :
        l \in {[s \in 0 .. 4 |-> IF s < 3 THEN 2 ELSE 3],
               [s \in 0 .. 4 |-> IF s = 2 THEN 1 ELSE 3], Flat},
        t \in DeflateTokens, c \in {3, 99}}
    \cup {Stream(<<DeflateBlock("coded", Flat, TwoDists, h, t)>>, 99, << >>) :
            h \in LengthHeaders, t \in DeflateTokens}
    \cup {Stream(<<DeflateBlock("coded", [s \in 0 .. 4 |-> 1], TwoDists, << >>, << >>)>>, 99, << >>),
          Stream(<<DeflateBlock("reserved", << >>, << >>, << >>, << >>)>>, 99, << >>)}
    \cup {Stream(<<Stored, DeflateBlock("coded", Flat, TwoDists, << >>, t), Stored>>, c, << >>) :
            t \in DeflateTokens, c \in {1, 99}}
    \cup {Stream(<<DeflateBlock("coded", l, [s \in 0 .. 2 |-> 2], << >>, << >>)>>, 99, n) :
            l \in {Flat, [s \in 0 .. 5 |-> 3]}, n \in [1 .. 6 -> {0, 1}]}
InflateRest == {Stream(<<Stored>>, 99, << >>)}

-----------------------------------------------------------------------------
Part(kind, n, readable, content) ==
    [kind |-> kind, n |-> n, listed |-> TRUE, readable |-> readable, doc |-> content,
     cells |-> << >>, refs |-> << >>, pretty |-> FALSE]
Par(words) == [words |-> words, rows |-> << >>]
TableOf(rows) == [words |-> << >>, rows |-> rows]
CellOf(words) == [words |-> words, inner |-> 0, after |-> << >>]
Nesting(words, n) == [words |-> words, inner |-> n, after |-> <<"kept">>]
KeptPar == Par(<<"kept">>)
CellChoices ==
    {CellOf(w) : w \in {<< >>, <<"kept">>, <<"kept", "deleted">>}} \cup {Nesting(<<"kept">>, 2)}
ParChoices ==
    {Par(w) : w \in UNION {[1 .. n -> {"kept", "deleted"}] : n \in 0 .. 2}
                    \cup {<<"hollow">>, <<"hollow", "kept", "deleted", "kept">>}}
DocChoices ==
    {<<x, t, y>> : x \in {KeptPar, Par(<< >>)},
        t \in {TableOf(<<r, s>>) : r \in [1 .. 2 -> CellChoices],
                                   s \in {<<CellOf(<<"kept">>), Nesting(<< >>, 1)>>}},
        y \in {KeptPar, Par(<<"hollow", "kept">>)}}
    \cup {<<x, y>> : x, y \in ParChoices}
TextParts == {<<[Part("main", 0, TRUE, d) EXCEPT !.pretty = p]>> : d \in DocChoices, p \in BOOLEAN}

SheetCells == [kind : {"inline", "holed", "empty"}, n : {0}] \cup [kind : {"shared"}, n : {1, 3}]
SheetPart(n, readable, cells) == [Part("sheet", n, readable, << >>) EXCEPT !.cells = cells]
Workbooks ==
    {<<x, y, z>> :
        x \in {SheetPart(1, r, <<<<s, t>>, << >>, <<[kind |-> "inline", n |-> 0], u>>>>) :
                  r \in BOOLEAN, s, t, u \in SheetCells},
        y \in {[Part("shared", 0, r, << >>) EXCEPT !.refs = <<"a", "b">>] : r \in BOOLEAN},
        z \in {SheetPart(2, TRUE, << >>), Part("mimetype", 0, TRUE, << >>)}}
AnyPart(kind, n) == {Part(kind, n, r, d) : r \in BOOLEAN, d \in {<<KeptPar>>, << >>}}
Ordered(x, y, z) == {<<x, y, z>>, <<y, x, z>>, <<z, y, x>>, <<y, z, x>>}
Decks ==
    UNION {Ordered(x, y, z) :
              x \in AnyPart("slide", 10), y \in AnyPart("slide", 2), z \in AnyPart("notes", 1)}
TextFiles ==
    UNION {Ordered(x, y, z) :
              x \in AnyPart("main", 0), y \in AnyPart("footnotes", 0), z \in AnyPart("footnotes", 1)}
Books ==
    {<<Part("container", 0, r, << >>), x, y, [Part("opf", 0, q, << >>) EXCEPT !.refs = s]>> \o z :
        r, q \in BOOLEAN, s \in {<< >>, <<2, 1>>, <<3, 1>>, <<0, 2>>, <<3>>},
        x \in AnyPart("html", 2), y \in AnyPart("html", 1),
        z \in {<< >>} \cup {<<p>> : p \in AnyPart("content", 0)}}
OddZips ==
    {<<[x EXCEPT !.listed = l], y>> : x \in AnyPart("content", 0), l \in BOOLEAN,
        y \in AnyPart("html", 1) \cup AnyPart("slide", 1)}
OfficeInputs == TextParts \cup Workbooks \cup Decks \cup TextFiles \cup Books \cup OddZips
OfficeRest == {<<Part("main", 0, TRUE, <<KeptPar>>)>>}

-----------------------------------------------------------------------------
MCConverters == (".pdf" :> 2)
Entry(kind, name, path, ext, size, sig, nul, good, body) ==
    [kind |-> kind, name |-> name, path |-> path, ext |-> ext, size |-> size, sig |-> sig,
     nul |-> nul, good |-> good, body |-> body]
NoTable == [rows |-> << >>, crlf |-> FALSE, ended |-> FALSE, header |-> FALSE, id |-> 0]
Directory(es, limit, converters) ==
    [entries |-> es, maxFiles |-> limit, tools |-> converters, table |-> NoTable]
Item(i, n) == [item |-> i, n |-> n]
MarkupItems ==
    {Item("word", 1), Item("block", 1), Item("block", 2), Item("group", 1), Item("hidden", 1),
     Item("hidden", 2), Item("stray", 0)}
HtmlItems ==
    (MarkupItems \ {Item("hidden", 2)})
    \cup {Item("code", 1), Item("code", 2), Item("comment", 1), Item("comment", 2), Item("less", 2)}
OneWord == <<Item("word", 1)>>
MarkupFile(ext, content) ==
    Directory(<<Entry("file", "f", << >>, ext, 1, "plain", FALSE, TRUE, content)>>, 0, << >>)
MarkupFiles ==
    {MarkupFile(".html", b) : b \in [1 .. 3 -> HtmlItems]}
    \cup {MarkupFile(".rtf", b) : b \in [1 .. 3 -> MarkupItems]}
SingleFiles ==
    {Directory(<<Entry("file", "f", << >>, x, s, g, n, o, bd)>>, 0, t) :
        x \in {".txt", ".pdf", ".own"}, s \in {1, 4, 9},
        g \in {"plain", "zip", "ole", "bom", "pdf", "rtf"}, n, o \in BOOLEAN,
        bd \in {OneWord, << >>}, t \in {<< >>, <<"empty", "text">>, <<"absent", "text">>}}
PlainFile(path, ext, nul, body, size) ==
    Entry("file", "f", path, ext, size, "plain", nul, TRUE, body)
FilesIn(path) ==
    {PlainFile(path, ".txt", FALSE, OneWord, 1), PlainFile(path, ".txt", TRUE, OneWord, 1),
     PlainFile(path, ".txt", FALSE, << >>, 1), PlainFile(path, ".txt", FALSE, OneWord, 9),
     PlainFile(path, ".bin", FALSE, OneWord, 1),
     Entry("other", "o", path, ".txt", 1, "plain", FALSE, TRUE, << >>)}
SubDir(kind, name, path) == Entry(kind, name, path, "", 1, "plain", FALSE, TRUE, << >>)
Trees ==
    {Directory(<<SubDir(k, "d", << >>), x, SubDir(l, "git", <<"d">>),
                 PlainFile(<<"d", "git">>, ".txt", FALSE, OneWord, 1), y, z>>, m, << >>) :
        k, l \in {"dir", "closed"}, x \in FilesIn(<<"d">>), y, z \in FilesIn(<< >>), m \in 0 .. 2}
FieldTexts ==
    {<< >>, <<"x">>, <<"1">>, <<QUOTE>>, <<"x", COMMA>>, <<LF, "x">>, <<"x", QUOTE, QUOTE>>, <<CR, LF>>}
CsvTables ==
    {[rows |-> <<<<<<"x">>, <<"y">>>>, r, s>>, crlf |-> TRUE, ended |-> FALSE, header |-> TRUE, id |-> 1] :
        r \in [1 .. 2 -> FieldTexts],
        s \in {<<<<"x">>, << >>>>, <<<<"1">>, <<LF, "x">>>>, << << >> >>}}
    \cup {[rows |-> r, crlf |-> c, ended |-> e, header |-> h, id |-> i] :
            r \in [1 .. 3 -> {<<f>> : f \in {<< >>, <<"x">>, <<"1">>, <<QUOTE, LF>>}}
                             \cup {<<<<"x">>, << >>>>}],
            c, e, h \in BOOLEAN, i \in {0, 1}}
ExtractionInputs ==
    MarkupFiles \cup SingleFiles \cup Trees
    \cup {[Directory(<< >>, 0, << >>) EXCEPT !.table = t] : t \in CsvTables}
ExtractionRest == {Directory(<< >>, 0, << >>)}
=============================================================================
