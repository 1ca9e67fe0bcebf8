------------------------------- MODULE Office -------------------------------
(* Documents in ZIP containers (src/loaders/ooxml.cpp): the directory of     *)
(* parts, the text of one XML part, and the order in which each format's     *)
(* parts are read: Word, Excel, PowerPoint, OpenDocument and EPUB.           *)
(*                                                                           *)
(* A part is [kind, n, listed, readable, doc, cells, refs]: what its name    *)
(* says, the number in it, whether the directory's walk gets over its header *)
(* and whether its data can be read, and its body as its writer saw it:      *)
(* paragraphs and tables (doc), rows of cells (cells) or references (refs).  *)
EXTENDS Integers, Sequences, FiniteSets, FiniteSetsExt, SequencesExt

VARIABLES
    zip,           \* the container: its parts in directory order
    form,          \* the format being read
    reading,       \* the parts still to read, in order
    said,          \* out: [head, text] a part
    oPc            \* "open", "read", "done", "failed"

officeVars == <<zip, form, reading, said, oPc>>

-----------------------------------------------------------------------------
\* The writer's side.  A word is kept, deleted by a tracked change, or an empty
\* deletion, written as a closed tag; unit is the line it belongs on, at its
\* place there, and pretty puts a line break of the file's after every tag.
WordEvents(part, unit, at, words) ==
    FlattenSeq([n \in DOMAIN words |->
      LET word == <<"word", [part |-> part, unit |-> unit, at |-> Append(at, n), kind |-> words[n]]>>
      IN CASE words[n] = "kept"    -> <<word>>
           [] words[n] = "deleted" -> << <<"del", "open">>, word, <<"del", "close">> >>
           [] words[n] = "hollow"  -> << <<"del", "empty">> >>])
Tagged(tag, events) == << <<tag, "open">> >> \o events \o << <<tag, "close">> >>
Paragraph(part, unit, at, words) == Tagged("p", WordEvents(part, unit, at, words))

\* A cell is [words, inner, after]: a paragraph and, below it, a table of inner
\* one-cell rows and a second paragraph.
CellEvents(part, unit, c, cell) ==
    Tagged("tc",
      Paragraph(part, unit, <<c, 1>>, cell.words)
        \o IF cell.inner = 0 THEN << >>
           ELSE Tagged("tbl", FlattenSeq([r \in 1 .. cell.inner |-> Tagged("tr", Tagged("tc",
                  Paragraph(part, unit \o <<c, r>>, <<c, 1>>, <<"kept">>)))]))
                \o Paragraph(part, unit, <<c, 2>>, cell.after))
BlockEvents(part, b, block) ==
    IF block.rows = << >> THEN Paragraph(part, <<b>>, << >>, block.words)
    ELSE Tagged("tbl", FlattenSeq([r \in DOMAIN block.rows |->
           Tagged("tr", FlattenSeq([c \in DOMAIN block.rows[r] |->
             CellEvents(part, <<b, r>>, c, block.rows[r][c])]))]))
DocEvents(part) ==
    LET events == FlattenSeq([b \in DOMAIN zip[part].doc |-> BlockEvents(part, b, zip[part].doc[b])])
    IN IF ~zip[part].pretty THEN events
       ELSE FlattenSeq([i \in DOMAIN events |->
              IF events[i][1] = "word" THEN <<events[i]>> ELSE <<events[i], <<"break", "open">> >>])

-----------------------------------------------------------------------------
\* ooxml_xml_to_text: a line break never doubles one, a tab neither doubles nor
\* follows a line break.
NL == <<"nl">>
TAB == <<"tab">>
IsWord(item) == item \notin {NL, TAB}
Newline(out) == IF out = << >> \/ Last(out) = NL THEN out ELSE Append(out, NL)
Tab(out) == IF out = << >> \/ Last(out) \in {NL, TAB} THEN out ELSE Append(out, TAB)

\* Broken variant: a paragraph ends the line inside a table too.
ParagraphEndFlat(depth, out) == Newline(out)
\* In a table a paragraph is a tab: only the row ends the line.
ParagraphEnd(depth, out) == IF depth > 0 THEN Tab(out) ELSE Newline(out)

\* One event: the state is [out, depth, skipping].
XmlEvent(s, e) ==
    CASE e[1] = "word"  -> IF s.skipping THEN s ELSE [s EXCEPT !.out = Append(@, e)]
      [] e[1] = "break" -> IF s.skipping THEN s ELSE [s EXCEPT !.out = Append(@, NL)]
      [] e[1] = "tbl"   -> [s EXCEPT !.depth = IF e[2] = "close" THEN Max({@ - 1, 0}) ELSE @ + 1,
                                     !.out = Newline(@)]
      [] e[1] = "tr"    -> [s EXCEPT !.out = Newline(@)]
      [] e[1] = "p"     -> [s EXCEPT !.out = ParagraphEnd(s.depth, @)]
      [] e[1] = "tc"    -> [s EXCEPT !.out = Tab(@)]
      [] e[1] = "del"   -> [s EXCEPT !.skipping = e[2] # "close"]

\* The blank lines that empty paragraphs leave: two at most, none at the end.
Tidy(out) ==
    LET put(t, item) ==
          IF item = NL THEN [out |-> IF t.nl < 2 THEN Append(t.out, NL) ELSE t.out, nl |-> t.nl + 1]
          ELSE [out |-> Append(t.out, item), nl |-> IF item = TAB THEN t.nl ELSE 0]
        kept == FoldLeft(put, [out |-> << >>, nl |-> 0], out).out
        ends == {i \in 0 .. Len(kept) : i = 0 \/ kept[i] # NL}
    IN SubSeq(kept, 1, Max(ends))
XmlText(events) ==
    Tidy(FoldLeft(XmlEvent, [out |-> << >>, depth |-> 0, skipping |-> FALSE], events).out)

-----------------------------------------------------------------------------
\* zip_entries: the walk stops at the first header it cannot get over.
Entries ==
    LET stops == {i \in DOMAIN zip : ~zip[i].listed}
    IN 1 .. IF stops = {} THEN Len(zip) ELSE Min(stops) - 1
InOrder(parts) == SetToSortSeq(parts, <)
OfKind(kinds) == {i \in Entries : zip[i].kind \in kinds}
FirstOf(kind) == IF OfKind({kind}) = {} THEN 0 ELSE Min(OfKind({kind}))
Readable(i) == i # 0 /\ zip[i].readable

\* zip_document_to_text and ooxml_to_text: the first format whose parts are
\* there; an EPUB that gives nothing falls through to OpenDocument.
Format ==
    CASE FirstOf("main") # 0 -> "docx"
      [] FirstOf("sheet") # 0 -> "xlsx"
      [] FirstOf("slide") # 0 -> "pptx"
      [] OfKind({"container", "mimetype"}) # {} -> "epub"
      [] FirstOf("content") # 0 -> "odf"
      [] OTHER -> "none"

\* pptx_to_text: the slides by the number in their names.
Slides(parts) == SetToSortSeq(parts, LAMBDA a, b : zip[a].n < zip[b].n)

\* epub_to_text: the spine's chapters, or every (x)html part by name when the
\* package gives none.  A reference to an item of no part reads nothing.
Chapters ==
    LET opf   == FirstOf("opf")
        spine == IF Readable(FirstOf("container")) /\ Readable(opf)
                 THEN SelectSeq(zip[opf].refs, LAMBDA id : id # 0) ELSE << >>
        named(n) == {i \in OfKind({"html"}) : zip[i].n = n}
        found == [k \in DOMAIN spine |-> IF named(spine[k]) = {} THEN 0 ELSE Min(named(spine[k]))]
    IN IF spine # << >> THEN found
       ELSE SetToSortSeq(OfKind({"html"}), LAMBDA a, b : zip[a].n < zip[b].n)

ReadingOrder(format) ==
    CASE format = "docx" -> <<FirstOf("main")>> \o InOrder(OfKind({"footnotes"}))
      [] format = "xlsx" -> InOrder(OfKind({"sheet"}))
      [] format = "pptx" -> Slides(OfKind({"slide"})) \o InOrder(OfKind({"notes"}))
      [] format = "epub" -> Chapters
      [] format = "odf"  -> <<FirstOf("content")>>
      [] format = "none" -> << >>

\* xlsx_to_text: a cell is [kind, n], written in place or an index in the shared
\* table; an empty cell and one with a closed tag inside are passed over.
SharedTable ==
    LET table == FirstOf("shared")
    IN IF Readable(table) THEN [k \in DOMAIN zip[table].refs |-> <<"word",
             [part |-> table, unit |-> <<k>>, at |-> <<1>>, kind |-> "kept"]>>]
       ELSE << >>
CellText(part, r, c) ==
    LET cell == zip[part].cells[r][c]
    IN CASE cell.kind = "inline" ->
              << <<"word", [part |-> part, unit |-> <<r>>, at |-> <<c>>, kind |-> "kept"]>> >>
         [] cell.kind = "shared" -> IF cell.n \in DOMAIN SharedTable THEN <<SharedTable[cell.n]>> ELSE << >>
         [] OTHER -> << >>
SheetText(part) ==
    LET row(r) ==
          LET put(text, c) == IF text # << >> /\ CellText(part, r, c) # << >>
                              THEN text \o <<TAB>> \o CellText(part, r, c)
                              ELSE text \o CellText(part, r, c)
          IN FoldLeft(put, << >>, [c \in DOMAIN zip[part].cells[r] |-> c])
    IN FlattenSeq([r \in DOMAIN zip[part].cells |-> IF row(r) = << >> THEN << >> ELSE Append(row(r), NL)])

-----------------------------------------------------------------------------
OfficeInit(inputs) ==
    /\ zip \in inputs
    /\ form = "none" /\ reading = << >> /\ said = << >> /\ oPc = "open"

OpenZip ==
    /\ oPc = "open"
    /\ form' = Format
    /\ reading' = ReadingOrder(Format)
    /\ oPc' = IF Format = "none" THEN "failed" ELSE "read"
    /\ UNCHANGED <<zip, said>>

\* A part that cannot be read is passed over, except the one that is the
\* document; one with no text is not said, except a sheet, which has a title.
\* A chapter goes through html_to_text (Markup): of plain paragraphs, which a
\* chapter here is, it makes the same lines.
Heading(part) ==
    CASE zip[part].kind = "slide" -> 1 + Cardinality({i \in DOMAIN said : said[i].head > 0})
      [] OTHER -> 0
ReadPart ==
    /\ oPc = "read" /\ reading # << >>
    /\ LET part == Head(reading)
           text == IF ~Readable(part) THEN << >>
                   ELSE IF zip[part].kind = "sheet" THEN SheetText(part)
                   ELSE XmlText(DocEvents(part))
       IN IF ~Readable(part) /\ form \in {"docx", "odf"} /\ zip[part].kind \in {"main", "content"}
          THEN oPc' = "failed" /\ UNCHANGED <<zip, form, reading, said>>
          ELSE /\ reading' = Tail(reading)
               /\ said' = IF ~Readable(part) \/ (text = << >> /\ zip[part].kind \notin {"main", "sheet"})
                          THEN said ELSE Append(said, [part |-> part, head |-> Heading(part), text |-> text])
               /\ UNCHANGED <<zip, form, oPc>>

EndOfParts ==
    /\ oPc = "read" /\ reading = << >>
    /\ IF said # << >> THEN oPc' = "done" /\ UNCHANGED <<form, reading>>
       ELSE IF form = "epub" /\ FirstOf("content") # 0
       THEN form' = "odf" /\ reading' = ReadingOrder("odf") /\ UNCHANGED oPc
       ELSE oPc' = "failed" /\ UNCHANGED <<form, reading>>
    /\ UNCHANGED <<zip, said>>

OfficeNext == OpenZip \/ ReadPart \/ EndOfParts

-----------------------------------------------------------------------------
WordsOf(text) == SelectSeq(text, IsWord)
Written(part) ==
    CASE zip[part].kind = "sheet" -> WordsOf(SheetText(part))
      [] OTHER -> SelectSeq(DocEvents(part), LAMBDA e : e[1] = "word" /\ e[2].kind = "kept")
HasHollow(part) == \E e \in Range(DocEvents(part)) : e = <<"del", "empty">>
NoBreak(text, i, j) == \A k \in i .. j : text[k] # NL

\* A table's row is one record and one line: words on a line belong to one row
\* or paragraph, the words of a row are on one line unless a table stands
\* between them, no deleted word is said, and the rest is, in order; a part
\* with an empty deletion aside, which swallows what follows (ooxml.cpp:437-466).
RowsStayRecords ==
    \A s \in Range(said) : zip[s.part].kind # "sheet" =>
      LET at == {i \in DOMAIN s.text : IsWord(s.text[i])}
          unit(i) == s.text[i][2].unit
          split(u) == \E k \in at : Len(unit(k)) > Len(u) /\ SubSeq(unit(k), 1, Len(u)) = u
      IN /\ \A i \in at : s.text[i][2].kind = "kept"
         /\ \A i, j \in at : i < j =>
              /\ NoBreak(s.text, i, j) => unit(i) = unit(j)
              /\ unit(i) = unit(j) /\ ~split(unit(i)) /\ ~zip[s.part].pretty => NoBreak(s.text, i, j)
         /\ ~HasHollow(s.part) => WordsOf(s.text) = Written(s.part)

\* What belongs to the document, by its format.
Content ==
    CASE form = "docx" -> OfKind({"main", "footnotes"})
      [] form = "xlsx" -> OfKind({"sheet"})
      [] form = "pptx" -> OfKind({"slide", "notes"})
      [] form = "epub" -> Range(Chapters) \ {0}
      [] form = "odf"  -> {FirstOf("content")}
      [] form = "none" -> {}
\* Every part of the document that can be read and says something is said,
\* once; slides by number and under consecutive headings, notes after them;
\* reading fails only when no part says anything, or the one that is the
\* document cannot be read (ooxml.cpp:498-790).
PartsCovered ==
    LET speaks == {i \in Content : zip[i].readable /\ (zip[i].kind = "sheet" \/ (Written(i) # << >> /\ ~HasHollow(i)))}
        saidAt(i) == {k \in DOMAIN said : said[k].part = i}
        slide(k) == zip[said[k].part].kind = "slide"
    IN /\ oPc = "done" =>
            /\ \A i \in speaks : Cardinality(saidAt(i)) = 1
            /\ \A j, k \in DOMAIN said : j < k =>
                 /\ slide(k) => slide(j) /\ zip[said[j].part].n < zip[said[k].part].n
                                /\ said[k].head = k /\ said[j].head = j
       /\ oPc = "failed" =>
            \/ speaks = {}
            \/ form = "docx" /\ ~zip[FirstOf("main")].readable

\* A document comes through whole: its rows as rows, its parts in order.
DocumentsWhole == RowsStayRecords /\ PartsCovered
=============================================================================
