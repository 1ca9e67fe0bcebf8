------------------------------- MODULE Markup -------------------------------
(* The text in HTML and RTF (html_to_text and rtf_to_text in                 *)
(* src/loaders/loaders.cpp) and the records in CSV (src/loaders/csv.cpp),    *)
(* each with the writer whose text it reads.                                 *)
(*                                                                           *)
(* A marked-up body is a sequence of items [item, n]: "word", a visible      *)
(* word; "block", n words in a block of their own; "hidden", an element or   *)
(* group that is not content, with n words, a nested one and what ends the   *)
(* other kind inside it; "group", one that is; "stray", an end of nothing.   *)
(* HTML has three more, with a sign of its own that is not a tag: "code", a  *)
(* script that compares with <, and with > too if n = 2; "comment", which    *)
(* has a > inside if n = 2; "less", a visible < between two words.           *)
EXTENDS Integers, Sequences, FiniteSets, FiniteSetsExt, SequencesExt, TLC

MarkWord(i, n, seen) == [item |-> i, n |-> n, seen |-> seen]
MarkWords(i, m, seen) == [n \in 1 .. m |-> <<"word", MarkWord(i, n, seen)>>]
BREAK == <<"break">>

\* HTML as the symbols the reader tells apart: the signs, the names of tags and
\* words.  A script may hold a style's end, or a sign that is no tag.
LT == <<"lt">>
GT == <<"gt">>
SLASH == <<"slash">>
Tag(name) == <<LT, <<"name", name>>, GT>>
EndTag(name) == <<LT, SLASH, <<"name", name>>, GT>>
HtmlEvents(body) ==
    FlattenSeq([i \in DOMAIN body |->
      LET b == body[i]
          hidden(n) == <<<<"word", MarkWord(i, n, FALSE)>>>>
          visible(n) == <<<<"word", MarkWord(i, n, TRUE)>>>>
      IN CASE b.item = "word"    -> visible(1)
           [] b.item = "block"   -> Tag("p") \o MarkWords(i, b.n, TRUE) \o EndTag("p")
           [] b.item = "group"   -> Tag("b") \o MarkWords(i, b.n, TRUE) \o EndTag("b")
           [] b.item = "hidden"  -> Tag("script") \o MarkWords(i, b.n, FALSE) \o Tag("style")
                                      \o EndTag("style") \o hidden(0) \o EndTag("script")
           [] b.item = "code"    -> Tag("script") \o hidden(1) \o <<LT>> \o hidden(2)
                                      \o (IF b.n = 2 THEN <<GT>> \o hidden(3) ELSE << >>) \o EndTag("script")
           [] b.item = "comment" -> <<LT, <<"bang">>>> \o hidden(1)
                                      \o (IF b.n = 2 THEN <<GT>> \o hidden(2) ELSE << >>) \o <<GT>>
           [] b.item = "less"    -> visible(1) \o <<LT>> \o visible(2)
           [] b.item = "stray"   -> EndTag("script")])

\* html_to_text: inside a skipped element nothing counts but its own end.
\* Broken variant: any end tag ends the skipping.
EndsSkippingAny(until, closing, name) == closing
EndsSkipping(until, closing, name) == closing /\ name = until

\* What lies between a < and the next > is a tag, whatever it is.
HtmlTag(s) ==
    LET closing == s.tag # << >> /\ Head(s.tag) = SLASH
        rest == IF closing THEN Tail(s.tag) ELSE s.tag
        name == IF rest # << >> /\ Head(rest)[1] = "name" THEN Head(rest)[2] ELSE ""
        t == [s EXCEPT !.inTag = FALSE, !.tag = << >>]
    IN CASE s.until # "" -> IF EndsSkipping(s.until, closing, name) THEN [t EXCEPT !.until = ""] ELSE t
         [] s.until = "" /\ name \in {"script", "style"} /\ ~closing -> [t EXCEPT !.until = name]
         [] s.until = "" /\ name = "p" /\ s.out # << >> /\ Last(s.out) # BREAK -> [t EXCEPT !.out = Append(@, BREAK)]
         [] OTHER -> t

\* A < opens a tag also where text is skipped; one with no > behind it is the
\* end of the text.
HtmlSymbol(s, c) ==
    CASE s.inTag /\ c = GT  -> HtmlTag(s)
      [] s.inTag /\ c # GT  -> [s EXCEPT !.tag = Append(@, c)]
      [] ~s.inTag /\ c = LT -> [s EXCEPT !.inTag = TRUE]
      [] ~s.inTag /\ c # LT -> IF s.until = "" THEN [s EXCEPT !.out = Append(@, c)] ELSE s
HtmlText(body) ==
    FoldLeft(HtmlSymbol, [out |-> << >>, until |-> "", inTag |-> FALSE, tag |-> << >>], HtmlEvents(body)).out

\* Words as RTF: groups, a known destination or one marked optional.
RtfEvents(body) ==
    FlattenSeq([i \in DOMAIN body |->
      LET b == body[i]
      IN CASE b.item = "word"   -> MarkWords(i, 1, TRUE)
           [] b.item = "block"  -> MarkWords(i, b.n, TRUE) \o << <<"par">> >>
           [] b.item = "group"  -> << <<"{">>, <<"{">> >> \o MarkWords(i, b.n, TRUE) \o << <<"}">>, <<"}">> >>
           [] b.item = "hidden" -> << <<"{">> >>
                                     \o (IF b.n % 2 = 1 THEN << <<"dest">> >> ELSE << <<"star">>, <<"other">> >>)
                                     \o MarkWords(i, b.n, FALSE)
                                     \o << <<"{">>, <<"par">>, <<"word", MarkWord(i, 0, FALSE)>>, <<"}">> >>
                                     \o << <<"word", MarkWord(i, -1, FALSE)>>, <<"}">> >>
           [] b.item = "stray"  -> << <<"}">> >>])

\* rtf_to_text: a group is skipped when it is a destination or inside one.
RtfEvent(s, e) ==
    LET skipping == Last(s.stack)
        skip == [s EXCEPT !.stack = Append(Front(@), TRUE), !.star = FALSE]
    IN CASE e = <<"{">>      -> [s EXCEPT !.stack = Append(@, skipping)]
         [] e = <<"}">>      -> IF Len(s.stack) > 1 THEN [s EXCEPT !.stack = Front(@)] ELSE s
         [] e = <<"star">>   -> [s EXCEPT !.star = TRUE]
         [] e[1] = "word"    -> IF skipping THEN s ELSE [s EXCEPT !.out = Append(@, e)]
         [] s.star \/ e = <<"dest">> -> skip
         [] e = <<"par">> /\ ~skipping /\ s.out # << >> /\ Last(s.out) # BREAK ->
              [s EXCEPT !.out = Append(@, BREAK)]
         [] OTHER -> s
RtfText(body) == FoldLeft(RtfEvent, [out |-> << >>, stack |-> <<FALSE>>, star |-> FALSE], RtfEvents(body)).out

\* The items whose sign the HTML reader takes for a tag that it is not, or for
\* the end of a comment: from there on it may lose text or show what is hidden.
Misread(b) == b.item = "less" \/ (b.item = "code" /\ b.n = 1) \/ (b.item = "comment" /\ b.n = 2)
SoundItems(body) == Min({i \in DOMAIN body : Misread(body[i])} \cup {Len(body) + 1}) - 1

\* What a reader of the body should get of its first m items: their visible
\* words, in order, and two neighbours on one line only if no block's edge is
\* between them; and, if these are all, nothing else.
IsWordSymbol(e) == e[1] = "word"
Visible(events) == SelectSeq(events, LAMBDA e : IsWordSymbol(e) /\ e[2].seen)
MarkupExact(body, events, text, m) ==
    LET upTo(e) == IsWordSymbol(e) /\ e[2].item <= m
        line(k) == Cardinality({j \in 1 .. k : text[j] = BREAK})
    IN /\ SelectSeq(text, upTo) = SelectSeq(Visible(events), upTo)
       /\ m = Len(body) => \A j \in DOMAIN text : IsWordSymbol(text[j]) \/ text[j] = BREAK
       /\ \A j, k \in DOMAIN text : j < k /\ upTo(text[j]) /\ upTo(text[k])
            /\ body[text[j][2].item].item = "block" /\ text[j][2].item # text[k][2].item
              => line(j) # line(k)

\* HTML is read exactly up to what is misread; if only scripts are, they lose
\* what follows them, but nothing hidden is shown.
HtmlExact(body, text) ==
    /\ MarkupExact(body, HtmlEvents(body), text, SoundItems(body))
    /\ (\A i \in DOMAIN body : Misread(body[i]) => body[i].item = "code")
         => \A j \in DOMAIN text : text[j] = BREAK \/ (IsWordSymbol(text[j]) /\ text[j][2].seen)

-----------------------------------------------------------------------------
\* A CSV field is a sequence of these characters; a writer quotes one that needs it.
QUOTE == "quote"
COMMA == "comma"
LF == "lf"
CR == "cr"
Quoted(field) ==
    IF \A i \in DOMAIN field : field[i] \notin {QUOTE, COMMA, LF, CR} THEN field
    ELSE <<QUOTE>> \o FlattenSeq([i \in DOMAIN field |-> IF field[i] = QUOTE THEN <<QUOTE, QUOTE>> ELSE <<field[i]>>])
           \o <<QUOTE>>
CsvWritten(rows, crlf, ended) ==
    LET line(r) == FlattenSeq([c \in DOMAIN rows[r] |->
                     (IF c = 1 THEN << >> ELSE <<COMMA>>) \o Quoted(rows[r][c])])
        end(r)  == IF r = Len(rows) /\ ~ended THEN << >> ELSE IF crlf THEN <<CR, LF>> ELSE <<LF>>
    IN FlattenSeq([r \in DOMAIN rows |-> line(r) \o end(r)])

\* next_record, from pos: [fields, pos]; a line's end inside quotes is data.
NextRecord(csv, pos) ==
    LET step(s, p) ==
          CASE s.end # 0 -> s
            [] s.doubled -> [s EXCEPT !.doubled = FALSE]
            [] s.quoted /\ csv[p] = QUOTE /\ p < Len(csv) /\ csv[p + 1] = QUOTE ->
                 [s EXCEPT !.field = Append(@, QUOTE), !.doubled = TRUE]
            [] csv[p] = QUOTE -> [s EXCEPT !.quoted = ~@]
            [] s.quoted -> [s EXCEPT !.field = Append(@, csv[p])]
            [] csv[p] = COMMA -> [s EXCEPT !.fields = Append(@, s.field), !.field = << >>]
            [] csv[p] = CR -> s
            [] csv[p] = LF -> [s EXCEPT !.end = p]
            [] OTHER -> [s EXCEPT !.field = Append(@, csv[p])]
        end == FoldLeft(step, [fields |-> << >>, field |-> << >>, quoted |-> FALSE, doubled |-> FALSE, end |-> 0],
                        [i \in 1 .. Len(csv) + 1 - pos |-> pos + i - 1])
    IN [fields |-> Append(end.fields, end.field), pos |-> IF end.end = 0 THEN Len(csv) + 1 ELSE end.end + 1]

\* load_csv_text: a document a record, [fields, row, id]; a record of another
\* width than the header is an error, an empty line only counts as a row.
CsvDocs(csv, hasHeader, idColumn) ==
    LET header == IF hasHeader THEN NextRecord(csv, 1) ELSE [fields |-> << >>, pos |-> 1]
        row(s, unused) ==
          IF s.pos > Len(csv) \/ ~s.ok THEN s
          ELSE LET next == NextRecord(csv, s.pos)
                   f    == next.fields
                   t    == [s EXCEPT !.pos = next.pos, !.row = @ + 1]
                   id   == IF idColumn \in DOMAIN f /\ f[idColumn] # << >> THEN f[idColumn] ELSE <<ToString(t.row)>>
               IN IF f = << << >> >> THEN t
                  ELSE IF s.width > 0 /\ Len(f) # s.width THEN [t EXCEPT !.ok = FALSE, !.docs = << >>]
                  ELSE [t EXCEPT !.width = Len(f),
                                 !.docs = Append(@, [fields |-> f, row |-> t.row, id |-> id])]
        start == [pos |-> header.pos, row |-> 0, ok |-> ~hasHeader \/ csv # << >>,
                  width |-> Len(header.fields), docs |-> << >>]
    IN FoldLeft(row, start, [i \in 1 .. Len(csv) |-> i])

\* The table written is the table read: a document a row, in order, with the
\* row's fields as they were, numbered by its line in the table; ids differ
\* unless the table's own do, or one is the number of a row without.
CsvExact(rows, hasHeader, idColumn, got) ==
    LET from  == IF hasHeader THEN 2 ELSE 1
        full  == {r \in from .. Len(rows) : rows[r] # << << >> >>}
        even  == \A r \in full : Len(rows[r]) = Len(rows[IF hasHeader THEN 1 ELSE Min(full)])
        nth(r) == Cardinality({q \in full : q <= r})
    IN IF ~got.ok THEN ~even \/ rows = << >> \/ CsvWritten(rows, FALSE, FALSE) = << >>
       ELSE /\ even
            /\ Len(got.docs) = Cardinality(full)
            /\ \A r \in full :
                 /\ got.docs[nth(r)].fields = rows[r]
                 /\ got.docs[nth(r)].row = r - from + 1
            /\ (\A q, r \in full : q # r /\ idColumn # 0 =>
                 rows[q][idColumn] \notin (IF rows[r][idColumn] # << >> THEN {rows[r][idColumn]}
                                           ELSE {<<ToString(r - from + 1)>>}))
                 => Cardinality({got.docs[i].id : i \in DOMAIN got.docs}) = Cardinality(full)
=============================================================================
