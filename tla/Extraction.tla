----------------------------- MODULE Extraction -----------------------------
(* From a directory of files to documents: what decides how bytes become     *)
(* text (extract_bytes and extract_file in src/loaders/extract.cpp), one     *)
(* file (load_file) and the walk (load_directory in src/loaders/loaders.cpp).*)
(*                                                                           *)
(* An entry is [kind, path, ext, size, sig, nul, good, body]: a directory, *)
(* readable or not, a file or something else; path is the directories it is  *)
(* in; sig what its bytes begin with; nul whether they hold a zero byte; good *)
(* whether the reader of its format, or the caller's own, makes sense of it.  *)
EXTENDS Markup

CONSTANTS
    WantedExts,    \* include_ext
    SkippedDirs,   \* exclude_dirs
    MaxFileBytes,  \* max_file_bytes
    CustomExts,    \* the extensions with an extractor of the caller's
    Converters,    \* extension -> how many converters the table lists
    ScanRatio      \* 1024 in the code: characters a KB of a text layer

ASSUME ExtractionAssumption == MaxFileBytes \in Nat

VARIABLES
    entries,       \* the directory, in the order the walk meets it
    maxFiles,      \* max_files, 0 for no limit
    tools,         \* what the host's converters do: a sequence of "absent", "empty", "text"
    walked,        \* entries passed
    pruned,        \* the directories the walk does not go into
    docs,          \* [entry, how, text]
    reported,      \* on_file(path, ok)
    table,         \* a table written as CSV: [rows, crlf, ended, header, id]
    records,       \* what load_csv_text made of it: [ok, docs]
    xPc            \* "walk", "csv", "done"

extractionVars == <<entries, maxFiles, tools, walked, pruned, docs, reported, table, records, xPc>>

NoRecords == [ok |-> TRUE, docs |-> << >>]
NoText == [ok |-> FALSE, how |-> "none", text |-> << >>]
Text(how, text) == [ok |-> TRUE, how |-> how, text |-> text]

\* extract_bytes: the caller's extractor, then the content, then the extension;
\* binary content is refused.
\* Broken variant: a zero byte is looked for before the byte order mark.
ExtractBytesNulFirst(e) ==
    IF e.ext \in CustomExts THEN IF e.good THEN Text("custom", e.body) ELSE NoText
    ELSE IF e.sig = "zip" THEN IF e.good THEN Text("zip", e.body) ELSE NoText
    ELSE IF e.ext = ".html" THEN Text("html", HtmlText(e.body))
    ELSE IF e.ext = ".rtf" \/ e.sig = "rtf" THEN Text("rtf", RtfText(e.body))
    ELSE IF e.sig \in {"ole", "pdf"} \/ e.nul THEN NoText
    ELSE Text("plain", e.body)
ExtractBytes(e) ==
    IF e.ext \in CustomExts THEN IF e.good THEN Text("custom", e.body) ELSE NoText
    ELSE IF e.sig = "zip" THEN IF e.good THEN Text("zip", e.body) ELSE NoText
    ELSE IF e.ext = ".html" THEN Text("html", HtmlText(e.body))
    ELSE IF e.ext = ".rtf" \/ e.sig = "rtf" THEN Text("rtf", RtfText(e.body))
    ELSE IF e.sig \in {"ole", "pdf"} THEN NoText
    ELSE IF e.sig = "bom" THEN Text("bom", e.body)
    ELSE IF e.nul THEN NoText
    ELSE Text("plain", e.body)

\* The converters of an extension in turn: the first that gives text; a large
\* PDF that gives next to none is scanned images, and no later one is tried.
Scanned(e, out) == e.ext = ".pdf" /\ e.size >= ScanRatio /\ out # "text"
Convert(e) ==
    LET runs == {t \in 1 .. Min({Converters[e.ext], Len(tools)}) : tools[t] # "absent"}
        ends == {t \in runs : tools[t] = "text" \/ Scanned(e, tools[t])}
    IN IF ends = {} \/ tools[Min(ends)] # "text" THEN NoText ELSE Text("converter", e.body)

\* extract_file: bytes first, unless only a converter reads the format.
ExtractFile(e) ==
    LET converted == e.ext \in DOMAIN Converters
        native    == e.ext \in CustomExts \/ ~converted
    IN IF native /\ (ExtractBytes(e).ok \/ ~converted) THEN ExtractBytes(e) ELSE Convert(e)

\* load_file: an extraction with nothing in it fails.
LoadFile(e) == IF ExtractFile(e).text = << >> THEN NoText ELSE ExtractFile(e)

-----------------------------------------------------------------------------
ExtractionInit(inputs) ==
    /\ \E i \in inputs : entries = i.entries /\ maxFiles = i.maxFiles /\ tools = i.tools
                            /\ table = i.table
    /\ walked = 0 /\ pruned = {} /\ docs = << >> /\ reported = << >>
    /\ records = NoRecords /\ xPc = IF table.rows = << >> THEN "walk" ELSE "csv"

LoadCsv ==
    /\ xPc = "csv"
    /\ records' = LET got == CsvDocs(CsvWritten(table.rows, table.crlf, table.ended), table.header, table.id)
                  IN [ok |-> got.ok, docs |-> got.docs]
    /\ xPc' = "done"
    /\ UNCHANGED <<entries, maxFiles, tools, walked, pruned, docs, reported, table>>

At == entries[walked + 1]
Under(e, dirs) == Range(e.path) \cap dirs # {}
StepOver == /\ walked' = walked + 1
            /\ UNCHANGED <<entries, maxFiles, tools, docs, reported, table, records, xPc>>
Walking == xPc = "walk" /\ walked < Len(entries)

\* What is in a directory the walk did not go into is never met.
PassHidden == Walking /\ Under(At, pruned) /\ StepOver /\ UNCHANGED pruned

\* A directory on the list is not gone into; one that cannot be opened ends the
\* walk: increment() sets the iterator to the end, and the loop's test of the
\* error comes after the loop's condition.
EnterDir ==
    /\ Walking /\ ~Under(At, pruned) /\ At.kind \in {"dir", "closed"}
    /\ IF At.name \in SkippedDirs
       THEN pruned' = pruned \cup {At.name} /\ StepOver
       ELSE IF At.kind = "closed"
       THEN xPc' = "done" /\ UNCHANGED <<entries, maxFiles, tools, walked, pruned, docs, reported, table, records>>
       ELSE StepOver /\ UNCHANGED pruned

PassOther ==
    /\ Walking /\ ~Under(At, pruned)
    /\ At.kind = "other" \/ (At.kind = "file" /\ At.ext \notin WantedExts)
    /\ StepOver /\ UNCHANGED pruned

\* A file too large is reported and passed; at the limit the walk ends; one
\* that fails is reported, and the walk goes on.
VisitFile ==
    /\ Walking /\ ~Under(At, pruned) /\ At.kind = "file" /\ At.ext \in WantedExts
    /\ IF At.size > MaxFileBytes
       THEN /\ reported' = Append(reported, [entry |-> walked + 1, ok |-> FALSE])
            /\ walked' = walked + 1
            /\ UNCHANGED <<entries, maxFiles, tools, pruned, docs, table, records, xPc>>
       ELSE IF maxFiles > 0 /\ Len(docs) >= maxFiles
       THEN xPc' = "done" /\ UNCHANGED <<entries, maxFiles, tools, walked, pruned, docs, reported, table, records>>
       ELSE LET got == LoadFile(At)
            IN /\ reported' = Append(reported, [entry |-> walked + 1, ok |-> got.ok])
               /\ docs' = IF got.ok THEN Append(docs, [entry |-> walked + 1, how |-> got.how, text |-> got.text])
                          ELSE docs
               /\ walked' = walked + 1
               /\ UNCHANGED <<entries, maxFiles, tools, pruned, table, records, xPc>>

EndOfWalk ==
    /\ xPc = "walk" /\ walked = Len(entries)
    /\ xPc' = "done" /\ UNCHANGED <<entries, maxFiles, tools, walked, pruned, docs, reported, table, records>>

ExtractionNext == LoadCsv \/ PassHidden \/ EnterDir \/ PassOther \/ VisitFile \/ EndOfWalk

-----------------------------------------------------------------------------
Due(i) == /\ entries[i].kind = "file" /\ entries[i].ext \in WantedExts
          /\ ~Under(entries[i], SkippedDirs)
EntriesOf(list) == {list[k].entry : k \in DOMAIN list}
GoodOf(list) == {list[k].entry : k \in {j \in DOMAIN list : list[j].ok}}
Rising(list) == \A j, k \in DOMAIN list : j < k => list[j].entry < list[k].entry
\* Every wanted file the walk got to is reported once, in order, and gives a
\* document exactly when it is reported good; the walk gets to all of them
\* unless the limit is reached or a directory could not be opened
\* (loaders.cpp:258-297).  Binary content gives no text of its own, and text
\* behind a byte order mark is not binary (extract.cpp:150-215).
FilesAccounted ==
    /\ Rising(reported) /\ EntriesOf(reported) = {i \in 1 .. walked : Due(i)}
    /\ Rising(docs) /\ EntriesOf(docs) = GoodOf(reported)
    /\ xPc = "done" /\ walked < Len(entries) =>
         (maxFiles > 0 /\ Len(docs) = maxFiles) \/ entries[walked + 1].kind = "closed"
    /\ \A k \in DOMAIN reported :
         LET e == entries[reported[k].entry]
             plain == e.sig \in {"plain", "bom"} /\ e.ext \notin {".html", ".rtf"} \cup CustomExts \cup DOMAIN Converters
         IN plain /\ e.body # << >> /\ e.size <= MaxFileBytes => (reported[k].ok <=> e.sig = "bom" \/ ~e.nul)

\* The text of a marked-up file is what its reader would see, once and in order,
\* up to the first sign in it that HTML's reader misreads; a < in a script may
\* lose text but shows nothing of a script; and a file refused has no such text
\* (loaders.cpp:21-215); a table written as CSV is the table read, a document
\* a row, and one of uneven rows is refused (csv.cpp:20-140).
TextSurvives ==
    /\ xPc = "done" /\ table.rows # << >> => CsvExact(table.rows, table.header, table.id, records)
    /\ \A k \in DOMAIN docs :
         LET body == entries[docs[k].entry].body
         IN CASE docs[k].how = "html" -> HtmlExact(body, docs[k].text)
              [] docs[k].how = "rtf"  -> MarkupExact(body, RtfEvents(body), docs[k].text, Len(body))
              [] OTHER -> TRUE
    /\ \A k \in DOMAIN reported :
         LET e == entries[reported[k].entry]
         IN ~reported[k].ok /\ e.size <= MaxFileBytes /\ e.sig = "plain" =>
              /\ e.ext = ".html" => HtmlExact(e.body, << >>)
              /\ e.ext = ".rtf"  => MarkupExact(e.body, RtfEvents(e.body), << >>, Len(e.body))
=============================================================================
