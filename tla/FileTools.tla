----------------------------- MODULE FileTools ------------------------------
(***************************************************************************)
(* The tools with which the agent reads documents                          *)
(* (src/workspace_agent/file_tools/, builtin_mcp.py): an agent pages       *)
(* through one file by the hints that the answers end with, searches it,   *)
(* asks for its outline, and turns pages of PDFs into images.              *)
(*                                                                         *)
(* A file is what the tools' control looks at: the used rows and the print *)
(* area of a sheet, level and text of a document's paragraphs, what of a   *)
(* slide a query matches, the number of pages.  What is read from rows,    *)
(* paragraphs, slides and pages is their numbers.                          *)
(*                                                                         *)
(* The SDK makes every parameter that is declared in builtin_mcp.py a      *)
(* required one and lets others pass; a handler reads what it knows.       *)
(***************************************************************************)
EXTENDS Integers, FiniteSets, SequencesExt, FiniteSetsExt

CONSTANTS
    Files,         \* the files the agent may be asked about
    PageSize,      \* DEFAULT_MAX_PARAGRAPHS, DEFAULT_MAX_SLIDES, the "1-10" of the PDF reader
    MaxHits,       \* max_hits
    MaxImages,     \* pages that are converted at once
    MaxItem,       \* bound on the numbers the agent asks for
    Pdfs,          \* two PDF files to be converted, as [stem, pages]
    NoHint

\* A sheet's rows from the first to the last.
Area == (Nat \ {0}) \X (Nat \ {0})
Sheet == [kind : {"sheet"}, used : Area, print : Area \cup {<<>>}, match : SUBSET Nat]
Document == [kind : {"document"}, tables : Seq(BOOLEAN),
             paras : Seq([level : Nat, chars : Nat, match : BOOLEAN])]
Deck == [kind : {"slides"}, slides : Seq([title : BOOLEAN, text : BOOLEAN, notes : BOOLEAN])]
PdfFile == [kind : {"pdf"}, total : Nat]

ASSUME FilesAssumption == Files \subseteq Sheet \cup Document \cup Deck \cup PdfFile
ASSUME SizesAssumption ==
    {PageSize, MaxHits, MaxImages, MaxItem} \subseteq Nat \ {0} /\ NoHint \notin Nat

VARIABLES
    file,          \* the file that is read
    at,            \* what the agent is doing: "start", "reading", "read", "failed"
    from,          \* the first number it asked for
    hint,          \* where the last answer told it to go on, or NoHint
    shown,         \* numbers of the items shown so far, in order
    hits,          \* answer of the last search, or NoHint
    generated,     \* generated[path]: the page whose image the path holds
    reported       \* paths and the pages they were reported to hold

reading == <<at, from, hint, shown>>
toolVars == <<file, at, from, hint, shown, hits, generated, reported>>

\* A path is made of the stem of the PDF's name and the number of the page.
Path == [stem : {p.stem : p \in Pdfs}, page : 1..MaxItem]

ToolInit ==
    /\ file \in Files
    /\ at = "start" /\ from = 0 /\ hint = NoHint
    /\ shown = <<>> /\ hits = NoHint
    /\ generated = <<>> /\ reported = {}

Numbers(a, b) == [i \in 1..(IF b < a THEN 0 ELSE b - a + 1) |-> a + i - 1]
\* sorted(): the i-th number is the one that i - 1 others are below.
Sorted(S) ==
    [i \in 1..Cardinality(S) |-> CHOOSE n \in S : Cardinality({m \in S : m < n}) = i - 1]

(***************************************************************************)
(* Paging.  Each reader returns what is shown and whether there is more.   *)
(***************************************************************************)

\* _get_print_area(), _get_used_range().
SheetArea == IF file.print # <<>> THEN file.print ELSE file.used
\* get_sheet_csv(): both ends are declared, so that max_rows does not count.
SheetPage(start, end) == LET a == SheetArea  last == Min({end, a[2]}) IN
    [first |-> Max({start, a[1]}), last |-> last, more |-> last < a[2]]

LevelOf(i) == file.paras[i].level
\* To the next heading of the same or a higher level.
SectionEnd(i) == Min({j - 1 : j \in {k \in i+1..Len(file.paras) : LevelOf(k) \in 1..LevelOf(i)}}
                     \cup {Len(file.paras)})
Cut(first, last) == IF last - first + 1 > PageSize THEN first + PageSize - 1 ELSE last
\* get_document_content(), by paragraph numbers or by a heading.
DocumentPage(start, end) == LET total == Len(file.paras)
                                first == Max({1, start})
                                last == Cut(first, Min({total, end})) IN
    [first |-> first, last |-> last, more |-> last < total]
SectionPage(i) == LET last == Cut(i, SectionEnd(i)) IN
    [first |-> i, last |-> last, more |-> last < Len(file.paras)]

\* _parse_slides(), _parse_pages(): "a-b" is clipped, a single number is not.
ParsedPart(part, total) == IF part.dash THEN part.first..Min({part.last, total}) ELSE {part.first}
ParsedAll(spec, total) == Sorted(UNION {ParsedPart(part, total) : part \in spec})
\* What exists of them, at most max of the list; the end is the largest that was asked.
SlidesPage(spec) == LET total == Len(file.slides)
                        asked == ParsedAll(spec, total)
                        kept == SubSeq(asked, 1, Min({PageSize, Len(asked)}))
                        last == IF kept = <<>> THEN 0 ELSE Last(kept) IN
    [numbers |-> Sorted(Range(kept) \cap 1..total), last |-> last, more |-> last < total]
Dash(a, b) == {[dash |-> TRUE, first |-> a, last |-> b]}
Single(a) == [dash |-> FALSE, first |-> a, last |-> a]

\* Mutant: the hint names the last item shown.
AnswerAgain(first, numbers, last, more) ==
    /\ shown' = shown \o numbers
    /\ hint' = IF more THEN last ELSE NoHint
    /\ at' = IF more THEN "reading" ELSE "read"
    /\ from' = IF at = "start" THEN first ELSE from
    /\ UNCHANGED <<file, hits, generated, reported>>

\* An answer: what it shows is added to what was, and its hint is kept.
Answer(first, numbers, last, more) ==
    /\ shown' = shown \o numbers
    /\ hint' = IF more THEN last + 1 ELSE NoHint
    /\ at' = IF more THEN "reading" ELSE "read"
    /\ from' = IF at = "start" THEN first ELSE from
    /\ UNCHANGED <<file, hits, generated, reported>>

\* The agent starts somewhere and goes on where it was told; the end is its own choice.
Asks(start, end) == start =< end /\ (at = "start" \/ (at = "reading" /\ start = hint))

ReadSheet(start, end) == LET p == SheetPage(start, end) IN
    /\ file.kind = "sheet" /\ Asks(start, end)
    /\ Answer(start, Numbers(p.first, p.last), p.last, p.more)

ReadDocument(start, end) == LET p == DocumentPage(start, end) IN
    /\ file.kind = "document" /\ Asks(start, end)
    /\ Answer(start, Numbers(p.first, p.last), p.last, p.more)

ReadSection(i) == LET p == SectionPage(i) IN
    /\ file.kind = "document" /\ at = "start"
    /\ i \in 1..Len(file.paras) /\ LevelOf(i) > 0
    /\ Answer(i, Numbers(p.first, p.last), p.last, p.more)

\* The declared start_slide and end_slide are not read: the first answer is of the
\* default; the hint names the parameter that is.
ReadSlides(start, end) == LET p == SlidesPage(IF at = "start" THEN Dash(1, PageSize)
                                              ELSE Dash(hint, hint + PageSize - 1)) IN
    /\ file.kind = "slides" /\ Asks(start, end)
    /\ Answer(1, p.numbers, p.last, p.more)

\* The same of start_page and end_page, and no hint: always the first pages.
ReadPdf(start, end) ==
    /\ file.kind = "pdf" /\ at = "start" /\ start =< end
    /\ Answer(start, ParsedAll(Dash(1, PageSize), file.total), file.total, FALSE)

\* local_file_tool_handler(): old format, library or file missing, broken content.
ReadFails ==
    /\ at \in {"start", "reading"}
    /\ at' = "failed"
    /\ UNCHANGED <<file, from, hint, shown, hits, generated, reported>>

(***************************************************************************)
(* Searching.                                                              *)
(***************************************************************************)

Place(where, n, match) == [where |-> where, n |-> n, match |-> match]
\* In the order of the loops: rows; paragraphs, then rows of tables; of each slide
\* title, text and notes.
Places == CASE file.kind = "sheet" ->
                 [i \in 1..(file.used[2] - file.used[1] + 1) |->
                    LET r == file.used[1] + i - 1 IN Place("row", r, r \in file.match)]
            [] file.kind = "document" ->
                 [i \in 1..Len(file.paras) |-> Place("para", i, file.paras[i].match)]
                 \o [i \in 1..Len(file.tables) |-> Place("table", i, file.tables[i])]
            [] file.kind = "slides" ->
                 FlattenSeq([i \in 1..Len(file.slides) |-> LET s == file.slides[i] IN
                    <<Place("title", i, s.title), Place("text", i, s.title \/ s.text), Place("notes", i, s.notes)>>])
            [] OTHER -> <<>>

\* Mutant: the last one is left out.
AddHitShort(found, p) == IF p.match /\ Len(found) < MaxHits - 1 THEN Append(found, p) ELSE found
AddHit(found, p) == IF p.match /\ Len(found) < MaxHits THEN Append(found, p) ELSE found
FoundIn(places) ==
    LET Found[n \in 0..Len(places)] == IF n = 0 THEN <<>> ELSE AddHit(Found[n - 1], places[n])
    IN Found[Len(places)]

Search ==
    /\ file.kind # "pdf"
    /\ hits' = FoundIn(Places)
    /\ UNCHANGED <<file, reading, generated, reported>>

(***************************************************************************)
(* get_document_info(): characters under each heading.                     *)
(***************************************************************************)

\* What is counted belongs to the last heading found.
Close(s) == IF s.done = <<>> THEN <<>> ELSE [s.done EXCEPT ![Len(s.done)] = s.open]
\* A heading's count is set when the next one comes.
PassOver(s, p) == IF p.level = 0 THEN [s EXCEPT !.open = @ + p.chars]
                  ELSE [done |-> Append(Close(s), 0), open |-> p.chars]
Passed(paras) ==
    LET Pass[n \in 0..Len(paras)] ==
            IF n = 0 THEN [done |-> <<>>, open |-> 0] ELSE PassOver(Pass[n - 1], paras[n])
    IN Pass[Len(paras)]

\* Mutant: the last heading keeps its zero.
HeadingCharsOpen(paras) == Passed(paras).done
\* The last one's count is set at the end.
HeadingChars(paras) == Close(Passed(paras))

(***************************************************************************)
(* convert_pdf_to_images(): the directory is shared by all PDFs.           *)
(***************************************************************************)

\* Mutant: images are numbered as they come.
PathOfCount(pdf, n, k) == [stem |-> pdf.stem, page |-> k]
PathOf(pdf, n, k) == [stem |-> pdf.stem, page |-> n]

\* page_numbers is not read either, but a caller may name pages: the list is cut before
\* its numbers are compared with the file's.
Convert(pdf, spec) == LET asked == ParsedAll(spec, pdf.pages)
                          kept == SubSeq(asked, 1, Min({MaxImages, Len(asked)}))
                          todo == {k \in 1..Len(kept) : kept[k] \in 1..pdf.pages}
                          paths == {PathOf(pdf, kept[k], k) : k \in todo} IN
    /\ generated' = [p \in DOMAIN generated \cup paths |->
                       IF p \in paths
                       THEN LET k == CHOOSE j \in todo : PathOf(pdf, kept[j], j) = p
                            IN [pdf |-> pdf, page |-> kept[k]]
                       ELSE generated[p]]
    /\ reported' = reported \cup
         {<<PathOf(pdf, kept[k], k), [pdf |-> pdf, page |-> kept[k]]>> : k \in todo}
    /\ UNCHANGED <<file, reading, hits>>

-----------------------------------------------------------------------------

\* "a-b" and "a,b".
Specs == {Dash(a, b) : a, b \in 1..MaxItem} \cup {{Single(a), Single(b)} : a, b \in 1..MaxItem}

ReadStep ==
    \/ \E start, end \in 1..MaxItem :
          \/ ReadSheet(start, end) \/ ReadDocument(start, end)
          \/ ReadSlides(start, end) \/ ReadPdf(start, end)
    \/ \E i \in 1..MaxItem : ReadSection(i)

ToolNext ==
    \/ ReadStep \/ ReadFails \/ Search
    \/ \E pdf \in Pdfs, spec \in Specs : file.kind = "pdf" /\ Convert(pdf, spec)

ToolSpec == ToolInit /\ [][ToolNext]_toolVars

-----------------------------------------------------------------------------

\* The first and the last number there is to be read from where the agent began.
FirstItem == IF file.kind = "sheet" /\ from < SheetArea[1] THEN SheetArea[1] ELSE from
LastItem == CASE file.kind = "sheet" -> SheetArea[2]
           [] file.kind = "document" -> Len(file.paras)
           [] file.kind = "slides" -> Len(file.slides)
           [] file.kind = "pdf" -> file.total

(***************************************************************************)
(* An agent that follows the hints to their end has seen everything from   *)
(* where it began, each item once and in order; of a PDF, the first pages  *)
(* (get_sheet_csv(), get_document_content(), get_slides_content()).        *)
(***************************************************************************)
PagesCover == at = "read" =>
    shown = IF file.kind = "pdf" THEN Numbers(1, IF LastItem < PageSize THEN LastItem ELSE PageSize)
            ELSE Numbers(FirstItem, LastItem)

(***************************************************************************)
(* A search finds the first matches in the order of the document, and less *)
(* than the limit only if there are no more (search_workbook(),            *)
(* search_document(), search_presentation()).                              *)
(***************************************************************************)
Matches(places) == Sorted({i \in 1..Len(places) : places[i].match})
SearchComplete == hits # NoHint =>
    LET all == Matches(Places)
    IN hits = [k \in 1..(IF Len(all) < MaxHits THEN Len(all) ELSE MaxHits) |-> Places[all[k]]]

(***************************************************************************)
(* In the outline each heading has the characters up to the next heading,  *)
(* so that none of the text below the first heading is left out            *)
(* (get_document_info()).                                                  *)
(***************************************************************************)
CharsIn(paras, first, last) ==
    LET Sum[n \in 0..last] == IF n < first THEN 0 ELSE Sum[n - 1] + paras[n].chars
    IN Sum[last]
Heads(paras) == Sorted({i \in 1..Len(paras) : paras[i].level > 0})
OutlineExact == file.kind = "document" =>
    LET heads == Heads(file.paras)
        Upto(k) == IF k = Len(heads) THEN Len(file.paras) ELSE heads[k+1] - 1
    IN HeadingChars(file.paras) =
         [k \in 1..Len(heads) |-> CharsIn(file.paras, heads[k], Upto(k))]

(***************************************************************************)
(* An image path that a tool has reported holds the page it was reported   *)
(* for, unless a PDF of the same stem was converted as well                *)
(* (convert_pdf_to_images_handler()).                                      *)
(***************************************************************************)
ImagesKept == \A r \in reported :
    \/ generated[r[1]] = r[2]
    \/ \E q \in reported : q[2].pdf # r[2].pdf /\ q[2].pdf.stem = r[2].pdf.stem

=============================================================================
