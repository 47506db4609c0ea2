------------------------------ MODULE Loaders ------------------------------
(***************************************************************************)
(* The loaders: generators that turn the elements of a file (rows, items,  *)
(* paragraphs, tables) into documents, one element at a time.              *)
(*                                                                         *)
(* A file is the sequence of its elements; a document is made of the       *)
(* elements at some positions of it.  The libraries that parse the formats *)
(* deliver the elements or raise.  Texts are reduced to their lengths, and *)
(* cutting one that is too long does not change where it goes.             *)
(***************************************************************************)
EXTENDS Integers, Sequences

CONSTANTS
    Types,       \* kinds of file: "xlsx", "csv", "json", "pdf", "docx", "text"
    MaxElements, \* bound: the elements of a file
    Lengths,     \* bound: lengths of paragraphs and lines; 0 is blank
    TableSizes,  \* bound: numbers of rows, other than blank ones, of docx tables
    MaxRows,     \* _MAX_TABLE_ROWS
    MaxBlanks,   \* _MAX_CONSECUTIVE_EMPTY_ROWS
    FlushAt      \* max_chunk_chars

ASSUME LoadersAssumption ==
    /\ Types \subseteq {"xlsx", "csv", "json", "pdf", "docx", "text"}
    /\ Lengths \subseteq Nat /\ TableSizes \subseteq Nat
    /\ MaxRows \in Nat /\ MaxBlanks \in Nat \ {0} /\ FlushAt \in Nat \ {0}

VARIABLES
    type,     \* by the extension
    status,   \* "opening", "reading", "done" or "failed"
    file,     \* history: the elements met so far
    total,    \* history: what the elements up to each position sum up to, by kind
    sheet,    \* local variables of the two generators that read the sheet
    left,     \* what the _RowBudget has left
    pending,  \* `accumulated`: positions of paragraphs not yet in a document
    size,     \* `current_len`: the length of their texts
    docs      \* the documents yielded

loaderVars == <<type, status, file, total, sheet, left, pending, size, docs>>

\* Elements.  A title is a row with one filled cell among several; a wide row has
\* cells only beyond the first _MAX_CELLS_PER_ROW.
Element(k, n) == [kind |-> k, n |-> n]
Rows == {Element(k, 0) : k \in {"blank", "title", "row", "wide"}}
Items == {Element(k, 0) : k \in {"blank", "row"}}
Paragraphs == {Element("para", n) : n \in Lengths}
Tables == {Element("table", n) : n \in TableSizes}
SheetBreak == Element("sheet", 0)

NewSheet == [header |-> FALSE, started |-> FALSE, blanks |-> 0, closed |-> FALSE]
Doc(positions, rows) == [of |-> positions, rows |-> rows]

LoaderInit ==
    /\ type \in Types
    /\ status = "opening"
    /\ file = <<>> /\ total = <<>>
    /\ sheet = NewSheet
    /\ left = MaxRows
    /\ pending = <<>> /\ size = 0
    /\ docs = <<>>

-----------------------------------------------------------------------------
(* Opening, and the next element. *)

\* check_zip_expansion comes first also for a PDF, which is no zip archive.
Open ==
    /\ status = "opening"
    /\ type # "pdf"
    /\ status' = "reading"
    /\ UNCHANGED <<type, file, total, sheet, left, pending, size, docs>>

\* The file is refused, or reading it raises: what was yielded is with the caller.
LoaderFails ==
    /\ status \in {"opening", "reading"}
    /\ status' = "failed"
    /\ UNCHANGED <<type, file, total, sheet, left, pending, size, docs>>

\* The sums of the lengths of paragraphs, and of the rows of tables, up to position i.
Upto(i) == IF i = 0 THEN [para |-> 0, table |-> 0] ELSE total[i]

Here == Len(file) + 1   \* the position of the element that is met

Meet(e) ==
    /\ status = "reading"
    /\ Len(file) < MaxElements
    /\ file' = Append(file, e)
    /\ total' = Append(total, [k \in {"para", "table"} |->
                                 Upto(Len(file))[k] + IF e.kind = k THEN e.n ELSE 0])
    /\ UNCHANGED <<type, status>>

-----------------------------------------------------------------------------
(* Tables: _stream_sheet_rows (xlsx only) under _table_documents. *)

\* Mutant of AfterBlank: the rows are counted from the top of the sheet.
AfterAnyBlank ==
    [sheet EXCEPT !.blanks = @ + 1, !.closed = sheet.blanks + 1 >= MaxBlanks]

\* A blank row ends the sheet if it is the MaxBlanks-th in a row after data.
AfterBlank ==
    IF ~sheet.started THEN sheet
    ELSE [sheet EXCEPT !.blanks = @ + 1, !.closed = sheet.blanks + 1 >= MaxBlanks]

AfterData == [sheet EXCEPT !.started = TRUE, !.blanks = 0]

\* A row that becomes a document, or finds the budget exhausted.
Spend(s) ==
    IF left > 0
    THEN left' = left - 1 /\ docs' = Append(docs, Doc(<<Here>>, 1)) /\ sheet' = s
    ELSE sheet' = [s EXCEPT !.closed = TRUE] /\ UNCHANGED <<left, docs>>

ReadRow(e) ==
    /\ type \in {"xlsx", "csv"}
    /\ Meet(e)
    /\ CASE sheet.closed ->
                UNCHANGED <<sheet, left, docs>>
         [] ~sheet.closed /\ e.kind = "blank" ->
                /\ sheet' = IF type = "xlsx" THEN AfterBlank ELSE sheet
                /\ UNCHANGED <<left, docs>>
         [] ~sheet.closed /\ ~sheet.header /\ e.kind # "blank" ->
                /\ sheet' = [AfterData EXCEPT !.header = e.kind # "title"]
                /\ UNCHANGED <<left, docs>>
         [] ~sheet.closed /\ sheet.header /\ e.kind = "wide" ->
                sheet' = AfterData /\ UNCHANGED <<left, docs>>
         [] OTHER -> Spend(AfterData)
    /\ UNCHANGED <<pending, size>>

\* The next visible sheet; the budget is that of the file.
NextSheet ==
    /\ type = "xlsx"
    /\ Meet(SheetBreak)
    /\ sheet' = NewSheet
    /\ UNCHANGED <<left, pending, size, docs>>

\* An item of a list; an object at the top level counts as one item.
ReadItem(e) ==
    /\ type = "json"
    /\ Meet(e)
    /\ IF sheet.closed \/ e.kind = "blank" THEN UNCHANGED <<sheet, left, docs>>
                                            ELSE Spend(sheet)
    /\ UNCHANGED <<pending, size>>

-----------------------------------------------------------------------------
(* Texts: _docx_loader and _text_loader. *)

Full(n) == n >= FlushAt

\* The pending paragraphs, if any, become a document.
Flushed == IF pending = <<>> THEN docs ELSE Append(docs, Doc(pending, 0))

\* Mutant of Emptied: the length is not reset.
EmptiedNotCounted == pending' = <<>> /\ UNCHANGED size

Emptied == pending' = <<>> /\ size' = 0

\* A paragraph or line that is not blank.
ReadText(e) ==
    LET now == Append(pending, Here) IN
    IF Full(size + e.n)
    THEN docs' = Append(docs, Doc(now, 0)) /\ Emptied
    ELSE pending' = now /\ size' = size + e.n /\ UNCHANGED docs

ReadParagraph(e) ==
    /\ type \in {"docx", "text"}
    /\ Meet(e)
    /\ IF e.n = 0 THEN UNCHANGED <<pending, size, docs>> ELSE ReadText(e)
    /\ UNCHANGED <<sheet, left>>

\* Mutant of BeforeTable: the table overtakes the paragraphs before it.
Unflushed == docs

BeforeTable == Flushed

\* Rows of a table that fit the budget.
Kept(n) == IF n <= left THEN n ELSE left

ReadTable(e) ==
    /\ type = "docx"
    /\ Meet(e)
    /\ left' = left - Kept(e.n)
    /\ docs' = IF Kept(e.n) = 0 THEN BeforeTable
                                ELSE Append(BeforeTable, Doc(<<Here>>, Kept(e.n)))
    /\ Emptied
    /\ UNCHANGED sheet

EndOfFile ==
    /\ status = "reading"
    /\ status' = "done"
    /\ docs' = Flushed
    /\ Emptied
    /\ UNCHANGED <<type, file, total, sheet, left>>

LoaderNext ==
    \/ Open \/ LoaderFails
    \/ \E e \in Rows : ReadRow(e)
    \/ NextSheet
    \/ \E e \in Items : ReadItem(e)
    \/ \E e \in Paragraphs : ReadParagraph(e)
    \/ \E e \in Tables : ReadTable(e)
    \/ EndOfFile

LoaderSpec == LoaderInit /\ [][LoaderNext]_loaderVars

-----------------------------------------------------------------------------
(* What the documents should be, read off the whole file. *)

Kind(i) == file[i].kind
InSheet(j, i) == j < i /\ \A k \in (j + 1) .. i : Kind(k) # "sheet"
HasHeader(i) == \E j \in 1 .. (i - 1) : InSheet(j, i) /\ Kind(j) \in {"row", "wide"}

\* Row i comes after a gap of MaxBlanks blank rows that follows data of its sheet.
BeyondGap(i) ==
    \E j \in 1 .. (i - 1) :
        /\ InSheet(j, i) /\ Kind(j) \notin {"blank", "sheet"}
        /\ j + MaxBlanks < i
        /\ \A k \in (j + 1) .. (j + MaxBlanks) : Kind(k) = "blank"

IsData(i) ==
    CASE type = "json" -> Kind(i) = "row"
      [] type = "csv"  -> Kind(i) \in {"row", "title"} /\ HasHeader(i)
      [] type = "xlsx" -> Kind(i) \in {"row", "title"} /\ HasHeader(i) /\ ~BeyondGap(i)
      [] OTHER         -> FALSE

\* What the budget leaves of the table at position i.
RowsLeft(i) == IF Upto(i - 1).table >= MaxRows THEN 0 ELSE MaxRows - Upto(i - 1).table
Cut(n, bound) == IF n <= bound THEN n ELSE bound

IsText(i) == \/ Kind(i) = "para" /\ file[i].n > 0
             \/ Kind(i) = "table" /\ Cut(file[i].n, RowsLeft(i)) > 0

\* The text of the paragraphs from position i to position j.
Length(i, j) == Upto(j).para - Upto(i - 1).para

\* Where the documents are from, and last what is still to become one.
Blocks == Append([d \in DOMAIN docs |-> docs[d].of], pending)

-----------------------------------------------------------------------------
(* Properties. *)

(* Of a table the first MaxRows data rows become documents, one each and in    *)
(* order, over all sheets: no row is lost at a title, a second sheet, a gap    *)
(* shorter than MaxBlanks or the last unit of the budget, and none is repeated *)
(* (_table_documents, _stream_sheet_rows, _RowBudget).                         *)
RowsInOrder ==
    type \in {"xlsx", "csv", "json"} =>
        /\ \A d \in DOMAIN docs :
              /\ Len(docs[d].of) = 1
              /\ docs[d].of[1] \in DOMAIN file /\ IsData(docs[d].of[1])
              /\ \A e \in 1 .. (d - 1) : docs[e].of[1] < docs[d].of[1]
        /\ Len(docs) <= MaxRows
        /\ \A i \in DOMAIN file : IsData(i) =>
              \/ \E d \in DOMAIN docs : docs[d].of[1] = i
              \/ Len(docs) = MaxRows /\ \A d \in DOMAIN docs : docs[d].of[1] < i

(* Of a text every paragraph and every table ends up in exactly one document,  *)
(* in the order of the file, whatever flushes happen in between (_docx_loader, *)
(* _text_loader).                                                              *)
TextInOrder ==
    type \in {"docx", "text"} =>
        /\ \A b \in DOMAIN Blocks : \A k \in DOMAIN Blocks[b] :
              /\ Blocks[b][k] \in DOMAIN file /\ IsText(Blocks[b][k])
              /\ \A l \in 1 .. (k - 1) : Blocks[b][l] < Blocks[b][k]
              /\ \A c \in 1 .. (b - 1) : \A l \in DOMAIN Blocks[c] :
                    Blocks[c][l] < Blocks[b][k]
        /\ \A i \in DOMAIN file : IsText(i) =>
              \E b \in DOMAIN Blocks : \E k \in DOMAIN Blocks[b] : Blocks[b][k] = i

(* A table is a document of its own, with the rows that the budget of the file *)
(* leaves it; text comes in blocks that end as soon as they reach FlushAt and  *)
(* earlier only before a table or at the end of the file.                      *)
BlocksWellFormed ==
    type \in {"docx", "text"} =>
        /\ pending # <<>> => Length(pending[1], Len(file)) < FlushAt
        /\ \A d \in DOMAIN docs :
              LET of == docs[d].of
                  last == of[Len(of)] IN
              IF Kind(last) = "table"
              THEN Len(of) = 1 /\ docs[d].rows = Cut(file[last].n, RowsLeft(last))
              ELSE /\ \A k \in DOMAIN of : Kind(of[k]) = "para"
                   /\ Length(of[1], last - 1) < FlushAt
                   /\ \/ Length(of[1], last) >= FlushAt
                      \/ status = "done" /\ d = Len(docs)
                      \/ \E i \in (last + 1) .. Len(file) :
                            /\ Kind(i) = "table"
                            /\ \A j \in (last + 1) .. (i - 1) : file[j] = Element("para", 0)
=============================================================================
