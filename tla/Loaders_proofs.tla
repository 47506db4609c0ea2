--------------------------- MODULE Loaders_proofs ---------------------------
(* Proofs about Loaders. *)
EXTENDS Loaders, TLAPS

TableTypes == {"xlsx", "csv", "json"}
TextTypes == {"docx", "text"}
Kinds == {"blank", "title", "row", "wide", "para", "table", "sheet"}
Elements == [kind : Kinds, n : Nat]
Totals == [{"para", "table"} -> Nat]
Documents == [of : Seq(Nat), rows : Nat]
Sheets == [header : BOOLEAN, started : BOOLEAN, blanks : Nat, closed : BOOLEAN]

(* The types, and what an element adds to the sums. *)
LoadersTypes ==
    /\ type \in TableTypes \cup TextTypes \cup {"pdf"}
    /\ status \in {"opening", "reading", "done", "failed"}
    /\ file \in Seq(Elements)
    /\ total \in Seq(Totals) /\ Len(total) = Len(file)
    /\ sheet \in Sheets
    /\ left \in Nat
    /\ pending \in Seq(Nat)
    /\ size \in Nat
    /\ docs \in Seq(Documents)

LEMMA ElementTypes ==
    /\ Rows \subseteq Elements /\ Items \subseteq Elements /\ SheetBreak \in Elements
    /\ Paragraphs \subseteq Elements /\ Tables \subseteq Elements
    /\ \A e \in Rows : e.kind \in {"blank", "title", "row", "wide"}
    /\ \A e \in Items : e.kind \in {"blank", "row"}
    /\ \A e \in Paragraphs : e.kind = "para" /\ e = Element("para", e.n)
    /\ \A e \in Tables : e.kind = "table"
    /\ SheetBreak.kind = "sheet"
BY LoadersAssumption DEF Rows, Items, SheetBreak, Paragraphs, Tables, Elements, Element, Kinds

LEMMA UptoType ==
    ASSUME LoadersTypes, NEW i \in 0 .. Len(file)
    PROVE  Upto(i) \in Totals /\ Upto(i).para \in Nat /\ Upto(i).table \in Nat
<1>1. CASE i = 0
  BY <1>1 DEF Upto, Totals
<1>2. CASE i # 0
  BY <1>2 DEF Upto, Totals, LoadersTypes
<1> QED BY <1>1, <1>2

(* Meeting an element leaves what is behind it as it was. *)
LEMMA Met ==
    ASSUME LoadersTypes, NEW e \in Elements, Meet(e), NEW n \in Nat, n = Len(file)
    PROVE  /\ file' \in Seq(Elements) /\ total' \in Seq(Totals)
           /\ Len(file') = n + 1 /\ Len(total') = n + 1
           /\ file'[n + 1] = e
           /\ \A i \in 1 .. n : file'[i] = file[i]
           /\ \A i \in 0 .. n : Upto(i)' = Upto(i)
           /\ Upto(n + 1)'.para = Upto(n).para + IF e.kind = "para" THEN e.n ELSE 0
           /\ Upto(n + 1)'.table = Upto(n).table + IF e.kind = "table" THEN e.n ELSE 0
<1> DEFINE t == [k \in {"para", "table"} |->
                    Upto(n)[k] + IF e.kind = k THEN e.n ELSE 0]
<1>1. t \in Totals
  <2>1. Upto(n) \in Totals
    BY UptoType
  <2>2. e.n \in Nat
    BY DEF Elements
  <2>3. \A k \in {"para", "table"} : Upto(n)[k] \in Nat
    BY <2>1 DEF Totals
  <2> QED BY <2>2, <2>3 DEF Totals
<1>2. file' = Append(file, e) /\ total' = Append(total, t)
  BY DEF Meet
<1>3. t.para = Upto(n).para + IF e.kind = "para" THEN e.n ELSE 0
  OBVIOUS
<1>4. t.table = Upto(n).table + IF e.kind = "table" THEN e.n ELSE 0
  OBVIOUS
<1> HIDE DEF t
<1>5. Len(total') = n + 1 /\ total'[n + 1] = t
  BY <1>1, <1>2 DEF LoadersTypes
<1>6. \A i \in 1 .. n : total'[i] = total[i]
  BY <1>1, <1>2 DEF LoadersTypes
<1>7. \A i \in 0 .. n : Upto(i)' = Upto(i)
  BY <1>6 DEF Upto
<1>8. Upto(n + 1)' = t
  BY <1>5 DEF Upto
<1> QED BY <1>1, <1>2, <1>3, <1>4, <1>5, <1>7, <1>8 DEF LoadersTypes

-----------------------------------------------------------------------------
(* Types. *)

LEMMA DocType ==
    ASSUME NEW p \in Seq(Nat), NEW r \in Nat
    PROVE  Doc(p, r) \in Documents
BY DEF Doc, Documents

LEMMA HereType ==
    ASSUME LoadersTypes
    PROVE  Here \in Nat /\ <<Here>> \in Seq(Nat) /\ Append(pending, Here) \in Seq(Nat)
<1>1. Here \in Nat
  BY DEF Here, LoadersTypes
<1> QED BY <1>1 DEF LoadersTypes

LEMMA SpendType ==
    ASSUME LoadersTypes, NEW s \in Sheets, Spend(s)
    PROVE  left' \in Nat /\ docs' \in Seq(Documents) /\ sheet' \in Sheets
<1>1. Doc(<<Here>>, 1) \in Documents
  BY DocType, HereType
<1>2. [s EXCEPT !.closed = TRUE] \in Sheets
  BY DEF Sheets
<1>3. left \in Nat /\ docs \in Seq(Documents)
  BY DEF LoadersTypes
<1>4. CASE left > 0
  <2>1. left' = left - 1 /\ docs' = Append(docs, Doc(<<Here>>, 1)) /\ sheet' = s
    BY <1>4 DEF Spend
  <2>2. docs' \in Seq(Documents)
    BY <1>1, <1>3, <2>1
  <2> QED BY <1>3, <1>4, <2>1, <2>2
<1>5. CASE ~(left > 0)
  BY <1>2, <1>3, <1>5 DEF Spend
<1> QED BY <1>4, <1>5

LEMMA SheetTypes ==
    ASSUME LoadersTypes
    PROVE  /\ AfterData \in Sheets /\ AfterBlank \in Sheets
           /\ \A h \in BOOLEAN : [AfterData EXCEPT !.header = h] \in Sheets
<1>1. sheet \in Sheets
  BY DEF LoadersTypes
<1>2. sheet.blanks + 1 \in Nat /\ (sheet.blanks + 1 >= MaxBlanks) \in BOOLEAN
  BY <1>1 DEF Sheets
<1>3. AfterData \in Sheets /\ \A h \in BOOLEAN : [AfterData EXCEPT !.header = h] \in Sheets
  BY <1>1 DEF AfterData, Sheets
<1>4. AfterBlank \in Sheets
  <2> DEFINE c == sheet.blanks + 1 >= MaxBlanks
             b == sheet.blanks + 1
  <2>1. b \in Nat /\ c \in BOOLEAN /\ AfterBlank = IF ~sheet.started THEN sheet
                ELSE [sheet EXCEPT !.blanks = b, !.closed = c]
    BY <1>1, <1>2 DEF AfterBlank, Sheets
  <2> HIDE DEF b, c
  <2> QED BY <1>1, <2>1 DEF Sheets
<1> QED BY <1>3, <1>4

LEMMA FlushedType ==
    ASSUME LoadersTypes
    PROVE  Flushed \in Seq(Documents)
BY DocType, 0 \in Nat DEF LoadersTypes, Flushed

LEMMA MetTypes ==
    ASSUME LoadersTypes, NEW e \in Elements, Meet(e)
    PROVE  /\ file' \in Seq(Elements) /\ total' \in Seq(Totals) /\ Len(total') = Len(file')
           /\ UNCHANGED <<type, status>>
<1>1. PICK n \in Nat : n = Len(file)
  BY DEF LoadersTypes
<1> QED BY <1>1, Met DEF Meet

LEMMA TypesKept ==
    ASSUME LoadersTypes, [LoaderNext]_loaderVars
    PROVE  LoadersTypes'
<1> USE DEF LoadersTypes
<1>1. CASE Open
  BY <1>1 DEF Open
<1>2. CASE LoaderFails
  BY <1>2 DEF LoaderFails
<1>3. ASSUME NEW e \in Rows, ReadRow(e)
      PROVE  LoadersTypes'
  <2>1. Meet(e) /\ e \in Elements
    BY <1>3, ElementTypes DEF ReadRow
  <2>2. file' \in Seq(Elements) /\ total' \in Seq(Totals) /\ Len(total') = Len(file')
        /\ UNCHANGED <<type, status, pending, size>>
    BY <1>3, <2>1, MetTypes DEF ReadRow
  <2>3. left' \in Nat /\ docs' \in Seq(Documents) /\ sheet' \in Sheets
    BY <1>3, SheetTypes, SpendType DEF ReadRow
  <2> QED BY <2>2, <2>3
<1>4. CASE NextSheet
  <2>1. Meet(SheetBreak)
    BY <1>4 DEF NextSheet
  <2>2. file' \in Seq(Elements) /\ total' \in Seq(Totals) /\ Len(total') = Len(file')
        /\ UNCHANGED <<type, status>>
    BY <2>1, MetTypes, ElementTypes
  <2> QED BY <1>4, <2>2 DEF NextSheet, NewSheet, Sheets
<1>5. ASSUME NEW e \in Items, ReadItem(e)
      PROVE  LoadersTypes'
  <2>1. Meet(e) /\ e \in Elements
    BY <1>5, ElementTypes DEF ReadItem
  <2>2. file' \in Seq(Elements) /\ total' \in Seq(Totals) /\ Len(total') = Len(file')
        /\ UNCHANGED <<type, status, pending, size>>
    BY <1>5, <2>1, MetTypes DEF ReadItem
  <2>3. left' \in Nat /\ docs' \in Seq(Documents) /\ sheet' \in Sheets
    BY <1>5, SpendType DEF ReadItem
  <2> QED BY <2>2, <2>3
<1>6. ASSUME NEW e \in Paragraphs, ReadParagraph(e)
      PROVE  LoadersTypes'
  <2>1. Meet(e) /\ e \in Elements
    BY <1>6, ElementTypes DEF ReadParagraph
  <2>2. file' \in Seq(Elements) /\ total' \in Seq(Totals) /\ Len(total') = Len(file')
        /\ UNCHANGED <<type, status, sheet, left>>
    BY <1>6, <2>1, MetTypes DEF ReadParagraph
  <2>3. Append(pending, Here) \in Seq(Nat) /\ size + e.n \in Nat
    BY <2>1, HereType DEF Elements
  <2>4. Doc(Append(pending, Here), 0) \in Documents
    BY <2>3, DocType
  <2>5. pending' \in Seq(Nat) /\ size' \in Nat /\ docs' \in Seq(Documents)
    <3>1. CASE e.n = 0
      BY <1>6, <3>1 DEF ReadParagraph
    <3>2. CASE e.n # 0 /\ Full(size + e.n)
      BY <1>6, <2>4, <3>2 DEF ReadParagraph, ReadText, Emptied
    <3>3. CASE e.n # 0 /\ ~Full(size + e.n)
      BY <1>6, <2>3, <3>3 DEF ReadParagraph, ReadText
    <3> QED BY <3>1, <3>2, <3>3
  <2> QED BY <2>2, <2>5
<1>7. ASSUME NEW e \in Tables, ReadTable(e)
      PROVE  LoadersTypes'
  <2>1. Meet(e) /\ e \in Elements
    BY <1>7, ElementTypes DEF ReadTable
  <2>2. file' \in Seq(Elements) /\ total' \in Seq(Totals) /\ Len(total') = Len(file')
        /\ UNCHANGED <<type, status, sheet>>
    BY <1>7, <2>1, MetTypes DEF ReadTable
  <2>3. Kept(e.n) \in Nat /\ left - Kept(e.n) \in Nat
    BY <2>1 DEF Kept, Elements
  <2>4. BeforeTable \in Seq(Documents) /\ Doc(<<Here>>, Kept(e.n)) \in Documents
    BY <2>3, FlushedType, HereType, DocType DEF BeforeTable
  <2> QED BY <1>7, <2>2, <2>3, <2>4 DEF ReadTable, Emptied
<1>8. CASE EndOfFile
  BY <1>8, FlushedType DEF EndOfFile, Emptied
<1>9. CASE UNCHANGED loaderVars
  BY <1>9 DEF loaderVars
<1> QED BY <1>1, <1>2, <1>3, <1>4, <1>5, <1>6, <1>7, <1>8, <1>9 DEF LoaderNext

-----------------------------------------------------------------------------
(* What the properties say of a position does not change when the file goes on. *)

LEMMA DataStable ==
    ASSUME LoadersTypes, NEW e \in Elements, Meet(e), NEW i \in 1 .. Len(file)
    PROVE  Kind(i)' = Kind(i) /\ (IsData(i)' <=> IsData(i))
<1>1. PICK n \in Nat : n = Len(file)
  BY DEF LoadersTypes
<1>2. n \in Nat /\ i \in 1 .. n /\ \A j \in 1 .. n : Kind(j)' = Kind(j)
  BY <1>1, Met DEF Kind
<1>3. \A j \in 1 .. (i - 1) : InSheet(j, i)' <=> InSheet(j, i)
  BY <1>2 DEF InSheet
<1>4. HasHeader(i)' <=> HasHeader(i)
  BY <1>2, <1>3 DEF HasHeader
<1>5. \A j \in 1 .. (i - 1) : j + MaxBlanks < i =>
         \A k \in (j + 1) .. (j + MaxBlanks) : Kind(k)' = Kind(k)
  BY <1>2, LoadersAssumption
<1>6. BeyondGap(i)' <=> BeyondGap(i)
  BY <1>2, <1>3, <1>5 DEF BeyondGap
<1>7. type' = type
  BY DEF Meet
<1> QED BY <1>2, <1>4, <1>6, <1>7 DEF IsData

LEMMA TextStable ==
    ASSUME LoadersTypes, NEW e \in Elements, Meet(e), NEW i \in 1 .. Len(file)
    PROVE  /\ Kind(i)' = Kind(i) /\ file'[i] = file[i]
           /\ RowsLeft(i)' = RowsLeft(i) /\ (IsText(i)' <=> IsText(i))
<1>1. PICK n \in Nat : n = Len(file)
  BY DEF LoadersTypes
<1>2. file'[i] = file[i] /\ Upto(i - 1)' = Upto(i - 1)
  BY <1>1, Met
<1>3. Kind(i)' = Kind(i)
  BY <1>2 DEF Kind
<1>4. RowsLeft(i)' = RowsLeft(i)
  BY <1>2 DEF RowsLeft
<1> QED BY <1>2, <1>3, <1>4 DEF IsText, Cut

-----------------------------------------------------------------------------
(* Tables: what the local variables of the generators say of the rows so far. *)

SoFar(j) == \A k \in (j + 1) .. Len(file) : Kind(k) # "sheet"
Data(j) == Kind(j) \notin {"blank", "sheet"}
Headed == \E j \in 1 .. Len(file) : SoFar(j) /\ Kind(j) \in {"row", "wide"}
Started == \E j \in 1 .. Len(file) : SoFar(j) /\ Data(j)
GapAfter(j) ==
    /\ SoFar(j) /\ Data(j)
    /\ j + MaxBlanks <= Len(file)
    /\ \A k \in (j + 1) .. (j + MaxBlanks) : Kind(k) = "blank"
Gap == \E j \in 1 .. Len(file) : GapAfter(j)

\* The sheet ends with `blanks` blank rows after data, fewer than MaxBlanks.
BlanksCounted(b) ==
    /\ b < MaxBlanks /\ b < Len(file)
    /\ Data(Len(file) - b)
    /\ \A k \in (Len(file) - b + 1) .. Len(file) : Kind(k) = "blank"

SheetRead ==
    /\ type = "json" => ~sheet.closed
    /\ type = "csv" => ~sheet.closed /\ (sheet.header <=> Headed)
    /\ type = "xlsx" =>
         /\ sheet.closed <=> Gap
         /\ ~sheet.closed => /\ sheet.header <=> Headed
                             /\ sheet.started <=> Started
                             /\ sheet.started => BlanksCounted(sheet.blanks)

TableInv ==
    type \in TableTypes =>
        /\ pending = <<>>
        /\ left + Len(docs) = MaxRows
        /\ left > 0 => SheetRead

(* The sheet goes on with an element that is no sheet break. *)
LEMMA SheetGoesOn ==
    ASSUME LoadersTypes, NEW e \in Elements, Meet(e), e.kind # "sheet",
           NEW n \in Nat, n = Len(file)
    PROVE  /\ Kind(n + 1)' = e.kind /\ SoFar(n + 1)' /\ Len(file') = n + 1
           /\ \A j \in 1 .. n : /\ Kind(j)' = Kind(j)
                                /\ SoFar(j)' <=> SoFar(j)
                                /\ Data(j)' <=> Data(j)
           /\ \A j \in 1 .. n : InSheet(j, n + 1)' <=> SoFar(j)
<1>1. /\ Kind(n + 1)' = e.kind /\ Len(file') = n + 1
      /\ \A j \in 1 .. n : Kind(j)' = Kind(j)
  BY Met DEF Kind
<1>2. SoFar(n + 1)'
  BY <1>1 DEF SoFar
<1>3. \A j \in 1 .. n : (SoFar(j)' <=> SoFar(j)) /\ (Data(j)' <=> Data(j))
  BY <1>1 DEF SoFar, Data
<1>4. \A j \in 1 .. n : InSheet(j, n + 1)' <=> SoFar(j)
  BY <1>1 DEF SoFar, InSheet
<1> QED BY <1>1, <1>2, <1>3, <1>4

(* What the definition of the data rows says of the element that is met. *)
LEMMA Judged ==
    ASSUME LoadersTypes, NEW e \in Elements, Meet(e), e.kind # "sheet",
           NEW n \in Nat, n = Len(file)
    PROVE  /\ HasHeader(n + 1)' <=> Headed
           /\ BeyondGap(n + 1)' <=> Gap
<1>1. /\ Kind(n + 1)' = e.kind
      /\ \A j \in 1 .. n : Kind(j)' = Kind(j)
      /\ \A j \in 1 .. n : (InSheet(j, n + 1)' <=> SoFar(j)) /\ (Data(j)' <=> Data(j))
  BY SheetGoesOn
<1>2. HasHeader(n + 1)' <=> Headed
  BY <1>1 DEF HasHeader, Headed
<1>3. ASSUME NEW j \in 1 .. n, j + MaxBlanks <= n
      PROVE  (\A k \in (j + 1) .. (j + MaxBlanks) : Kind(k)' = "blank")
                <=> (\A k \in (j + 1) .. (j + MaxBlanks) : Kind(k) = "blank")
  BY <1>1, <1>3, LoadersAssumption
<1>4. BeyondGap(n + 1)' <=> Gap
  <2>1. \A j \in 1 .. n : j + MaxBlanks < n + 1 <=> j + MaxBlanks <= n
    BY LoadersAssumption
  <2> QED BY <1>1, <1>3, <2>1 DEF BeyondGap, Gap, GapAfter, Data
<1> QED BY <1>2, <1>4

(* Headers, data and gaps after one more row. *)
LEMMA OneMore ==
    ASSUME LoadersTypes, NEW e \in Elements, Meet(e), e.kind # "sheet"
    PROVE  /\ Headed' <=> Headed \/ e.kind \in {"row", "wide"}
           /\ Started' <=> Started \/ e.kind # "blank"
           /\ Gap => Gap'
           /\ e.kind # "blank" => (Gap' => Gap) /\ BlanksCounted(0)'
<1>1. PICK n \in Nat : n = Len(file)
  BY DEF LoadersTypes
<1>2. /\ Kind(n + 1)' = e.kind /\ SoFar(n + 1)' /\ Len(file') = n + 1
      /\ \A j \in 1 .. n : /\ Kind(j)' = Kind(j)
                           /\ SoFar(j)' <=> SoFar(j)
                           /\ Data(j)' <=> Data(j)
  BY <1>1, SheetGoesOn
<1>3. Headed' <=> Headed \/ e.kind \in {"row", "wide"}
  BY <1>1, <1>2 DEF Headed
<1>4. Data(n + 1)' <=> e.kind # "blank"
  BY <1>2 DEF Data
<1>5. Started' <=> Started \/ e.kind # "blank"
  BY <1>1, <1>2, <1>4 DEF Started
<1>6. \A j \in 1 .. n : j + MaxBlanks <= n =>
         ((\A k \in (j + 1) .. (j + MaxBlanks) : Kind(k)' = "blank")
            <=> (\A k \in (j + 1) .. (j + MaxBlanks) : Kind(k) = "blank"))
  BY <1>2, LoadersAssumption
<1>7. ASSUME Gap
      PROVE  Gap'
  <2>1. PICK j \in 1 .. n : GapAfter(j)
    BY <1>1, <1>7 DEF Gap
  <2>2. j + MaxBlanks <= n + 1 /\ \A k \in (j + 1) .. (j + MaxBlanks) : Kind(k)' = "blank"
    BY <1>1, <1>6, <2>1, LoadersAssumption DEF GapAfter
  <2>3. GapAfter(j)'
    BY <1>2, <2>1, <2>2 DEF GapAfter
  <2> QED BY <1>2, <2>3 DEF Gap
<1>8. ASSUME e.kind # "blank", Gap'
      PROVE  Gap
  <2>1. PICK j \in 1 .. (n + 1) : GapAfter(j)'
    BY <1>2, <1>8 DEF Gap
  <2>2. j + MaxBlanks # n + 1
    BY <1>2, <1>8, <2>1, LoadersAssumption DEF GapAfter
  <2>3. j + MaxBlanks <= n /\ j \in 1 .. n
    BY <1>2, <2>1, <2>2, LoadersAssumption DEF GapAfter
  <2> QED BY <1>1, <1>2, <1>6, <2>1, <2>3 DEF Gap, GapAfter
<1>9. e.kind # "blank" => BlanksCounted(0)'
  BY <1>2, <1>4, LoadersAssumption DEF BlanksCounted
<1> QED BY <1>3, <1>5, <1>7, <1>8, <1>9

(* A blank row after data: the sheet ends with one more, and it is a gap if there *)
(* are MaxBlanks of them.                                                         *)
LEMMA OneMoreBlank ==
    ASSUME LoadersTypes, NEW e \in Elements, Meet(e), e.kind = "blank", ~Gap,
           NEW b \in Nat, BlanksCounted(b)
    PROVE  /\ Gap' <=> b + 1 >= MaxBlanks
           /\ b + 1 < MaxBlanks => BlanksCounted(b + 1)'
<1>1. PICK n \in Nat : n = Len(file)
  BY DEF LoadersTypes
<1>2. /\ Kind(n + 1)' = "blank" /\ SoFar(n + 1)' /\ Len(file') = n + 1
      /\ \A j \in 1 .. n : /\ Kind(j)' = Kind(j)
                           /\ SoFar(j)' <=> SoFar(j)
                           /\ Data(j)' <=> Data(j)
  BY <1>1, SheetGoesOn
<1>3. /\ b < MaxBlanks /\ b < n /\ Data(n - b) /\ n - b \in 1 .. n
      /\ \A k \in (n - b + 1) .. n : Kind(k) = "blank"
  BY <1>1, LoadersAssumption DEF BlanksCounted
<1>4. \A k \in (n - b + 1) .. (n + 1) : Kind(k)' = "blank"
  BY <1>2, <1>3
<1>5. b + 1 < MaxBlanks => BlanksCounted(b + 1)'
  BY <1>2, <1>3, <1>4 DEF BlanksCounted
<1>6. ASSUME b + 1 >= MaxBlanks
      PROVE  Gap'
  <2>1. MaxBlanks = b + 1
    BY <1>3, <1>6, LoadersAssumption
  <2>2. SoFar(n - b)'
    BY <1>2, <1>4 DEF SoFar
  <2>3. GapAfter(n - b)'
    BY <1>2, <1>3, <1>4, <2>1, <2>2 DEF GapAfter
  <2> QED BY <1>2, <1>3, <2>3 DEF Gap
<1>7. ASSUME Gap'
      PROVE  b + 1 >= MaxBlanks
  <2>1. PICK j \in 1 .. (n + 1) : GapAfter(j)'
    BY <1>2, <1>7 DEF Gap
  <2>2. j + MaxBlanks <= n + 1 /\ j \in 1 .. n /\ Data(j)
    BY <1>2, <2>1, LoadersAssumption DEF GapAfter
  <2>3. CASE j + MaxBlanks <= n
    <3>1. \A k \in (j + 1) .. (j + MaxBlanks) : Kind(k) = "blank"
      BY <1>2, <2>1, <2>2, <2>3, LoadersAssumption DEF GapAfter
    <3> QED BY <1>1, <1>2, <2>1, <2>2, <2>3, <3>1 DEF Gap, GapAfter
  <2>4. CASE j + MaxBlanks = n + 1
    <3>1. \A k \in (j + 1) .. (n + 1) : Kind(k)' = "blank"
      BY <2>1, <2>4 DEF GapAfter
    <3>2. j <= n - b
      BY <1>3, <2>2 DEF Data
    <3>3. n - b <= j
      BY <1>2, <1>3, <3>1 DEF Data
    <3> QED BY <2>2, <2>4, <3>2, <3>3, LoadersAssumption
  <2> QED BY <2>2, <2>3, <2>4, LoadersAssumption
<1> QED BY <1>5, <1>6, <1>7

-----------------------------------------------------------------------------
(* Tables: what the loop of a generator makes of the element that it meets. *)

(* The rows so far, with the positions bounded. *)
LEMMA RowsSoFar ==
    ASSUME LoadersTypes, type \in TableTypes, RowsInOrder, NEW n \in Nat, n = Len(file)
    PROVE  /\ \A d \in 1 .. Len(docs) :
                /\ Len(docs[d].of) = 1
                /\ docs[d].of[1] \in 1 .. n /\ IsData(docs[d].of[1])
                /\ \A f \in 1 .. (d - 1) : docs[f].of[1] < docs[d].of[1]
           /\ Len(docs) <= MaxRows /\ Len(docs) \in Nat
           /\ DOMAIN docs = 1 .. Len(docs) /\ DOMAIN file = 1 .. n
           /\ \A i \in 1 .. n : IsData(i) =>
                \/ \E d \in 1 .. Len(docs) : docs[d].of[1] = i
                \/ Len(docs) = MaxRows /\ \A d \in 1 .. Len(docs) : docs[d].of[1] < i
<1>1. DOMAIN docs = 1 .. Len(docs) /\ Len(docs) \in Nat /\ DOMAIN file = 1 .. n
  BY DEF LoadersTypes
<1> QED BY <1>1 DEF RowsInOrder, TableTypes

(* The element that is met becomes no document. *)
LEMMA RowPassed ==
    ASSUME LoadersTypes, type \in TableTypes, RowsInOrder,
           NEW e \in Elements, Meet(e), docs' = docs,
           NEW n \in Nat, n = Len(file), IsData(n + 1)' => Len(docs) = MaxRows
    PROVE  RowsInOrder'
<1>1. DOMAIN file' = 1 .. (n + 1) /\ type' = type
  BY Met DEF Meet
<1>2. \A i \in 1 .. n : IsData(i)' <=> IsData(i)
  BY DataStable
<1>3. \A d \in 1 .. Len(docs) :
         /\ Len(docs[d].of) = 1
         /\ docs[d].of[1] \in 1 .. n /\ IsData(docs[d].of[1])'
         /\ \A f \in 1 .. (d - 1) : docs[f].of[1] < docs[d].of[1]
  <2> SUFFICES ASSUME NEW d \in 1 .. Len(docs)
               PROVE  /\ Len(docs[d].of) = 1
                      /\ docs[d].of[1] \in 1 .. n /\ IsData(docs[d].of[1])'
                      /\ \A f \in 1 .. (d - 1) : docs[f].of[1] < docs[d].of[1]
    OBVIOUS
  <2>1. PICK i \in 1 .. n : i = docs[d].of[1] /\ IsData(i)
    BY RowsSoFar
  <2>2. i = docs'[d].of[1] /\ IsData(i)'
    BY <1>2, <2>1
  <2> QED BY <2>1, <2>2, RowsSoFar
<1>4. ASSUME NEW i \in 1 .. (n + 1), IsData(i)'
      PROVE  \/ \E d \in 1 .. Len(docs) : docs[d].of[1] = i
             \/ Len(docs) = MaxRows /\ \A d \in 1 .. Len(docs) : docs[d].of[1] < i
  <2>1. CASE i \in 1 .. n
    BY <1>2, <1>4, <2>1, RowsSoFar
  <2>2. CASE i = n + 1
    <3>1. Len(docs) = MaxRows
      BY <1>4, <2>2
    <3>2. \A d \in 1 .. Len(docs) : docs[d].of[1] < i
      BY <1>3, <2>2
    <3> QED BY <3>1, <3>2
  <2> QED BY <2>1, <2>2
<1> QED BY <1>1, <1>3, <1>4, RowsSoFar DEF RowsInOrder

(* The element that is met becomes a document. *)
LEMMA RowTaken ==
    ASSUME LoadersTypes, type \in TableTypes, RowsInOrder,
           NEW e \in Elements, Meet(e), NEW n \in Nat, n = Len(file),
           docs' = Append(docs, Doc(<<n + 1>>, 1)), Len(docs) < MaxRows, IsData(n + 1)'
    PROVE  RowsInOrder'
<1>1. type' = type /\ DOMAIN file' = 1 .. (n + 1)
  BY Met DEF Meet
<1>2. \A i \in 1 .. n : IsData(i)' <=> IsData(i)
  BY DataStable
<1>3. PICK c \in Nat : c = Len(docs)
  BY DEF LoadersTypes
<1>4. /\ Len(docs') = c + 1 /\ DOMAIN docs' = 1 .. (c + 1)
      /\ docs'[c + 1].of = <<n + 1>>
      /\ \A d \in 1 .. c : docs'[d] = docs[d]
  <2>1. Doc(<<n + 1>>, 1) \in Documents /\ Doc(<<n + 1>>, 1).of = <<n + 1>>
    BY DEF Doc, Documents
  <2>2. docs \in Seq(Documents)
    BY DEF LoadersTypes
  <2> QED BY <1>3, <2>1, <2>2
<1> DEFINE At(d) == docs'[d].of[1]
           Was(d) == docs[d].of[1]
           Right(d) == /\ Len(docs'[d].of) = 1
                       /\ At(d) \in 1 .. (n + 1)
                       /\ \A f \in 1 .. (d - 1) : At(f) < At(d)
                       /\ \A i \in 1 .. (n + 1) : i = At(d) => IsData(i)'
<1>5. /\ \A d \in 1 .. c : At(d) = Was(d) /\ Len(docs'[d].of) = Len(docs[d].of)
      /\ At(c + 1) = n + 1 /\ Len(docs'[c + 1].of) = 1
  BY <1>4
<1>6. /\ \A d \in 1 .. c : /\ Len(docs[d].of) = 1
                           /\ Was(d) \in 1 .. n /\ IsData(Was(d))
                           /\ \A f \in 1 .. (d - 1) : Was(f) < Was(d)
      /\ \A i \in 1 .. n : IsData(i) => \E d \in 1 .. c : Was(d) = i
  <2>1. \A d \in 1 .. Len(docs) :
           /\ Len(docs[d].of) = 1
           /\ docs[d].of[1] \in 1 .. n /\ IsData(docs[d].of[1])
           /\ \A f \in 1 .. (d - 1) : docs[f].of[1] < docs[d].of[1]
    BY RowsSoFar
  <2>2. \A i \in 1 .. n : IsData(i) => \E d \in 1 .. Len(docs) : docs[d].of[1] = i
    BY RowsSoFar, LoadersAssumption
  <2> QED BY <1>3, <2>1, <2>2
<1> HIDE DEF At, Was
<1>7. \A d \in 1 .. c : Right(d)
  <2> SUFFICES ASSUME NEW d \in 1 .. c PROVE Right(d)
    OBVIOUS
  <2>1. \A f \in 1 .. (d - 1) : f \in 1 .. c
    OBVIOUS
  <2>2. \A f \in 1 .. (d - 1) : At(f) < At(d)
    BY <1>5, <1>6, <2>1
  <2>3. \A i \in 1 .. (n + 1) : i = At(d) => IsData(i)'
    BY <1>2, <1>5, <1>6
  <2>4. At(d) \in 1 .. (n + 1)
    BY <1>5, <1>6
  <2>5. Len(docs'[d].of) = 1
    BY <1>5, <1>6, Zenon
  <2> QED BY <2>2, <2>3, <2>4, <2>5
<1>8. Right(c + 1)
  <2>1. \A f \in 1 .. ((c + 1) - 1) : At(f) < At(c + 1)
    BY <1>5, <1>6
  <2>2. At(c + 1) \in 1 .. (n + 1)
    BY <1>5
  <2>3. \A i \in 1 .. (n + 1) : i = At(c + 1) => IsData(i)'
    BY <1>5
  <2> QED BY <1>5, <2>1, <2>2, <2>3
<1>9. \A i \in 1 .. (n + 1) : IsData(i)' => \E d \in 1 .. (c + 1) : At(d) = i
  <2> SUFFICES ASSUME NEW i \in 1 .. (n + 1), IsData(i)'
               PROVE  \E d \in 1 .. (c + 1) : At(d) = i
    OBVIOUS
  <2>1. CASE i \in 1 .. n
    <3>1. PICK d \in 1 .. c : Was(d) = i
      BY <1>2, <1>6, <2>1
    <3>2. d \in 1 .. (c + 1) /\ At(d) = i
      BY <1>5, <3>1
    <3> QED BY <3>2
  <2>2. CASE i = n + 1
    BY <1>5, <2>2
  <2> QED BY <2>1, <2>2
<1> HIDE DEF Right
<1>10. \A d \in 1 .. (c + 1) : Right(d)
  BY <1>7, <1>8
<1>11. c + 1 <= MaxRows
  BY <1>3, LoadersAssumption
<1> QED BY <1>1, <1>4, <1>9, <1>10, <1>11 DEF RowsInOrder, Right, At

(* A row with data is counted as such: it is, or follows, the header. *)
LEMMA RowCounted ==
    ASSUME LoadersTypes, NEW e \in Elements, Meet(e), e.kind \in {"title", "row", "wide"},
           type \in {"xlsx", "csv"}, SheetRead, ~sheet.closed,
           sheet'.header <=> sheet.header \/ e.kind # "title",
           sheet'.started, sheet'.blanks = 0, ~sheet'.closed
    PROVE  SheetRead'
<1>1. type' = type
  BY DEF Meet
<1>2. /\ Headed' <=> Headed \/ e.kind \in {"row", "wide"}
      /\ Started' /\ (Gap' <=> Gap) /\ BlanksCounted(0)'
  BY OneMore
<1>3. BlanksCounted(sheet.blanks)'
  BY <1>2 DEF BlanksCounted
<1> QED BY <1>1, <1>2, <1>3 DEF SheetRead

(* A blank row of a sheet that is read. *)
LEMMA BlankCounted ==
    ASSUME LoadersTypes, NEW e \in Elements, Meet(e), e.kind = "blank",
           type \in {"xlsx", "csv"}, SheetRead, ~sheet.closed,
           sheet' = IF type = "xlsx" THEN AfterBlank ELSE sheet
    PROVE  SheetRead'
<1>1. type' = type
  BY DEF Meet
<1>2. (Headed' <=> Headed) /\ (Started' <=> Started)
  BY OneMore
<1>3. CASE type = "csv"
  BY <1>1, <1>2, <1>3 DEF SheetRead
<1>4. CASE type = "xlsx" /\ ~sheet.started
  <2>1. ~Gap'
    BY <1>2, <1>4 DEF SheetRead, Gap, GapAfter, Started
  <2>2. sheet' = sheet
    BY <1>4 DEF AfterBlank
  <2> QED BY <1>1, <1>2, <1>4, <2>1, <2>2 DEF SheetRead
<1>5. CASE type = "xlsx" /\ sheet.started
  <2>1. PICK b \in Nat : b = sheet.blanks
    BY DEF LoadersTypes, Sheets
  <2>2. ~Gap /\ BlanksCounted(b) /\ (sheet.header <=> Headed) /\ Started
    BY <1>5, <2>1 DEF SheetRead
  <2>3. (Gap' <=> b + 1 >= MaxBlanks) /\ (b + 1 < MaxBlanks => BlanksCounted(b + 1)')
    BY <2>2, OneMoreBlank
  <2>4. /\ sheet'.header = sheet.header /\ sheet'.started = sheet.started
        /\ sheet'.blanks = b + 1 /\ (sheet'.closed <=> b + 1 >= MaxBlanks)
    BY <1>5, <2>1 DEF AfterBlank, LoadersTypes, Sheets
  <2>5. ASSUME ~sheet'.closed
        PROVE  BlanksCounted(sheet.blanks)'
    <3>1. PICK c \in Nat : c = b + 1
      OBVIOUS
    <3>2. b + 1 < MaxBlanks
      BY <2>1, <2>4, <2>5, LoadersAssumption
    <3>3. BlanksCounted(c)' /\ sheet'.blanks = c
      BY <2>3, <2>4, <3>1, <3>2
    <3> QED BY <3>3 DEF BlanksCounted
  <2> QED BY <1>1, <1>2, <1>5, <2>2, <2>3, <2>4, <2>5 DEF SheetRead
<1> QED BY <1>3, <1>4, <1>5

LEMMA ReadRowKeeps ==
    ASSUME LoadersTypes, TableInv, RowsInOrder, NEW e \in Rows, ReadRow(e)
    PROVE  TableInv' /\ RowsInOrder'
<1>1. PICK n \in Nat : n = Len(file)
  BY DEF LoadersTypes
<1>2. /\ Meet(e) /\ e \in Elements /\ e.kind \in {"blank", "title", "row", "wide"}
      /\ type \in {"xlsx", "csv"} /\ type \in TableTypes
      /\ UNCHANGED <<type, pending>>
  BY ElementTypes DEF ReadRow, Meet, TableTypes
<1>3. pending = <<>> /\ left + Len(docs) = MaxRows /\ (left > 0 => SheetRead)
  BY <1>2 DEF TableInv
<1>4. IsData(n + 1)' <=> /\ e.kind \in {"row", "title"} /\ Headed
                         /\ type = "xlsx" => ~Gap
  <2>1. (HasHeader(n + 1)' <=> Headed) /\ (BeyondGap(n + 1)' <=> Gap) /\ Kind(n + 1)' = e.kind
    BY <1>1, <1>2, Judged, SheetGoesOn
  <2> QED BY <1>2, <2>1 DEF IsData
<1>5. left \in Nat /\ Len(docs) \in Nat /\ sheet \in Sheets
  BY DEF LoadersTypes
<1>6. ASSUME UNCHANGED <<left, docs>>, left > 0 => ~IsData(n + 1)', left > 0 => SheetRead'
      PROVE  TableInv' /\ RowsInOrder'
  <2>1. left = 0 => Len(docs) = MaxRows
    BY <1>3, <1>5, LoadersAssumption
  <2>2. IsData(n + 1)' => Len(docs) = MaxRows
    BY <1>5, <1>6, <2>1
  <2>3. RowsInOrder'
    BY <1>1, <1>2, <1>6, <2>2, RowPassed
  <2> QED BY <1>2, <1>3, <1>6, <2>3 DEF TableInv
<1>7. /\ AfterData.header = sheet.header /\ AfterData.started
      /\ AfterData.blanks = 0 /\ AfterData.closed = sheet.closed
  BY <1>5 DEF AfterData, Sheets
<1>8. CASE sheet.closed
  <2>1. UNCHANGED <<sheet, left, docs>>
    BY <1>8 DEF ReadRow
  <2>2. left > 0 => type = "xlsx" /\ Gap /\ SheetRead'
    BY <1>2, <1>3, <1>8, <2>1, OneMore DEF SheetRead
  <2> QED BY <1>4, <1>6, <2>1, <2>2
<1>9. CASE ~sheet.closed /\ e.kind = "blank"
  <2>1. UNCHANGED <<left, docs>> /\ sheet' = IF type = "xlsx" THEN AfterBlank ELSE sheet
    BY <1>9 DEF ReadRow
  <2>2. left > 0 => SheetRead'
    BY <1>2, <1>3, <1>9, <2>1, BlankCounted
  <2> QED BY <1>4, <1>6, <1>9, <2>1, <2>2
<1>10. CASE ~sheet.closed /\ ~sheet.header /\ e.kind # "blank"
  <2>1. UNCHANGED <<left, docs>> /\ sheet' = [AfterData EXCEPT !.header = e.kind # "title"]
    BY <1>10 DEF ReadRow
  <2>2. /\ sheet'.header <=> e.kind # "title"
        /\ sheet'.started /\ sheet'.blanks = 0 /\ ~sheet'.closed
    BY <1>5, <1>10, <2>1 DEF AfterData, Sheets
  <2>3. left > 0 => SheetRead'
    BY <1>2, <1>3, <1>10, <2>2, RowCounted
  <2>4. left > 0 => ~Headed
    BY <1>2, <1>3, <1>10 DEF SheetRead
  <2> QED BY <1>4, <1>6, <2>1, <2>3, <2>4
<1>11. CASE ~sheet.closed /\ sheet.header /\ e.kind = "wide"
  <2>1. UNCHANGED <<left, docs>> /\ sheet' = AfterData
    BY <1>11 DEF ReadRow
  <2>2. left > 0 => SheetRead'
    BY <1>2, <1>3, <1>7, <1>11, <2>1, RowCounted
  <2> QED BY <1>4, <1>6, <1>11, <2>1, <2>2
<1>12. CASE ~sheet.closed /\ sheet.header /\ e.kind \in {"row", "title"}
  <2>1. Spend(AfterData)
    BY <1>12 DEF ReadRow
  <2>2. CASE left = 0
    <3>1. UNCHANGED <<left, docs>>
      BY <2>1, <2>2 DEF Spend
    <3> QED BY <1>6, <2>2, <3>1
  <2>3. CASE left > 0
    <3>1. /\ left' = left - 1 /\ docs' = Append(docs, Doc(<<n + 1>>, 1)) /\ sheet' = AfterData
      BY <1>1, <2>1, <2>3 DEF Spend, Here
    <3>2. SheetRead'
      BY <1>2, <1>3, <1>7, <1>12, <2>3, <3>1, RowCounted
    <3>3. IsData(n + 1)'
      BY <1>2, <1>3, <1>4, <1>12, <2>3 DEF SheetRead
    <3>4. Len(docs) < MaxRows
      BY <1>3, <1>5, <2>3, LoadersAssumption
    <3>5. RowsInOrder'
      BY <1>1, <1>2, <3>1, <3>3, <3>4, RowTaken
    <3>6. Len(docs') = Len(docs) + 1
      BY <3>1 DEF LoadersTypes
    <3>7. left' + Len(docs') = MaxRows
      BY <1>3, <1>5, <3>1, <3>6, LoadersAssumption
    <3> QED BY <1>2, <1>3, <3>2, <3>5, <3>7 DEF TableInv
  <2> QED BY <1>5, <2>2, <2>3
<1> QED BY <1>2, <1>8, <1>9, <1>10, <1>11, <1>12

LEMMA NextSheetKeeps ==
    ASSUME LoadersTypes, TableInv, RowsInOrder, NextSheet
    PROVE  TableInv' /\ RowsInOrder'
<1>1. PICK n \in Nat : n = Len(file)
  BY DEF LoadersTypes
<1>2. /\ Meet(SheetBreak) /\ SheetBreak \in Elements /\ SheetBreak.kind = "sheet"
      /\ type = "xlsx" /\ type \in TableTypes
      /\ UNCHANGED <<type, pending, left, docs>> /\ sheet' = NewSheet
  BY ElementTypes DEF NextSheet, Meet, TableTypes
<1>3. Len(file') = n + 1 /\ Kind(n + 1)' = "sheet"
  BY <1>1, <1>2, Met DEF Kind
<1>4. RowsInOrder'
  <2>1. ~IsData(n + 1)'
    BY <1>2, <1>3 DEF IsData
  <2> QED BY <1>1, <1>2, <2>1, RowPassed
<1>5. \A j \in 1 .. (n + 1) : ~(SoFar(j)' /\ Kind(j)' # "sheet")
  BY <1>3 DEF SoFar
<1>6. ~Headed' /\ ~Started' /\ ~Gap'
  BY <1>3, <1>5 DEF Headed, Started, Gap, GapAfter, Data
<1>7. SheetRead'
  BY <1>2, <1>6 DEF SheetRead, NewSheet
<1> QED BY <1>2, <1>4, <1>7 DEF TableInv

LEMMA ReadItemKeeps ==
    ASSUME LoadersTypes, TableInv, RowsInOrder, NEW e \in Items, ReadItem(e)
    PROVE  TableInv' /\ RowsInOrder'
<1>1. PICK n \in Nat : n = Len(file)
  BY DEF LoadersTypes
<1>2. /\ Meet(e) /\ e \in Elements /\ e.kind \in {"blank", "row"}
      /\ type = "json" /\ type \in TableTypes
      /\ UNCHANGED <<type, pending>>
  BY ElementTypes DEF ReadItem, Meet, TableTypes
<1>3. pending = <<>> /\ left + Len(docs) = MaxRows /\ (left > 0 => ~sheet.closed)
  BY <1>2 DEF TableInv, SheetRead
<1>4. left \in Nat /\ Len(docs) \in Nat
  BY DEF LoadersTypes
<1>5. IsData(n + 1)' <=> e.kind = "row"
  <2>1. Kind(n + 1)' = e.kind
    BY <1>1, <1>2, SheetGoesOn
  <2> QED BY <1>2, <2>1 DEF IsData
<1>6. left = 0 => Len(docs) = MaxRows
  BY <1>3, <1>4, LoadersAssumption
<1>7. CASE sheet.closed \/ e.kind = "blank"
  <2>1. UNCHANGED <<sheet, left, docs>>
    BY <1>7 DEF ReadItem
  <2>2. IsData(n + 1)' => Len(docs) = MaxRows
    BY <1>3, <1>4, <1>5, <1>6, <1>7
  <2>3. RowsInOrder'
    BY <1>1, <1>2, <2>1, <2>2, RowPassed
  <2> QED BY <1>2, <1>3, <2>1, <2>3 DEF TableInv, SheetRead
<1>8. CASE ~sheet.closed /\ e.kind = "row" /\ left = 0
  <2>1. UNCHANGED <<left, docs>>
    BY <1>8 DEF ReadItem, Spend
  <2>2. RowsInOrder'
    BY <1>1, <1>2, <1>6, <1>8, <2>1, RowPassed
  <2> QED BY <1>2, <1>3, <1>8, <2>1, <2>2 DEF TableInv
<1>9. CASE ~sheet.closed /\ e.kind = "row" /\ left > 0
  <2>1. /\ left' = left - 1 /\ docs' = Append(docs, Doc(<<n + 1>>, 1)) /\ sheet' = sheet
    BY <1>1, <1>9 DEF ReadItem, Spend, Here
  <2>2. Len(docs) < MaxRows
    BY <1>3, <1>4, <1>9, LoadersAssumption
  <2>3. RowsInOrder'
    BY <1>1, <1>2, <1>5, <1>9, <2>1, <2>2, RowTaken
  <2>4. Len(docs') = Len(docs) + 1
    BY <2>1 DEF LoadersTypes
  <2>5. left' + Len(docs') = MaxRows
    BY <1>3, <1>4, <2>1, <2>4, LoadersAssumption
  <2>6. SheetRead'
    BY <1>2, <1>9, <2>1 DEF SheetRead
  <2> QED BY <1>2, <1>3, <2>1, <2>3, <2>5, <2>6 DEF TableInv
<1> QED BY <1>2, <1>4, <1>7, <1>8, <1>9

(* What a step that does not touch the file and the sheet preserves. *)
LEMMA TablesRest ==
    ASSUME LoadersTypes, TableInv, RowsInOrder,
           UNCHANGED <<type, file, sheet, left>>,
           type \in TableTypes => UNCHANGED <<docs, pending>>
    PROVE  TableInv' /\ RowsInOrder'
<1>1. RowsInOrder'
  BY DEF RowsInOrder, TableTypes, IsData, HasHeader, BeyondGap, InSheet, Kind
<1>2. SheetRead => SheetRead'
  BY DEF SheetRead, Headed, Started, Gap, GapAfter, BlanksCounted, SoFar, Data, Kind
<1> QED BY <1>1, <1>2 DEF TableInv

LEMMA TablesKept ==
    ASSUME LoadersTypes, TableInv, RowsInOrder, [LoaderNext]_loaderVars
    PROVE  TableInv' /\ RowsInOrder'
<1>1. CASE Open
  BY <1>1, TablesRest DEF Open
<1>2. CASE LoaderFails
  BY <1>2, TablesRest DEF LoaderFails
<1>3. ASSUME NEW e \in Rows, ReadRow(e)
      PROVE  TableInv' /\ RowsInOrder'
  BY <1>3, ReadRowKeeps
<1>4. CASE NextSheet
  BY <1>4, NextSheetKeeps
<1>5. ASSUME NEW e \in Items, ReadItem(e)
      PROVE  TableInv' /\ RowsInOrder'
  BY <1>5, ReadItemKeeps
<1>6. ASSUME NEW e \in Paragraphs, ReadParagraph(e)
      PROVE  TableInv' /\ RowsInOrder'
  BY <1>6 DEF ReadParagraph, Meet, TableInv, RowsInOrder, TableTypes
<1>7. ASSUME NEW e \in Tables, ReadTable(e)
      PROVE  TableInv' /\ RowsInOrder'
  BY <1>7 DEF ReadTable, Meet, TableInv, RowsInOrder, TableTypes
<1>8. CASE EndOfFile
  <2>1. type \in TableTypes => UNCHANGED <<docs, pending>>
    BY <1>8 DEF EndOfFile, Emptied, Flushed, TableInv
  <2> QED BY <1>8, <2>1, TablesRest DEF EndOfFile
<1>9. CASE UNCHANGED loaderVars
  BY <1>9, TablesRest DEF loaderVars
<1> QED BY <1>1, <1>2, <1>3, <1>4, <1>5, <1>6, <1>7, <1>8, <1>9 DEF LoaderNext

-----------------------------------------------------------------------------
(* Texts: sequences of blocks that hold the positions of a set, in order. *)

InOrder(B, T) ==
    /\ \A b \in DOMAIN B : \A k \in DOMAIN B[b] :
          /\ B[b][k] \in T
          /\ \A l \in 1 .. (k - 1) : B[b][l] < B[b][k]
          /\ \A c \in 1 .. (b - 1) : \A l \in DOMAIN B[c] : B[c][l] < B[b][k]
    /\ \A i \in T : \E b \in DOMAIN B : \E k \in DOMAIN B[b] : B[b][k] = i

(* A new block is begun. *)
LEMMA BlockBegun ==
    ASSUME NEW T, NEW m \in Nat, NEW B, NEW C, InOrder(B, T),
           DOMAIN B = 1 .. m, DOMAIN C = 1 .. (m + 1), C[m + 1] = <<>>,
           \A b \in 1 .. m : C[b] = B[b]
    PROVE  InOrder(C, T)
<1>1. DOMAIN C[m + 1] = {}
  OBVIOUS
<1>2. ASSUME NEW b \in 1 .. (m + 1), NEW k \in DOMAIN C[b]
      PROVE  /\ C[b][k] \in T
             /\ \A l \in 1 .. (k - 1) : C[b][l] < C[b][k]
             /\ \A c \in 1 .. (b - 1) : \A l \in DOMAIN C[c] : C[c][l] < C[b][k]
  <2>1. b \in 1 .. m
    BY <1>1, <1>2
  <2>2. \A c \in 1 .. (b - 1) : c \in 1 .. m
    BY <2>1
  <2> QED BY <2>1, <2>2 DEF InOrder
<1>3. ASSUME NEW i \in T
      PROVE  \E b \in DOMAIN C : \E k \in DOMAIN C[b] : C[b][k] = i
  <2>1. PICK b \in 1 .. m : \E k \in DOMAIN B[b] : B[b][k] = i
    BY DEF InOrder
  <2>2. b \in DOMAIN C /\ C[b] = B[b]
    BY <2>1
  <2> QED BY <2>1, <2>2
<1> QED BY <1>2, <1>3 DEF InOrder

(* The next position goes into the last block. *)
LEMMA BlockGrows ==
    ASSUME NEW n \in Nat, NEW T \in SUBSET (1 .. n), NEW m \in Nat, NEW B, NEW C,
           InOrder(B, T), DOMAIN B = 1 .. (m + 1), DOMAIN C = 1 .. (m + 1),
           \A b \in 1 .. m : C[b] = B[b],
           B[m + 1] \in Seq(Nat), C[m + 1] = Append(B[m + 1], n + 1)
    PROVE  InOrder(C, T \cup {n + 1})
<1>1. PICK q \in Nat : q = Len(B[m + 1])
  OBVIOUS
<1>2. /\ DOMAIN B[m + 1] = 1 .. q /\ DOMAIN C[m + 1] = 1 .. (q + 1)
      /\ C[m + 1][q + 1] = n + 1
      /\ \A k \in 1 .. q : C[m + 1][k] = B[m + 1][k]
  BY <1>1
<1>3. \A b \in 1 .. (m + 1) : \A k \in DOMAIN B[b] :
         k \in DOMAIN C[b] /\ C[b][k] = B[b][k] /\ B[b][k] \in T /\ B[b][k] < n + 1
  <2> SUFFICES ASSUME NEW b \in 1 .. (m + 1), NEW k \in DOMAIN B[b]
               PROVE  k \in DOMAIN C[b] /\ C[b][k] = B[b][k] /\ B[b][k] \in T /\ B[b][k] < n + 1
    OBVIOUS
  <2>1. B[b][k] \in T /\ B[b][k] < n + 1
    <3>1. B[b][k] \in T
      BY DEF InOrder
    <3>2. B[b][k] \in 1 .. n
      BY <3>1
    <3> QED BY <3>1, <3>2
  <2>2. CASE b \in 1 .. m
    <3>1. C[b] = B[b]
      BY <2>2
    <3> QED BY <2>1, <3>1
  <2>3. CASE b = m + 1
    <3>1. k \in 1 .. q
      BY <1>2, <2>3
    <3>2. k \in 1 .. (q + 1) /\ C[m + 1][k] = B[m + 1][k]
      BY <1>2, <3>1
    <3> QED BY <1>2, <2>1, <2>3, <3>2
  <2> QED BY <2>2, <2>3
<1>4. \A b \in 1 .. (m + 1) : \A k \in DOMAIN C[b] :
         k \in DOMAIN B[b] \/ (b = m + 1 /\ k = q + 1)
  <2> SUFFICES ASSUME NEW b \in 1 .. (m + 1), NEW k \in DOMAIN C[b]
               PROVE  k \in DOMAIN B[b] \/ (b = m + 1 /\ k = q + 1)
    OBVIOUS
  <2>1. CASE b \in 1 .. m
    <3>1. C[b] = B[b]
      BY <2>1
    <3> QED BY <3>1
  <2>2. CASE b = m + 1
    <3>1. k \in 1 .. (q + 1)
      BY <1>2, <2>2
    <3>2. k \in 1 .. q \/ k = q + 1
      BY <3>1
    <3> QED BY <1>2, <2>2, <3>2
  <2> QED BY <2>1, <2>2
<1>5. ASSUME NEW b \in 1 .. (m + 1), NEW k \in DOMAIN B[b]
      PROVE  /\ C[b][k] \in T
             /\ \A l \in 1 .. (k - 1) : C[b][l] < C[b][k]
             /\ \A c \in 1 .. (b - 1) : \A l \in DOMAIN C[c] : C[c][l] < C[b][k]
  <2>1. \A c \in 1 .. (b - 1) : c \in 1 .. m
    OBVIOUS
  <2>2. \A c \in 1 .. (b - 1) : \A l \in DOMAIN C[c] : C[c][l] < C[b][k]
    BY <1>3, <2>1 DEF InOrder
  <2>3. \A l \in 1 .. (k - 1) : C[b][l] < C[b][k]
    <3>1. CASE b \in 1 .. m
      BY <3>1 DEF InOrder
    <3>2. CASE b = m + 1
      <4>1. k \in 1 .. q
        BY <1>2, <3>2
      <4>2. \A l \in 1 .. (k - 1) : l \in 1 .. q
        BY <4>1
      <4>3. \A l \in 1 .. (k - 1) : B[m + 1][l] < B[m + 1][k]
        BY <3>2 DEF InOrder
      <4> QED BY <1>2, <3>2, <4>1, <4>2, <4>3
    <3> QED BY <3>1, <3>2
  <2> QED BY <1>3, <2>2, <2>3
<1>6. /\ \A l \in 1 .. q : C[m + 1][l] < C[m + 1][q + 1]
      /\ \A c \in 1 .. m : \A l \in DOMAIN C[c] : C[c][l] < C[m + 1][q + 1]
  <2>1. \A l \in 1 .. q : C[m + 1][l] < n + 1
    BY <1>2, <1>3
  <2>2. \A c \in 1 .. m : \A l \in DOMAIN C[c] : C[c][l] < n + 1
    BY <1>3
  <2> QED BY <1>2, <2>1, <2>2
<1>7. \A b \in DOMAIN C : \A k \in DOMAIN C[b] :
          /\ C[b][k] \in T \cup {n + 1}
          /\ \A l \in 1 .. (k - 1) : C[b][l] < C[b][k]
          /\ \A c \in 1 .. (b - 1) : \A l \in DOMAIN C[c] : C[c][l] < C[b][k]
  <2> SUFFICES ASSUME NEW b \in 1 .. (m + 1), NEW k \in DOMAIN C[b]
               PROVE  /\ C[b][k] \in T \cup {n + 1}
                      /\ \A l \in 1 .. (k - 1) : C[b][l] < C[b][k]
                      /\ \A c \in 1 .. (b - 1) : \A l \in DOMAIN C[c] : C[c][l] < C[b][k]
    OBVIOUS
  <2>1. CASE k \in DOMAIN B[b]
    BY <1>5, <2>1
  <2>2. CASE b = m + 1 /\ k = q + 1
    <3>1. k - 1 = q /\ b - 1 = m
      BY <2>2
    <3> QED BY <1>2, <1>6, <2>2, <3>1
  <2> QED BY <1>4, <2>1, <2>2
<1>8. ASSUME NEW i \in T \cup {n + 1}
      PROVE  \E b \in DOMAIN C : \E k \in DOMAIN C[b] : C[b][k] = i
  <2>1. CASE i \in T
    <3>1. PICK b \in 1 .. (m + 1) : \E k \in DOMAIN B[b] : B[b][k] = i
      BY <2>1 DEF InOrder
    <3> QED BY <1>3, <3>1
  <2>2. CASE i = n + 1
    <3>1. m + 1 \in DOMAIN C /\ q + 1 \in DOMAIN C[m + 1]
      BY <1>2
    <3> QED BY <1>2, <2>2, <3>1
  <2> QED BY <2>1, <2>2
<1> QED BY <1>7, <1>8 DEF InOrder

-----------------------------------------------------------------------------
(* Texts: what the generators keep while they read. *)

Texts == {i \in DOMAIN file : IsText(i)}

\* Where the next block begins.
First == IF pending = <<>> THEN Len(file) + 1 ELSE pending[1]

\* A block that may be yielded: paragraphs that were not enough before the last one.
Begun(of) ==
    /\ of # <<>>
    /\ \A k \in DOMAIN of : Kind(of[k]) = "para"
    /\ Length(of[1], of[Len(of)] - 1) < FlushAt

\* Nothing but blank paragraphs after it so far.
BlankSince(of) == \A j \in (of[Len(of)] + 1) .. Len(file) : file[j] = Element("para", 0)

\* A document that is right however the file goes on.
Right(of, rows) ==
    \/ /\ Len(of) = 1 /\ Kind(of[1]) = "table"
       /\ rows = Cut(file[of[1]].n, RowsLeft(of[1]))
    \/ /\ Begun(of)
       /\ \/ Length(of[1], of[Len(of)]) >= FlushAt
          \/ \E i \in (of[Len(of)] + 1) .. Len(file) :
                /\ Kind(i) = "table"
                /\ \A j \in (of[Len(of)] + 1) .. (i - 1) : file[j] = Element("para", 0)

TextInv ==
    type \in TextTypes =>
        /\ InOrder(Blocks, Texts)
        /\ left = RowsLeft(Len(file) + 1)
        /\ size = Length(First, Len(file)) /\ size < FlushAt
        /\ pending # <<>> => Begun(pending) /\ BlankSince(pending)
        /\ \A d \in DOMAIN docs :
              \/ Right(docs[d].of, docs[d].rows)
              \/ status = "done" /\ d = Len(docs) /\ Begun(docs[d].of)

BlocksOf(D, p) == Append([d \in DOMAIN D |-> D[d].of], p)

LEMMA BlocksOfAre ==
    ASSUME NEW D \in Seq(Documents), NEW p \in Seq(Nat), NEW c \in Nat, c = Len(D)
    PROVE  /\ DOMAIN BlocksOf(D, p) = 1 .. (c + 1) /\ DOMAIN D = 1 .. c
           /\ \A d \in 1 .. c : BlocksOf(D, p)[d] = D[d].of /\ D[d].of \in Seq(Nat)
           /\ BlocksOf(D, p)[c + 1] = p
<1> DEFINE s == [d \in DOMAIN D |-> D[d].of]
<1>1. \A d \in DOMAIN D : D[d].of \in Seq(Nat)
  <2>1. \A d \in DOMAIN D : D[d] \in Documents
    OBVIOUS
  <2> QED BY <2>1 DEF Documents
<1>2. DOMAIN D = 1 .. c
  OBVIOUS
<1>3. s \in Seq(Seq(Nat)) /\ Len(s) = c
  BY <1>1, <1>2
<1>4. BlocksOf(D, p) = Append(s, p)
  BY DEF BlocksOf
<1> QED BY <1>1, <1>2, <1>3, <1>4

LEMMA BlocksOfOne ==
    ASSUME NEW D \in Seq(Documents), NEW c \in Nat, c = Len(D), NEW n \in Nat
    PROVE  /\ DOMAIN BlocksOf(D, <<>>) = 1 .. (c + 1)
           /\ DOMAIN BlocksOf(D, <<n>>) = 1 .. (c + 1)
           /\ \A d \in 1 .. c : BlocksOf(D, <<>>)[d] = D[d].of /\ BlocksOf(D, <<n>>)[d] = D[d].of
           /\ BlocksOf(D, <<>>)[c + 1] = <<>> /\ BlocksOf(D, <<n>>)[c + 1] = <<n>>
<1>1. <<>> \in Seq(Nat) /\ <<n>> \in Seq(Nat)
  OBVIOUS
<1>2. PICK p \in Seq(Nat) : p = <<>>
  BY <1>1
<1>3. PICK q \in Seq(Nat) : q = <<n>>
  BY <1>1
<1>4. /\ DOMAIN BlocksOf(D, p) = 1 .. (c + 1)
      /\ \A d \in 1 .. c : BlocksOf(D, p)[d] = D[d].of
      /\ BlocksOf(D, p)[c + 1] = p
  BY BlocksOfAre
<1>5. /\ DOMAIN BlocksOf(D, q) = 1 .. (c + 1)
      /\ \A d \in 1 .. c : BlocksOf(D, q)[d] = D[d].of
      /\ BlocksOf(D, q)[c + 1] = q
  BY BlocksOfAre
<1> QED BY <1>2, <1>3, <1>4, <1>5

LEMMA BlocksAre ==
    ASSUME LoadersTypes, NEW c \in Nat, c = Len(docs)
    PROVE  /\ DOMAIN Blocks = 1 .. (c + 1) /\ DOMAIN docs = 1 .. c
           /\ \A d \in 1 .. c : Blocks[d] = docs[d].of /\ docs[d].of \in Seq(Nat)
           /\ Blocks[c + 1] = pending /\ pending \in Seq(Nat)
<1>1. docs \in Seq(Documents) /\ pending \in Seq(Nat) /\ Blocks = BlocksOf(docs, pending)
  BY DEF LoadersTypes, Blocks, BlocksOf
<1> QED BY <1>1, BlocksOfAre

LEMMA BlocksAreNext ==
    ASSUME LoadersTypes', NEW c \in Nat, c = Len(docs')
    PROVE  /\ DOMAIN Blocks' = 1 .. (c + 1) /\ DOMAIN docs' = 1 .. c
           /\ \A d \in 1 .. c : Blocks'[d] = docs'[d].of
           /\ Blocks'[c + 1] = pending'
<1>1. docs' \in Seq(Documents) /\ pending' \in Seq(Nat) /\ Blocks' = BlocksOf(docs', pending')
  BY DEF LoadersTypes, Blocks, BlocksOf
<1> QED BY <1>1, BlocksOfAre

(* What is in a block has been met. *)
LEMMA BlocksBehind ==
    ASSUME LoadersTypes, InOrder(Blocks, Texts), NEW n \in Nat, n = Len(file),
           NEW of \in Seq(Nat), of # <<>>,
           of = pending \/ \E d \in DOMAIN docs : of = docs[d].of
    PROVE  /\ of[1] \in 1 .. n /\ of[Len(of)] \in 1 .. n
           /\ \A k \in DOMAIN of : of[k] \in 1 .. n
<1>1. PICK c \in Nat : c = Len(docs)
  BY DEF LoadersTypes
<1>2. \E b \in DOMAIN Blocks : of = Blocks[b]
  <2>1. /\ DOMAIN Blocks = 1 .. (c + 1) /\ DOMAIN docs = 1 .. c
        /\ \A d \in 1 .. c : Blocks[d] = docs[d].of
        /\ Blocks[c + 1] = pending
    BY <1>1, BlocksAre
  <2>2. CASE of = pending
    BY <2>1, <2>2
  <2>3. ASSUME NEW d \in DOMAIN docs, of = docs[d].of
        PROVE  \E b \in DOMAIN Blocks : of = Blocks[b]
    BY <2>1, <2>3
  <2> QED BY <2>2, <2>3
<1>3. \A k \in DOMAIN of : of[k] \in 1 .. n
  BY <1>2 DEF InOrder, Texts, LoadersTypes
<1>4. 1 \in DOMAIN of /\ Len(of) \in DOMAIN of
  OBVIOUS
<1> QED BY <1>3, <1>4

(* What was right stays right when the file goes on. *)
LEMMA RightStays ==
    ASSUME LoadersTypes, NEW e \in Elements, Meet(e), NEW n \in Nat, n = Len(file),
           NEW of \in Seq(Nat), NEW rows,
           of[1] \in 1 .. n, of[Len(of)] \in 1 .. n, \A k \in DOMAIN of : of[k] \in 1 .. n
    PROVE  /\ Right(of, rows) => Right(of, rows)'
           /\ Begun(of) => Begun(of)'
           /\ BlankSince(of) /\ e = Element("para", 0) => BlankSince(of)'
           /\ BlankSince(of) /\ Begun(of) /\ e.kind = "table" => Right(of, rows)'
<1>1. /\ \A i \in 1 .. n : Kind(i)' = Kind(i) /\ file'[i] = file[i] /\ RowsLeft(i)' = RowsLeft(i)
      /\ Len(file') = n + 1 /\ file'[n + 1] = e /\ Kind(n + 1)' = e.kind
  BY Met, TextStable DEF Kind
<1>2. \A i \in 0 .. n : Upto(i)' = Upto(i)
  BY Met
<1>3. PICK a \in 1 .. n, z \in 1 .. n : a = of[1] /\ z = of[Len(of)]
  OBVIOUS
<1>4. Length(a, z)' = Length(a, z) /\ Length(a, z - 1)' = Length(a, z - 1)
  BY <1>2 DEF Length
<1>5. Begun(of) => Begun(of)'
  BY <1>1, <1>3, <1>4 DEF Begun
<1>6. Right(of, rows) => Right(of, rows)'
  <2>1. ASSUME Len(of) = 1 /\ Kind(a) = "table" /\ rows = Cut(file[a].n, RowsLeft(a))
        PROVE  Right(of, rows)'
    <3>1. Len(of) = 1 /\ Kind(a)' = "table" /\ rows = Cut(file'[a].n, RowsLeft(a)')
      BY <1>1, <2>1
    <3> QED BY <1>3, <3>1 DEF Right, Cut
  <2>2. ASSUME Begun(of), Length(a, z) >= FlushAt
        PROVE  Right(of, rows)'
    BY <1>3, <1>4, <1>5, <2>2 DEF Right
  <2>3. ASSUME Begun(of), NEW i \in (z + 1) .. n, Kind(i) = "table",
               \A j \in (z + 1) .. (i - 1) : file[j] = Element("para", 0)
        PROVE  Right(of, rows)'
    <3>1. i \in (z + 1) .. Len(file') /\ Kind(i)' = "table"
      BY <1>1, <2>3
    <3>2. \A j \in (z + 1) .. (i - 1) : file'[j] = Element("para", 0)
      <4>1. \A j \in (z + 1) .. (i - 1) : j \in 1 .. n
        BY <1>1
      <4> QED BY <1>1, <2>3, <4>1
    <3> QED BY <1>3, <1>5, <2>3, <3>1, <3>2 DEF Right, Element
  <2> QED BY <1>3, <2>1, <2>2, <2>3 DEF Right
<1>7. BlankSince(of) /\ e = Element("para", 0) => BlankSince(of)'
  BY <1>1, <1>3 DEF BlankSince, Element
<1>8. ASSUME BlankSince(of), Begun(of), e.kind = "table"
      PROVE  Right(of, rows)'
  <2>1. n + 1 \in (z + 1) .. Len(file') /\ Kind(n + 1)' = "table"
    BY <1>1, <1>8
  <2>2. \A j \in (z + 1) .. n : file'[j] = Element("para", 0)
    BY <1>1, <1>3, <1>8 DEF BlankSince
  <2>3. (n + 1) - 1 = n
    OBVIOUS
  <2> QED BY <1>3, <1>5, <1>8, <2>1, <2>2, <2>3 DEF Right, Element
<1> QED BY <1>5, <1>6, <1>7, <1>8

-----------------------------------------------------------------------------
(* Texts: the steps. *)

\* What the steps assume: the file is being read.
Reading ==
    /\ LoadersTypes /\ type \in TextTypes /\ status = "reading"
    /\ TextInv

LEMMA TextsGrow ==
    ASSUME LoadersTypes, NEW e \in Elements, Meet(e), NEW n \in Nat, n = Len(file)
    PROVE  /\ Texts \in SUBSET (1 .. n)
           /\ IsText(n + 1)' => Texts' = Texts \cup {n + 1}
           /\ ~IsText(n + 1)' => Texts' = Texts
<1>1. DOMAIN file = 1 .. n /\ DOMAIN file' = 1 .. (n + 1)
  BY Met DEF LoadersTypes
<1>2. \A i \in 1 .. n : IsText(i)' <=> IsText(i)
  BY TextStable
<1> QED BY <1>1, <1>2 DEF Texts

(* What the element does to the sums, and to what the budget leaves. *)
LEMMA SumsGrow ==
    ASSUME LoadersTypes, left = RowsLeft(Len(file) + 1),
           NEW e \in Elements, Meet(e), NEW n \in Nat, n = Len(file)
    PROVE  /\ RowsLeft(n + 1)' = left
           /\ e.kind = "para" => /\ RowsLeft(n + 2)' = left
                                 /\ IsText(n + 1)' <=> e.n > 0
           /\ e.kind = "table" => /\ RowsLeft(n + 2)' = left - Kept(e.n)
                                  /\ IsText(n + 1)' <=> Kept(e.n) > 0
           /\ e.kind = "table" => Cut(file'[n + 1].n, RowsLeft(n + 1)') = Kept(e.n)
<1>1. /\ Upto(n)' = Upto(n) /\ Upto(n).table \in Nat /\ e.n \in Nat
      /\ Upto(n + 1)'.table = Upto(n).table + IF e.kind = "table" THEN e.n ELSE 0
      /\ file'[n + 1] = e /\ left \in Nat
  <2>1. e.n \in Nat
    BY DEF Elements
  <2>2. left \in Nat /\ n \in 0 .. n
    BY DEF LoadersTypes
  <2>3. Upto(n).table \in Nat
    BY <2>2, UptoType
  <2> QED BY <2>1, <2>2, <2>3, Met
<1>2. left = IF Upto(n).table >= MaxRows THEN 0 ELSE MaxRows - Upto(n).table
  <2>1. (n + 1) - 1 = n
    OBVIOUS
  <2> QED BY <2>1 DEF RowsLeft
<1>3. RowsLeft(n + 1)' = left
  <2>1. (n + 1) - 1 = n
    OBVIOUS
  <2> QED BY <1>1, <1>2, <2>1 DEF RowsLeft
<1>4. RowsLeft(n + 2)' = IF Upto(n + 1)'.table >= MaxRows THEN 0
                                                         ELSE MaxRows - Upto(n + 1)'.table
  <2>1. (n + 2) - 1 = n + 1
    OBVIOUS
  <2> QED BY <2>1 DEF RowsLeft
<1>5. Kind(n + 1)' = e.kind
  BY <1>1 DEF Kind
<1>6. CASE e.kind = "para"
  <2>1. RowsLeft(n + 2)' = left
    BY <1>1, <1>2, <1>4, <1>6
  <2>2. IsText(n + 1)' <=> e.n > 0
    BY <1>1, <1>5, <1>6 DEF IsText
  <2> QED BY <1>3, <1>6, <2>1, <2>2
<1>7. CASE e.kind = "table"
  <2>1. RowsLeft(n + 2)' = left - Kept(e.n)
    BY <1>1, <1>2, <1>4, <1>7, LoadersAssumption DEF Kept
  <2>2. Cut(file'[n + 1].n, RowsLeft(n + 1)') = Kept(e.n)
    BY <1>1, <1>3 DEF Cut, Kept
  <2>3. IsText(n + 1)' <=> Kept(e.n) > 0
    BY <1>5, <1>7, <2>2 DEF IsText, Cut
  <2> QED BY <1>3, <1>7, <2>1, <2>2, <2>3
<1> QED BY <1>3, <1>6, <1>7

(* Documents that are right remain so. *)
LEMMA DocsStay ==
    ASSUME Reading, NEW e \in Elements, Meet(e), NEW c \in Nat, c = Len(docs)
    PROVE  \A d \in 1 .. c : \A of, rows :
              of = docs[d].of /\ rows = docs[d].rows => Right(of, rows)'
<1> SUFFICES ASSUME NEW d \in 1 .. c, NEW of, NEW rows,
                    of = docs[d].of, rows = docs[d].rows
             PROVE  Right(of, rows)'
  OBVIOUS
<1>1. PICK n \in Nat : n = Len(file)
  BY DEF Reading, LoadersTypes
<1>2. of \in Seq(Nat) /\ d \in DOMAIN docs
  BY BlocksAre DEF Reading
<1>3. Right(of, rows)
  BY <1>2 DEF Reading, TextInv
<1>4. of # <<>>
  BY <1>2, <1>3 DEF Right, Begun
<1>5. of[1] \in 1 .. n /\ of[Len(of)] \in 1 .. n /\ \A k \in DOMAIN of : of[k] \in 1 .. n
  BY <1>1, <1>2, <1>4, BlocksBehind DEF Reading, TextInv
<1> QED BY <1>1, <1>2, <1>3, <1>5, RightStays DEF Reading

(* The paragraphs that are pending, with one more. *)
LEMMA PendingGrows ==
    ASSUME Reading, NEW e \in Elements, Meet(e), e.kind = "para",
           NEW n \in Nat, n = Len(file), NEW now, now = Append(pending, n + 1)
    PROVE  /\ now \in Seq(Nat) /\ now # <<>> /\ Len(now) \in Nat
           /\ now[1] = First /\ now[Len(now)] = n + 1
           /\ First \in 1 .. (n + 1)
           /\ \A f : f = First => Length(f, n + 1)' = size + e.n
           /\ Begun(now)'
<1>1. LoadersTypes /\ type \in TextTypes /\ TextInv /\ pending \in Seq(Nat)
  BY DEF Reading, LoadersTypes
<1>2. /\ size = Length(First, n) /\ size < FlushAt /\ size \in Nat
      /\ pending # <<>> => Begun(pending)
      /\ InOrder(Blocks, Texts)
  BY <1>1 DEF TextInv, LoadersTypes
<1>3. now \in Seq(Nat) /\ now # <<>> /\ Len(now) = Len(pending) + 1
      /\ now[Len(now)] = n + 1 /\ Len(pending) \in Nat
  BY <1>1
<1>4. pending # <<>> => /\ pending[1] \in 1 .. n /\ now[1] = pending[1]
                        /\ \A k \in DOMAIN pending : pending[k] \in 1 .. n
  <2>1. pending # <<>> => now[1] = pending[1]
    BY <1>1
  <2> QED BY <1>1, <1>2, <2>1, BlocksBehind
<1>5. now[1] = First /\ First \in 1 .. (n + 1)
  BY <1>1, <1>4 DEF First
<1>6. PICK f \in 1 .. (n + 1) : f = First
  BY <1>5
<1>7. /\ \A i \in 0 .. n : Upto(i)' = Upto(i)
      /\ Upto(n + 1)'.para = Upto(n).para + e.n
      /\ \A i \in 1 .. n : Kind(i)' = Kind(i)
      /\ Kind(n + 1)' = "para"
  BY <1>1, Met DEF Kind
<1>8. \A i \in 0 .. n : Upto(i).para \in Nat
  BY <1>1, UptoType
<1>9. Length(f, n)' = size
  <2>1. f - 1 \in 0 .. n /\ n \in 0 .. n
    OBVIOUS
  <2> QED BY <1>2, <1>6, <1>7, <2>1 DEF Length
<1>10. Length(f, n + 1)' = size + e.n
  <2>1. f - 1 \in 0 .. n /\ n \in 0 .. n /\ e.n \in Nat
    BY DEF Elements
  <2> QED BY <1>2, <1>6, <1>7, <1>8, <2>1 DEF Length
<1>11. \A k \in DOMAIN now : Kind(now[k])' = "para"
  <2> SUFFICES ASSUME NEW k \in 1 .. Len(pending) + 1
               PROVE  \E i \in 1 .. (n + 1) : i = now[k] /\ Kind(i)' = "para"
    BY <1>3 DEF Kind
  <2>1. CASE k = Len(pending) + 1
    BY <1>3, <1>7, <2>1
  <2>2. CASE k \in 1 .. Len(pending)
    <3>1. pending # <<>> /\ k \in DOMAIN pending /\ now[k] = pending[k]
      BY <1>1, <2>2
    <3> QED BY <1>2, <1>4, <1>7, <3>1 DEF Begun
  <2> QED BY <1>3, <2>1, <2>2
<1>12. Begun(now)'
  <2>1. (n + 1) - 1 = n
    OBVIOUS
  <2> QED BY <1>2, <1>3, <1>5, <1>6, <1>9, <1>11, <2>1 DEF Begun
<1> QED BY <1>3, <1>5, <1>6, <1>10, <1>12

LEMMA ParagraphKeeps ==
    ASSUME Reading, NEW e \in Paragraphs, ReadParagraph(e)
    PROVE  TextInv'
<1>1. PICK n \in Nat : n = Len(file)
  BY DEF Reading, LoadersTypes
<1>2. PICK c \in Nat : c = Len(docs)
  BY DEF Reading, LoadersTypes
<1>3. /\ Meet(e) /\ e \in Elements /\ e.kind = "para" /\ e = Element("para", e.n)
      /\ e.n \in Nat
      /\ UNCHANGED <<type, status, left, sheet>> /\ type \in TextTypes
      /\ status = "reading"
  BY ElementTypes DEF ReadParagraph, Meet, Elements, Reading
<1>4. /\ LoadersTypes /\ LoadersTypes' /\ InOrder(Blocks, Texts)
      /\ left = RowsLeft(Len(file) + 1)
      /\ size = Length(First, n) /\ size < FlushAt /\ size \in Nat
      /\ pending # <<>> => Begun(pending) /\ BlankSince(pending)
  <2>1. LoadersTypes'
    BY <1>3, TypesKept DEF Reading, LoaderNext
  <2> QED BY <1>1, <2>1 DEF Reading, TextInv, LoadersTypes
<1>5. /\ Len(file') = n + 1 /\ (n + 1) + 1 = n + 2
      /\ left' = RowsLeft(n + 2)' /\ (IsText(n + 1)' <=> e.n > 0)
  BY <1>1, <1>3, <1>4, SumsGrow, Met
<1>6. left' = RowsLeft(Len(file) + 1)'
  BY <1>5
<1>7. /\ Texts \in SUBSET (1 .. n)
      /\ e.n > 0 => Texts' = Texts \cup {n + 1}
      /\ e.n = 0 => Texts' = Texts
  BY <1>1, <1>3, <1>4, <1>5, TextsGrow
<1>8. \A d \in 1 .. c : \A of, rows :
         of = docs[d].of /\ rows = docs[d].rows => Right(of, rows)'
  BY <1>2, <1>3, DocsStay
<1>9. /\ DOMAIN Blocks = 1 .. (c + 1) /\ DOMAIN docs = 1 .. c
      /\ \A d \in 1 .. c : Blocks[d] = docs[d].of
      /\ Blocks[c + 1] = pending /\ pending \in Seq(Nat) /\ docs \in Seq(Documents)
  BY <1>2, <1>4, BlocksAre DEF LoadersTypes
<1>10. CASE e.n = 0
  <2>1. UNCHANGED <<pending, size, docs>>
    BY <1>3, <1>10 DEF ReadParagraph
  <2>2. Blocks' = Blocks /\ InOrder(Blocks, Texts)'
    BY <1>4, <1>7, <1>10, <2>1 DEF Blocks
  <2>3. \A i \in 0 .. n : Upto(i)' = Upto(i)
    BY <1>1, <1>3, <1>4, Met
  <2>4. /\ Upto(n + 1)'.para = Upto(n).para
        /\ Upto(n).para \in Nat
    <3>1. Upto(n).para \in Nat /\ Upto(n + 1)'.para = Upto(n).para + e.n
      BY <1>1, <1>3, <1>4, Met, UptoType
    <3> QED BY <1>10, <3>1
  <2>5. size' = Length(First, Len(file))'
    <3>1. CASE pending = <<>>
      <4>1. First = n + 1 /\ First' = n + 2
        BY <1>1, <1>5, <2>1, <3>1 DEF First
      <4>2. Length(n + 1, n) = 0
        <5>1. (n + 1) - 1 = n
          OBVIOUS
        <5> QED BY <2>4, <5>1 DEF Length
      <4>3. Length(n + 2, n + 1)' = 0
        <5>1. (n + 2) - 1 = n + 1
          OBVIOUS
        <5> QED BY <2>4, <5>1 DEF Length
      <4> QED BY <1>4, <1>5, <2>1, <4>1, <4>2, <4>3
    <3>2. CASE pending # <<>>
      <4>1. PICK f \in 1 .. n : f = pending[1]
        BY <1>1, <1>4, <1>9, <3>2, BlocksBehind
      <4>2. First = f /\ First' = f
        BY <2>1, <3>2, <4>1 DEF First
      <4>3. Length(f, n + 1)' = Length(f, n)
        BY <2>3, <2>4 DEF Length
      <4> QED BY <1>4, <1>5, <2>1, <4>2, <4>3
    <3> QED BY <3>1, <3>2
  <2>6. ASSUME pending # <<>>
        PROVE  Begun(pending)' /\ BlankSince(pending)'
    <3>1. PICK of \in Seq(Nat) : of = pending
      BY <1>9
    <3>2. of # <<>> /\ Begun(of) /\ BlankSince(of)
      BY <1>4, <2>6, <3>1
    <3>3. of[1] \in 1 .. n /\ of[Len(of)] \in 1 .. n /\ \A k \in DOMAIN of : of[k] \in 1 .. n
      BY <1>1, <1>4, <3>1, <3>2, BlocksBehind
    <3>4. Begun(of)' /\ BlankSince(of)'
      BY <1>1, <1>3, <1>4, <1>10, <3>2, <3>3, RightStays
    <3> QED BY <2>1, <3>1, <3>4 DEF Begun, BlankSince
  <2>7. \A d \in DOMAIN docs' : Right(docs[d].of, docs[d].rows)'
    BY <1>8, <1>9, <2>1
  <2> QED BY <1>3, <1>4, <1>6, <2>1, <2>2, <2>5, <2>6, <2>7 DEF TextInv
<1>11. ASSUME e.n > 0
       PROVE  TextInv'
  <2>1. PICK now : now = Append(pending, n + 1)
    OBVIOUS
  <2>2. /\ now \in Seq(Nat) /\ now # <<>> /\ Len(now) \in Nat
        /\ now[1] = First /\ now[Len(now)] = n + 1 /\ First \in 1 .. (n + 1)
        /\ \A f : f = First => Length(f, n + 1)' = size + e.n
        /\ Begun(now)'
    BY <1>1, <1>3, <2>1, PendingGrows
  <2>3. ReadText(e) /\ Here = n + 1
    BY <1>1, <1>3, <1>11 DEF ReadParagraph, Here
  <2>4. Texts' = Texts \cup {n + 1}
    BY <1>7, <1>11
  <2>5. CASE ~Full(size + e.n)
    <3>1. pending' = now /\ size' = size + e.n /\ docs' = docs
      BY <2>1, <2>3, <2>5 DEF ReadText
    <3>2. InOrder(Blocks, Texts)'
      <4>1. /\ DOMAIN Blocks' = 1 .. (c + 1)
            /\ \A d \in 1 .. c : Blocks'[d] = Blocks[d]
            /\ Blocks'[c + 1] = Append(pending, n + 1)
        BY <1>2, <1>4, <1>9, <2>1, <3>1, BlocksAreNext
      <4>2. InOrder(Blocks', Texts \cup {n + 1})
        BY <1>4, <1>7, <1>9, <4>1, BlockGrows
      <4> QED BY <2>4, <4>2
    <3>3. size' = Length(First, Len(file))'
      <4>1. First' = First
        BY <2>2, <3>1 DEF First
      <4> QED BY <1>5, <2>2, <3>1, <4>1
    <3>4. size' < FlushAt
      BY <1>3, <1>4, <2>5, <3>1, LoadersAssumption DEF Full
    <3>5. Begun(pending)' /\ BlankSince(pending)'
      <4>1. BlankSince(now)'
        BY <1>5, <2>2 DEF BlankSince
      <4> QED BY <2>2, <3>1, <4>1 DEF Begun, BlankSince
    <3>6. \A d \in DOMAIN docs' : Right(docs[d].of, docs[d].rows)'
      BY <1>8, <1>9, <3>1
    <3> QED BY <1>3, <1>6, <3>2, <3>3, <3>4, <3>5, <3>6 DEF TextInv
  <2>6. CASE Full(size + e.n)
    <3>1. pending' = <<>> /\ size' = 0 /\ docs' = Append(docs, Doc(now, 0))
      BY <2>1, <2>3, <2>6 DEF ReadText, Emptied
    <3>2. /\ Len(docs') = c + 1 /\ DOMAIN docs' = 1 .. (c + 1)
          /\ docs'[c + 1] = Doc(now, 0)
          /\ \A d \in 1 .. c : docs'[d] = docs[d]
      <4>1. Doc(now, 0) \in Documents
        BY <2>2, DocType
      <4> QED BY <1>2, <1>9, <3>1, <4>1
    <3>3. docs'[c + 1].of = now /\ docs'[c + 1].rows = 0
      BY <3>2 DEF Doc
    <3>4. InOrder(Blocks, Texts)'
      <4>1. /\ DOMAIN Blocks' = 1 .. ((c + 1) + 1)
            /\ \A d \in 1 .. (c + 1) : Blocks'[d] = docs'[d].of
            /\ Blocks'[(c + 1) + 1] = <<>>
        BY <1>4, <3>1, <3>2, BlocksAreNext, c + 1 \in Nat
      <4> DEFINE B == [d \in 1 .. (c + 1) |-> docs'[d].of]
      <4>2. /\ DOMAIN B = 1 .. (c + 1)
            /\ \A d \in 1 .. c : B[d] = Blocks[d]
            /\ B[c + 1] = Append(pending, n + 1)
        BY <1>9, <2>1, <3>2, <3>3
      <4>3. \A d \in 1 .. (c + 1) : Blocks'[d] = B[d]
        BY <4>1
      <4> HIDE DEF B
      <4>4. InOrder(B, Texts \cup {n + 1})
        BY <1>4, <1>7, <1>9, <4>2, BlockGrows
      <4>5. InOrder(Blocks', Texts \cup {n + 1})
        BY <4>1, <4>2, <4>3, <4>4, BlockBegun, c + 1 \in Nat
      <4> QED BY <2>4, <4>5
    <3>5. size' = Length(First, Len(file))'
      <4>1. First' = n + 2
        BY <1>5, <3>1 DEF First
      <4>2. Upto(n + 1)'.para \in Nat
        <5>1. Upto(n).para \in Nat
          BY <1>1, <1>4, UptoType
        <5> QED BY <1>1, <1>3, <1>4, <5>1, Met
      <4>3. Length(n + 2, n + 1)' = 0
        <5>1. (n + 2) - 1 = n + 1
          OBVIOUS
        <5> QED BY <4>2, <5>1 DEF Length
      <4> QED BY <1>5, <3>1, <4>1, <4>3
    <3>6. Right(now, 0)'
      <4>1. \A f : f = First => Length(f, n + 1)' >= FlushAt
        BY <2>2, <2>6 DEF Full
      <4>2. Length(now[1], now[Len(now)])' >= FlushAt
        BY <2>2, <4>1
      <4> QED BY <2>2, <4>2 DEF Right
    <3>7. \A d \in DOMAIN docs' : Right(docs[d].of, docs[d].rows)'
      BY <1>8, <3>2, <3>3, <3>6
    <3> QED BY <1>3, <1>6, <3>1, <3>4, <3>5, <3>7, LoadersAssumption DEF TextInv
  <2> QED BY <2>5, <2>6
<1> QED BY <1>3, <1>10, <1>11

(* What was pending is a document of its own, and nothing is pending. *)
LEMMA FlushKeeps ==
    ASSUME LoadersTypes, InOrder(Blocks, Texts), NEW F, F = Flushed,
           NEW c \in Nat, c = Len(docs)
    PROVE  /\ F \in Seq(Documents)
           /\ InOrder(BlocksOf(F, <<>>), Texts)
           /\ \A d \in DOMAIN F : \/ d \in 1 .. c /\ F[d] = docs[d]
                                  \/ /\ d = c + 1 /\ d = Len(F)
                                     /\ pending # <<>> /\ F[d].of = pending
<1>1. /\ docs \in Seq(Documents) /\ pending \in Seq(Nat) /\ <<>> \in Seq(Nat)
      /\ F \in Seq(Documents)
  BY FlushedType DEF LoadersTypes
<1>2. /\ DOMAIN Blocks = 1 .. (c + 1) /\ DOMAIN docs = 1 .. c
      /\ \A d \in 1 .. c : Blocks[d] = docs[d].of
      /\ Blocks[c + 1] = pending
  BY BlocksAre
<1>3. CASE pending = <<>>
  <2>1. F = docs /\ BlocksOf(F, <<>>) = Blocks
    BY <1>3 DEF Flushed, BlocksOf, Blocks
  <2> QED BY <1>1, <1>2, <2>1
<1>4. CASE pending # <<>>
  <2>1. F = Append(docs, Doc(pending, 0)) /\ Doc(pending, 0) \in Documents
        /\ Doc(pending, 0).of = pending
    BY <1>1, <1>4, DocType DEF Flushed, Doc
  <2>2. /\ Len(F) = c + 1 /\ DOMAIN F = 1 .. (c + 1)
        /\ F[c + 1].of = pending
        /\ \A d \in 1 .. c : F[d] = docs[d]
    BY <1>1, <2>1
  <2>3. PICK m \in Nat : m = c + 1
    OBVIOUS
  <2>4. /\ DOMAIN BlocksOf(F, <<>>) = 1 .. (m + 1)
        /\ \A d \in 1 .. m : BlocksOf(F, <<>>)[d] = F[d].of
        /\ BlocksOf(F, <<>>)[m + 1] = <<>>
    BY <1>1, <2>2, <2>3, BlocksOfOne
  <2>5. \A d \in 1 .. m : BlocksOf(F, <<>>)[d] = Blocks[d]
    BY <1>2, <2>2, <2>3, <2>4
  <2>6. InOrder(BlocksOf(F, <<>>), Texts)
    BY <1>2, <2>3, <2>4, <2>5, BlockBegun
  <2> QED BY <1>1, <1>4, <2>2, <2>6
<1> QED BY <1>3, <1>4

LEMMA TableKeeps ==
    ASSUME Reading, NEW e \in Tables, ReadTable(e)
    PROVE  TextInv'
<1>1. PICK n \in Nat : n = Len(file)
  BY DEF Reading, LoadersTypes
<1>2. PICK c \in Nat : c = Len(docs)
  BY DEF Reading, LoadersTypes
<1>3. PICK k \in Nat : k = Kept(e.n)
  <2>1. e.n \in Nat /\ left \in Nat
    BY ElementTypes DEF Elements, Reading, LoadersTypes
  <2> QED BY <2>1 DEF Kept
<1>4. /\ Meet(e) /\ e \in Elements /\ e.kind = "table" /\ e.n \in Nat
      /\ UNCHANGED <<type, status>> /\ type \in TextTypes /\ status = "reading"
      /\ left' = left - k /\ pending' = <<>> /\ size' = 0
  BY <1>3, ElementTypes DEF ReadTable, Emptied, Meet, Elements, Reading
<1>5. /\ LoadersTypes /\ LoadersTypes' /\ InOrder(Blocks, Texts)
      /\ left = RowsLeft(Len(file) + 1)
      /\ pending # <<>> => Begun(pending) /\ BlankSince(pending)
  <2>1. LoadersTypes'
    BY TypesKept DEF Reading, LoaderNext
  <2> QED BY <2>1 DEF Reading, TextInv
<1>6. /\ Len(file') = n + 1 /\ file'[n + 1] = e /\ (n + 1) + 1 = n + 2
      /\ left' = RowsLeft(n + 2)' /\ (IsText(n + 1)' <=> k > 0)
      /\ Cut(file'[n + 1].n, RowsLeft(n + 1)') = k
  BY <1>1, <1>4, <1>5, <1>3, SumsGrow, Met
<1>7. left' = RowsLeft(Len(file) + 1)'
  BY <1>6
<1>8. /\ Texts \in SUBSET (1 .. n)
      /\ k > 0 => Texts' = Texts \cup {n + 1}
      /\ ~(k > 0) => Texts' = Texts
  BY <1>1, <1>4, <1>5, <1>6, TextsGrow
<1>9. size' = Length(First, Len(file))' /\ size' < FlushAt
  <2>1. First' = n + 2
    BY <1>4, <1>6 DEF First
  <2>2. Upto(n + 1)'.para \in Nat
    <3>1. Upto(n).para \in Nat
      BY <1>1, <1>5, UptoType
    <3> QED BY <1>1, <1>4, <1>5, <3>1, Met
  <2>3. Length(n + 2, n + 1)' = 0
    <3>1. (n + 2) - 1 = n + 1
      OBVIOUS
    <3> QED BY <2>2, <3>1 DEF Length
  <2> QED BY <1>4, <1>6, <2>1, <2>3, LoadersAssumption
<1>10. PICK F : F = Flushed
  OBVIOUS
<1>11. /\ F \in Seq(Documents)
       /\ InOrder(BlocksOf(F, <<>>), Texts)
       /\ \A d \in DOMAIN F : \/ d \in 1 .. c /\ F[d] = docs[d]
                              \/ pending # <<>> /\ F[d].of = pending
  BY <1>2, <1>5, <1>10, FlushKeeps
<1>12. \A d \in DOMAIN F : \A of, rows :
          of = F[d].of /\ rows = F[d].rows => Right(of, rows)'
  <2> SUFFICES ASSUME NEW d \in DOMAIN F, NEW of, NEW rows, of = F[d].of, rows = F[d].rows
               PROVE  Right(of, rows)'
    OBVIOUS
  <2>1. CASE d \in 1 .. c /\ F[d] = docs[d]
    BY <1>2, <1>4, <2>1, DocsStay
  <2>2. CASE pending # <<>> /\ of = pending
    <3>1. of \in Seq(Nat) /\ Begun(of) /\ BlankSince(of)
      BY <1>5, <2>2 DEF LoadersTypes
    <3>2. of[1] \in 1 .. n /\ of[Len(of)] \in 1 .. n /\ \A at \in DOMAIN of : of[at] \in 1 .. n
      BY <1>1, <1>5, <2>2, <3>1, BlocksBehind
    <3> QED BY <1>1, <1>4, <1>5, <3>1, <3>2, RightStays
  <2> QED BY <1>11, <2>1, <2>2
<1>13. CASE ~(k > 0)
  <2>1. docs' = F
    BY <1>10, <1>13, <1>3 DEF ReadTable, BeforeTable
  <2>2. InOrder(Blocks, Texts)'
    <3>1. Blocks' = BlocksOf(F, <<>>)
      BY <1>4, <2>1 DEF Blocks, BlocksOf
    <3> QED BY <1>8, <1>11, <1>13, <3>1
  <2>3. \A d \in DOMAIN docs' : Right(docs[d].of, docs[d].rows)'
    BY <1>12, <2>1
  <2> QED BY <1>4, <1>7, <1>9, <2>2, <2>3 DEF TextInv
<1>14. CASE k > 0
  <2>1. docs' = Append(F, Doc(<<n + 1>>, k))
    BY <1>1, <1>10, <1>14, <1>3 DEF ReadTable, BeforeTable, Here
  <2>2. PICK f \in Nat : f = Len(F)
    BY <1>11
  <2>3. <<n + 1>> \in Seq(Nat)
    OBVIOUS
  <2>4. /\ Len(docs') = f + 1 /\ DOMAIN docs' = 1 .. (f + 1) /\ DOMAIN F = 1 .. f
        /\ docs'[f + 1] = Doc(<<n + 1>>, k)
        /\ \A d \in 1 .. f : docs'[d] = F[d]
    <3>1. Doc(<<n + 1>>, k) \in Documents
      BY <2>3, DocType
    <3> QED BY <1>11, <2>1, <2>2, <3>1
  <2>5. docs'[f + 1].of = <<n + 1>> /\ docs'[f + 1].rows = k
    BY <2>4 DEF Doc
  <2>6. InOrder(Blocks, Texts)'
    <3>1. PICK m \in Nat : m = f + 1
      OBVIOUS
    <3>2. /\ DOMAIN BlocksOf(F, <<>>) = 1 .. (f + 1)
          /\ \A d \in 1 .. f : BlocksOf(F, <<>>)[d] = F[d].of
          /\ BlocksOf(F, <<>>)[f + 1] = <<>>
      BY <1>11, <2>2, BlocksOfOne
    <3>3. /\ DOMAIN BlocksOf(F, <<n + 1>>) = 1 .. (f + 1)
          /\ \A d \in 1 .. f : BlocksOf(F, <<n + 1>>)[d] = F[d].of
          /\ BlocksOf(F, <<n + 1>>)[f + 1] = <<n + 1>>
      BY <1>11, <2>2, BlocksOfOne, n + 1 \in Nat
    <3>4. <<n + 1>> = Append(<<>>, n + 1) /\ <<>> \in Seq(Nat)
      OBVIOUS
    <3>5. InOrder(BlocksOf(F, <<n + 1>>), Texts \cup {n + 1})
      <4> DEFINE B == BlocksOf(F, <<>>)
                 C == BlocksOf(F, <<n + 1>>)
      <4>1. \A d \in 1 .. f : C[d] = B[d]
        BY <3>2, <3>3
      <4>2. B[f + 1] \in Seq(Nat) /\ C[f + 1] = Append(B[f + 1], n + 1)
        BY <3>2, <3>3, <3>4
      <4>3. InOrder(B, Texts) /\ DOMAIN B = 1 .. (f + 1) /\ DOMAIN C = 1 .. (f + 1)
        BY <1>11, <3>2, <3>3
      <4> HIDE DEF B, C
      <4>4. InOrder(C, Texts \cup {n + 1})
        BY <1>8, <4>1, <4>2, <4>3, BlockGrows
      <4> QED BY <4>4 DEF C
    <3>6. /\ DOMAIN Blocks' = 1 .. (m + 1)
          /\ \A d \in 1 .. m : Blocks'[d] = docs'[d].of
          /\ Blocks'[m + 1] = <<>>
      BY <1>4, <1>5, <2>4, <3>1, BlocksAreNext
    <3>7. \A d \in 1 .. m : Blocks'[d] = BlocksOf(F, <<n + 1>>)[d]
      BY <2>4, <2>5, <3>1, <3>3, <3>6
    <3>8. InOrder(Blocks', Texts \cup {n + 1})
      BY <3>1, <3>3, <3>5, <3>6, <3>7, BlockBegun
    <3> QED BY <1>8, <1>14, <3>8
  <2>7. Right(<<n + 1>>, k)'
    <3>1. PICK of, rows : of = <<n + 1>> /\ rows = k
      OBVIOUS
    <3>2. Len(of) = 1 /\ of[1] = n + 1 /\ Kind(n + 1)' = "table"
      BY <1>4, <1>6, <3>1 DEF Kind
    <3>3. rows = Cut(file[of[1]].n, RowsLeft(of[1]))'
      BY <1>6, <3>1, <3>2 DEF Cut
    <3>4. Right(of, rows)'
      BY <3>2, <3>3 DEF Right
    <3> QED BY <3>1, <3>4
  <2>8. \A d \in DOMAIN docs' : Right(docs[d].of, docs[d].rows)'
    <3>1. \A d \in 1 .. (f + 1) : \A of, rows :
             of = docs'[d].of /\ rows = docs'[d].rows => Right(of, rows)'
      <4> SUFFICES ASSUME NEW d \in 1 .. (f + 1), NEW of, NEW rows,
                          of = docs'[d].of, rows = docs'[d].rows
                   PROVE  Right(of, rows)'
        OBVIOUS
      <4>1. CASE d \in 1 .. f
        BY <1>12, <2>4, <4>1
      <4>2. CASE d = f + 1
        BY <2>5, <2>7, <4>2
      <4> QED BY <4>1, <4>2
    <3> QED BY <2>4, <3>1
  <2> QED BY <1>4, <1>7, <1>9, <2>6, <2>8 DEF TextInv
<1> QED BY <1>13, <1>14

LEMMA EndKeeps ==
    ASSUME Reading, EndOfFile
    PROVE  TextInv'
<1>1. PICK n \in Nat : n = Len(file)
  BY DEF Reading, LoadersTypes
<1>2. PICK c \in Nat : c = Len(docs)
  BY DEF Reading, LoadersTypes
<1>3. /\ UNCHANGED <<type, file, total, left>> /\ status' = "done"
      /\ docs' = Flushed /\ pending' = <<>> /\ size' = 0
      /\ LoadersTypes /\ InOrder(Blocks, Texts) /\ left = RowsLeft(Len(file) + 1)
      /\ pending # <<>> => Begun(pending)
      /\ \A d \in DOMAIN docs : Right(docs[d].of, docs[d].rows)
  BY DEF EndOfFile, Emptied, Reading, TextInv
<1>4. PICK F : F = Flushed
  OBVIOUS
<1>5. /\ InOrder(BlocksOf(F, <<>>), Texts)
      /\ \A d \in DOMAIN F : \/ d \in 1 .. c /\ F[d] = docs[d]
                             \/ /\ d = c + 1 /\ d = Len(F)
                                /\ pending # <<>> /\ F[d].of = pending
  BY <1>2, <1>3, <1>4, FlushKeeps
<1>6. InOrder(Blocks, Texts)'
  <2>1. Blocks' = BlocksOf(F, <<>>)
    BY <1>3, <1>4 DEF Blocks, BlocksOf
  <2>2. Texts' = Texts
    BY <1>3 DEF Texts, IsText, Kind, RowsLeft, Upto
  <2> QED BY <1>5, <2>1, <2>2
<1>7. left' = RowsLeft(Len(file) + 1)'
  BY <1>3 DEF RowsLeft, Upto
<1>8. size' = Length(First, Len(file))' /\ size' < FlushAt
  <2>1. First' = n + 1
    BY <1>1, <1>3 DEF First
  <2>2. Upto(n).para \in Nat
    BY <1>1, <1>3, UptoType
  <2>3. Upto(n)' = Upto(n)
    BY <1>3 DEF Upto
  <2>4. Length(n + 1, n)' = 0
    <3>1. (n + 1) - 1 = n
      OBVIOUS
    <3> QED BY <2>2, <2>3, <3>1 DEF Length
  <2> QED BY <1>1, <1>3, <2>1, <2>4, LoadersAssumption
<1>9. ASSUME NEW of, NEW rows
      PROVE  (Right(of, rows) => Right(of, rows)') /\ (Begun(of) => Begun(of)')
  BY <1>3 DEF Right, Begun, Kind, Length, RowsLeft, Upto, Element, Cut
<1>10. \A d \in DOMAIN F : \A of, rows : of = F[d].of /\ rows = F[d].rows =>
          \/ Right(of, rows)'
          \/ d = Len(F) /\ Begun(of)'
  <2> SUFFICES ASSUME NEW d \in DOMAIN F, NEW of, NEW rows, of = F[d].of, rows = F[d].rows
               PROVE  Right(of, rows)' \/ (d = Len(F) /\ Begun(of)')
    OBVIOUS
  <2>1. CASE d \in 1 .. c /\ F[d] = docs[d]
    <3>1. d \in DOMAIN docs
      BY <1>2, <1>3, <2>1 DEF LoadersTypes
    <3>2. Right(of, rows)
      BY <1>3, <2>1, <3>1
    <3> QED BY <1>9, <3>2
  <2>2. CASE d = Len(F) /\ pending # <<>> /\ F[d].of = pending
    BY <1>3, <1>9, <2>2
  <2> QED BY <1>5, <2>1, <2>2
<1>11. \A d \in DOMAIN docs' :
          \/ Right(docs[d].of, docs[d].rows)'
          \/ status' = "done" /\ d = Len(docs') /\ Begun(docs[d].of)'
  BY <1>3, <1>4, <1>10
<1> QED BY <1>3, <1>6, <1>7, <1>8, <1>11 DEF TextInv

(* Steps that do not read. *)
LEMMA TextsRest ==
    ASSUME TextInv, UNCHANGED <<type, file, total, left, pending, size, docs>>,
           status' = status \/ status # "done"
    PROVE  TextInv'
<1>1. Blocks' = Blocks /\ Texts' = Texts /\ First' = First
  BY DEF Blocks, Texts, First, IsText, Kind, RowsLeft, Upto
<1>2. /\ RowsLeft(Len(file) + 1)' = RowsLeft(Len(file) + 1)
      /\ Length(First, Len(file))' = Length(First, Len(file))
  BY <1>1 DEF RowsLeft, Length, Upto
<1>3. Begun(pending)' = Begun(pending) /\ BlankSince(pending)' = BlankSince(pending)
  BY DEF Begun, BlankSince, Kind, Length, Upto
<1>4. ASSUME NEW of, NEW rows
      PROVE  (Right(of, rows) => Right(of, rows)') /\ (Begun(of) => Begun(of)')
  BY DEF Right, Begun, Kind, Length, RowsLeft, Upto, Element, Cut
<1>5. type \in TextTypes => \A d \in DOMAIN docs' :
          \/ Right(docs[d].of, docs[d].rows)'
          \/ status' = "done" /\ d = Len(docs') /\ Begun(docs[d].of)'
  BY <1>4 DEF TextInv
<1> QED BY <1>1, <1>2, <1>3, <1>5 DEF TextInv

LEMMA TextsKept ==
    ASSUME LoadersTypes, TextInv, [LoaderNext]_loaderVars
    PROVE  TextInv'
<1>1. CASE Open
  BY <1>1, TextsRest DEF Open
<1>2. CASE LoaderFails
  BY <1>2, TextsRest DEF LoaderFails
<1>3. ASSUME NEW e \in Rows, ReadRow(e)
      PROVE  TextInv'
  BY <1>3 DEF ReadRow, Meet, TextInv, TextTypes
<1>4. CASE NextSheet
  BY <1>4 DEF NextSheet, Meet, TextInv, TextTypes
<1>5. ASSUME NEW e \in Items, ReadItem(e)
      PROVE  TextInv'
  BY <1>5 DEF ReadItem, Meet, TextInv, TextTypes
<1>6. ASSUME NEW e \in Paragraphs, ReadParagraph(e)
      PROVE  TextInv'
  BY <1>6, ParagraphKeeps DEF ReadParagraph, Meet, Reading, TextTypes
<1>7. ASSUME NEW e \in Tables, ReadTable(e)
      PROVE  TextInv'
  BY <1>7, TableKeeps DEF ReadTable, Meet, Reading, TextTypes
<1>8. CASE EndOfFile
  <2>1. CASE type \in TextTypes
    BY <1>8, <2>1, EndKeeps DEF EndOfFile, Reading
  <2>2. CASE type \notin TextTypes
    BY <1>8, <2>2 DEF EndOfFile, TextInv
  <2> QED BY <2>1, <2>2
<1>9. CASE UNCHANGED loaderVars
  BY <1>9, TextsRest DEF loaderVars
<1> QED BY <1>1, <1>2, <1>3, <1>4, <1>5, <1>6, <1>7, <1>8, <1>9 DEF LoaderNext

-----------------------------------------------------------------------------
(* Theorems. *)

LoadersInv == LoadersTypes /\ TableInv /\ RowsInOrder /\ TextInv

LEMMA LoadersInvHolds == LoaderSpec => []LoadersInv
<1>1. LoaderInit => LoadersInv
  <2> SUFFICES ASSUME LoaderInit PROVE LoadersInv
    OBVIOUS
  <2> USE LoadersAssumption DEF LoaderInit
  <2>1. LoadersTypes
    BY DEF LoadersTypes, NewSheet, Sheets, TableTypes, TextTypes
  <2>2. RowsInOrder
    BY DEF RowsInOrder
  <2>3. TableInv
    BY DEF TableInv, SheetRead, Headed, Started, Gap, NewSheet
  <2>4. TextInv
    <3>1. InOrder(Blocks, Texts)
      <4>1. Texts = {} /\ DOMAIN Blocks = 1 .. 1 /\ Blocks[1] = <<>>
        <5>1. PICK c \in Nat : c = 0 /\ c = Len(docs)
          OBVIOUS
        <5>2. DOMAIN Blocks = 1 .. (c + 1) /\ Blocks[c + 1] = pending
          BY <2>1, <5>1, BlocksAre
        <5> QED BY <5>1, <5>2 DEF Texts
      <4> QED BY <4>1 DEF InOrder
    <3>2. left = RowsLeft(Len(file) + 1) /\ size = Length(First, Len(file))
      BY DEF RowsLeft, Length, First, Upto
    <3> QED BY <3>1, <3>2 DEF TextInv
  <2> QED BY <2>1, <2>2, <2>3, <2>4 DEF LoadersInv
<1>2. LoadersInv /\ [LoaderNext]_loaderVars => LoadersInv'
  BY TypesKept, TablesKept, TextsKept DEF LoadersInv
<1> QED BY <1>1, <1>2, PTL DEF LoaderSpec

(* RowsInOrder, for files of any length and any limits: every data row, and no  *)
(* other, becomes a document, in order, until the budget is spent.              *)
THEOREM RowsInOrderHolds == LoaderSpec => []RowsInOrder
<1>1. LoadersInv => RowsInOrder
  BY DEF LoadersInv
<1> QED BY <1>1, LoadersInvHolds, PTL

(* TextInOrder, for files of any length and any limits: no paragraph or table   *)
(* is lost, repeated or moved by a flush.                                       *)
THEOREM TextInOrderHolds == LoaderSpec => []TextInOrder
<1>1. LoadersInv => TextInOrder
  <2> SUFFICES ASSUME LoadersInv, type \in {"docx", "text"}, InOrder(Blocks, Texts)
               PROVE  TextInOrder
    BY DEF LoadersInv, TextInv, TextTypes, TextInOrder
  <2> QED BY DEF TextInOrder, InOrder, Texts
<1> QED BY <1>1, LoadersInvHolds, PTL

(* BlocksWellFormed, for files of any length and any limits: `current_len` is   *)
(* the length of what is pending, so blocks end where they should.              *)
THEOREM BlocksWellFormedHolds == LoaderSpec => []BlocksWellFormed
<1>1. LoadersInv => BlocksWellFormed
  <2> SUFFICES ASSUME LoadersInv, type \in {"docx", "text"}
               PROVE  BlocksWellFormed
    BY DEF BlocksWellFormed
  <2>1. /\ LoadersTypes
        /\ size = Length(First, Len(file)) /\ size < FlushAt
        /\ \A d \in DOMAIN docs :
              \/ Right(docs[d].of, docs[d].rows)
              \/ status = "done" /\ d = Len(docs) /\ Begun(docs[d].of)
    BY DEF LoadersInv, TextInv, TextTypes
  <2>2. pending # <<>> => Length(pending[1], Len(file)) < FlushAt
    BY <2>1 DEF First
  <2>3. ASSUME NEW d \in DOMAIN docs, NEW of, of = docs[d].of,
               NEW last, last = of[Len(of)]
        PROVE  IF Kind(last) = "table"
               THEN Len(of) = 1 /\ docs[d].rows = Cut(file[last].n, RowsLeft(last))
               ELSE /\ \A k \in DOMAIN of : Kind(of[k]) = "para"
                    /\ Length(of[1], last - 1) < FlushAt
                    /\ \/ Length(of[1], last) >= FlushAt
                       \/ status = "done" /\ d = Len(docs)
                       \/ \E i \in (last + 1) .. Len(file) :
                             /\ Kind(i) = "table"
                             /\ \A j \in (last + 1) .. (i - 1) : file[j] = Element("para", 0)
    <3>1. of \in Seq(Nat)
      BY <2>1, <2>3, BlocksAre DEF LoadersTypes
    <3>2. CASE Len(of) = 1 /\ Kind(of[1]) = "table"
               /\ docs[d].rows = Cut(file[of[1]].n, RowsLeft(of[1]))
      BY <2>3, <3>2
    <3>3. CASE Begun(of)
      <4>1. Len(of) \in DOMAIN of /\ Kind(last) = "para"
        BY <2>3, <3>1, <3>3 DEF Begun
      <4> QED BY <2>1, <2>3, <3>3, <4>1 DEF Begun, Right
    <3> QED BY <2>1, <2>3, <3>2, <3>3 DEF Right
  <2> QED BY <2>2, <2>3 DEF BlocksWellFormed
<1> QED BY <1>1, LoadersInvHolds, PTL
=============================================================================
