----------------------------- MODULE PageAnalysis -----------------------------
(***************************************************************************)
(* analysis/table.ts and analyze.ts of src/src: the figures read off the   *)
(* largest table of a redacted document.  A figure stands for what it is   *)
(* computed over; the arithmetic of stats.ts is left out.                  *)
(*                                                                         *)
(* In a cell, <<"#", n>> is one number, however it is written, and         *)
(* <<"n/a", 0>> any of the words that mean no value.                       *)
(***************************************************************************)
EXTENDS Redaction

CONSTANTS
    MaxRows, MaxColumns, MaxTableCells,   \* ceilings of one reading
    MinPointsForTrend,                    \* fewer values give no trend
    MinValuesToSummarise,                 \* fewer would be the cells again
    MaxCorrelationColumns,                \* columns that are paired
    DistinctCap                           \* bound of the distinct texts counted

ASSUME AnalysisAssumption ==
    /\ MaxRows \in Nat /\ MaxColumns \in Nat \ {0} /\ MaxTableCells \in Nat
    /\ MinPointsForTrend \in Nat /\ MinValuesToSummarise \in Nat
    /\ MaxCorrelationColumns \in Nat /\ DistinctCap \in Nat

(* hasAnyPlaceholder: a whole placeholder, whoever wrote it.                 *)
Redacted(text) == Held(text, {"ours", "theirs"}) # {}

IsNumber(text) == Len(text) = 1 /\ text[1][1] = "#"
MeansMissing(text) == text = <<>> \/ text = << <<"n/a", 0>> >>

-----------------------------------------------------------------------------
(* Rows and cells.                                                           *)

Below(doc, i, tags) ==
    Those([j \in DOMAIN doc.els |-> j],
        LAMBDA j : Present(doc, j) /\ doc.els[j].tag \in tags /\ Under(doc.els, i, j))

Children(doc, i) ==
    Those([j \in DOMAIN doc.els |-> j], LAMBDA j : Present(doc, j) /\ doc.els[j].parent = i)

CellText(doc, i) ==
    FlattenSeq([j \in DOMAIN doc.els |->
        IF Present(doc, j) /\ (j = i \/ Under(doc.els, i, j)) THEN doc.els[j].text ELSE <<>>])

Tables(doc) == {i \in DOMAIN doc.els : Present(doc, i) /\ doc.els[i].tag = "table"}

(* The largest table, the first of those; 0 when no table has a cell.        *)
ChooseTable(doc) ==
    LET size == [i \in Tables(doc) |-> Len(Below(doc, i, {"td", "th"}))]
        best == {i \in DOMAIN size : size[i] > 0 /\ \A j \in DOMAIN size : size[j] <= size[i]}
    IN IF best = {} THEN 0 ELSE CHOOSE i \in best : \A j \in best : i <= j

IsHeaderRow(doc, row) ==
    /\ Children(doc, row) # <<>>
    /\ \A n \in DOMAIN Children(doc, row) : doc.els[Children(doc, row)[n]].tag = "th"

(* Mutant: without a row of headings, the first row is taken for one.        *)
HeaderOrFirst(doc, rows) ==
    LET headers == Those(rows, LAMBDA r : IsHeaderRow(doc, r))
    IN IF headers # <<>> THEN headers[1] ELSE IF rows = <<>> THEN 0 ELSE rows[1]

HeaderRow(doc, rows) ==
    LET headers == Those(rows, LAMBDA r : IsHeaderRow(doc, r))
    IN IF headers = <<>> THEN 0 ELSE headers[1]

(* The cell of a row in column c; 0 when the row is shorter.                 *)
CellAt(doc, row, c) == IF c > Len(Children(doc, row)) THEN 0 ELSE Children(doc, row)[c]

(* Mutant: a redacted cell is only a text that is not a number.              *)
KindOfTextParsed(text) ==
    IF MeansMissing(text) THEN "missing" ELSE IF IsNumber(text) THEN "number" ELSE "unparsed"

KindOfText(text) ==
    IF MeansMissing(text) THEN "missing"
    ELSE IF Redacted(text) THEN "redacted"
    ELSE IF IsNumber(text) THEN "number" ELSE "unparsed"

KindOfCell(doc, cell) == IF cell = 0 THEN "missing" ELSE KindOfText(CellText(doc, cell))

(* What a column is: cells that the redactor took do not count against it.   *)
Classify(numeric, redacted, nonEmpty, distinct) ==
    CASE nonEmpty = 0 -> "unknown"
      [] nonEmpty > 0 /\ redacted = nonEmpty -> "redacted"
      [] nonEmpty > redacted /\ 10 * numeric >= 8 * (nonEmpty - redacted) -> "numeric"
      [] nonEmpty > redacted /\ 10 * numeric < 8 * (nonEmpty - redacted) ->
            IF /\ distinct \in 1..DistinctCap
               /\ distinct <= 2 \/ 4 * distinct <= nonEmpty - redacted
            THEN "categorical" ELSE "unknown"

Classified(is, distinct) ==
    LET n(k) == Cardinality({r \in DOMAIN is : is[r] = k})
    IN Classify(n("number"), n("redacted"), Len(is) - n("missing"), distinct)

(* A column whose cells are of these kinds: the rows its figures are over,   *)
(* and the rows they leave out.                                              *)
Summed(index, label, is, kind) ==
    LET rows(k) == Those([r \in DOMAIN is |-> r], LAMBDA r : is[r] = k)
    IN [index |-> index, label |-> label, kind |-> kind,
        rows |-> IF kind = "numeric" THEN rows("number") ELSE <<>>,
        nMissing |-> Len(rows("missing")), nRedacted |-> Len(rows("redacted")),
        nUnparsed |-> Len(rows("unparsed")),
        summarised |-> kind = "numeric" /\ Len(rows("number")) >= MinValuesToSummarise]

LabelOf(doc, header, c) ==
    IF header = 0 \/ CellAt(doc, header, c) = 0 THEN <<>> ELSE CellText(doc, CellAt(doc, header, c))

ReadColumn(doc, header, c, cells, is) ==
    Summed(c, LabelOf(doc, header, c), is,
        Classified(is, Cardinality({CellText(doc, cells[r]) :
                                       r \in {q \in DOMAIN is : is[q] \in {"number", "unparsed"}}})))

ReadCells(doc, header, c, cells) ==
    ReadColumn(doc, header, c, cells, [r \in DOMAIN cells |-> KindOfCell(doc, cells[r])])

ReadRows(doc, header, body, declared, columns, rows) ==
    [rows |-> rows, truncated |-> rows < Len(body) \/ declared > columns,
     columns |-> [c \in 1..columns |->
                     ReadCells(doc, header, c, [r \in 1..rows |-> CellAt(doc, body[r], c)])]]

NothingRead == [rows |-> 0, truncated |-> FALSE, columns |-> <<>>]

ReadBody(doc, header, body) ==
    LET declared == IF header # 0 THEN Len(Children(doc, header))
                    ELSE FoldLeft(LAMBDA m, r : MostOf(m, Len(Children(doc, r))), 0, body)
        columns == LeastOf(declared, MaxColumns)
    IN IF columns = 0 THEN NothingRead
       ELSE ReadRows(doc, header, body, declared, columns,
                LeastOf(Len(body), LeastOf(MaxRows, MaxTableCells \div columns)))

ReadTable(doc, table) ==
    LET rows == Below(doc, table, {"tr"})
        header == HeaderRow(doc, rows)
    IN ReadBody(doc, header, Those(rows, LAMBDA r : r # header))

-----------------------------------------------------------------------------
(* Figures.                                                                  *)

Refuse(reason, table, columns) ==
    [refusal |-> reason, table |-> table, rows |-> 0, columns |-> columns,
     trends |-> {}, forecasts |-> {}, series |-> {}, correlations |-> {}]

(* The pairs of columns, in the order they are correlated in.                *)
Pairs(columns) ==
    LET n == LeastOf(Len(columns), MaxCorrelationColumns)
    IN FlattenSeq([i \in 1..n |-> [k \in 1..(n - i) |-> << columns[i], columns[i + k] >>]])

(* done: how many columns and pairs were finished before the budget of time  *)
(* ran out.  A pair is of the first values of both columns, by position.     *)
Figures(read, table, numeric, done) ==
    LET finished == {numeric[n] : n \in 1..LeastOf(done, Len(numeric))}
        over(least) == {c.index : c \in {d \in finished : Len(d.rows) >= least}}
        pairs == SubSeq(Pairs(numeric), 1, MostOf(0, done - Len(numeric)))
        common(p) == LeastOf(Len(p[1].rows), Len(p[2].rows))
    IN [refusal |-> IF read.truncated THEN "too-many-cells" ELSE None,
        table |-> table, rows |-> read.rows, columns |-> read.columns,
        trends |-> over(MostOf(2, MinPointsForTrend)),
        forecasts |-> over(MostOf(MinPointsForTrend, MinValuesToSummarise)),
        series |-> over(2),
        correlations |-> {[a |-> SubSeq(p[1].rows, 1, common(p)), b |-> SubSeq(p[2].rows, 1, common(p))] :
                             p \in {q \in ToSet(pairs) : common(q) >= 3}}]

NumericOf(read) == Those(read.columns, LAMBDA c : c.kind = "numeric" /\ c.rows # <<>>)

Analyzed(read, table, numeric, done) ==
    IF read.rows = 0 THEN Refuse("no-table-found", 0, <<>>)
    ELSE IF numeric # <<>> THEN Figures(read, table, numeric, done)
    ELSE Refuse(IF \E c \in ToSet(read.columns) : c.kind = "redacted"
                THEN "all-columns-redacted" ELSE "no-numeric-column", 0, read.columns)

AnalyzeRead(read, table, done) == Analyzed(read, table, NumericOf(read), done)

AnalyzeDocument(doc, done) ==
    IF ChooseTable(doc) = 0 THEN Refuse("no-table-found", 0, <<>>)
    ELSE AnalyzeRead(ReadTable(doc, ChooseTable(doc)), ChooseTable(doc), done)

(* How many columns and pairs there are to finish.                           *)
WorkOf(numeric) == Len(numeric) + Len(Pairs(numeric))

AnalysisWork(doc) ==
    IF ChooseTable(doc) = 0 THEN 0 ELSE WorkOf(NumericOf(ReadTable(doc, ChooseTable(doc))))
=============================================================================
