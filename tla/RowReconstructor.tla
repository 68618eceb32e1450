-------------------------- MODULE RowReconstructor --------------------------
(***************************************************************************)
(* read_multicore_csv of src/scripts/plot_multicore.py (lines 44-117):     *)
(* the tolerant reader that glues physical lines back into logical rows,   *)
(* tokenizes and pads them to the header width, builds the DataFrame and   *)
(* converts its columns.  Each loop iteration of the code is one step.     *)
(*                                                                         *)
(* The header is abstracted to the kind of each column: "num" for a column *)
(* of numeric_cols (pd.to_numeric), "lat" for p50/p99/p99.9_Latency        *)
(* (per_core_mean), "str" for any other.  The file is empty, or a header   *)
(* and a sequence of data lines over LineAlphabet.                         *)
(***************************************************************************)
EXTENDS Naturals, Sequences, SequencesExt, PerCoreDecoder

CONSTANTS
    Headers,        \* the header rows the file may have (sequences of kinds)
    LineAlphabet,   \* the symbols data lines are made of
    MaxLineLen,     \* bound: symbols per physical line
    MaxLines        \* bound: physical data lines after the header

ASSUME Headers \subseteq Seq({"num", "lat", "str"}) /\ LineAlphabet \subseteq Alphabet

VARIABLES
    empty,      \* the file has no line at all
    header,     \* the column kinds of lines[0]
    data,       \* lines[1:], each with its "\n" stripped
    pc,         \* "read", "scan", "parse", "done" or "failed"
    err,        \* the exception raised: "none", "EmptyCsv", "ColumnMismatch"
    i,          \* the next data line the scan loop reads
    row_lines,  \* the logical rows built so far
    k,          \* the next logical row the parse loop reads
    data_rows,  \* the tokenized, padded rows
    frame       \* the DataFrame: per row its cells and converted columns

vars == <<empty, header, data, pc, err, i, row_lines, k, data_rows, frame>>

Line  == LinesUpTo(MaxLineLen, LineAlphabet)
Files == UNION {[1..n -> Line] : n \in 0..MaxLines}

Init ==
    /\ \/ empty = TRUE /\ header = <<>> /\ data = <<>>
       \/ empty = FALSE /\ header \in Headers /\ data \in Files
    /\ pc = "read" /\ err = "none"
    /\ i = 1 /\ row_lines = <<>> /\ k = 1 /\ data_rows = <<>> /\ frame = <<>>

-----------------------------------------------------------------------------
\* if not lines: raise ValueError("Empty CSV file")
EmptyFile ==
    /\ pc = "read" /\ empty
    /\ pc' = "failed" /\ err' = "EmptyCsv"
    /\ UNCHANGED <<empty, header, data, i, row_lines, k, data_rows, frame>>

\* header = next(csv.reader([lines[0]])); header_len = len(header)
ReadHeader ==
    /\ pc = "read" /\ ~empty
    /\ pc' = "scan"
    /\ UNCHANGED <<empty, header, data, err, i, row_lines, k, data_rows, frame>>

Scanning == pc = "scan" /\ i <= Len(data)

ScanStep(rows) ==
    /\ i' = i + 1 /\ row_lines' = rows
    /\ UNCHANGED <<empty, header, data, pc, err, k, data_rows, frame>>

\* if not line: continue
ScanBlank == Scanning /\ data[i] = <<>> /\ ScanStep(row_lines)

\* if row_start_re.match(line): row_lines.append(line)
ScanRowStart == Scanning /\ IsRowStart(data[i]) /\ ScanStep(Append(row_lines, data[i]))

\* else: if not row_lines: continue  (a continuation before any row)
ScanOrphan ==
    /\ Scanning /\ data[i] # <<>> /\ ~IsRowStart(data[i]) /\ row_lines = <<>>
    /\ ScanStep(row_lines)

\* Fault variant: the continuation is glued on without the "\n" marker.
ScanContinueNoMarker ==
    /\ Scanning /\ data[i] # <<>> /\ ~IsRowStart(data[i]) /\ row_lines # <<>>
    /\ ScanStep([row_lines EXCEPT ![Len(row_lines)] = @ \o data[i]])

\* else: row_lines[-1] += "\\n" + line
ScanContinue ==
    /\ Scanning /\ data[i] # <<>> /\ ~IsRowStart(data[i]) /\ row_lines # <<>>
    /\ ScanStep([row_lines EXCEPT ![Len(row_lines)] = @ \o <<NL>> \o data[i]])

EndScan ==
    /\ pc = "scan" /\ i > Len(data)
    /\ pc' = "parse"
    /\ UNCHANGED <<empty, header, data, err, i, row_lines, k, data_rows, frame>>

\* Fault variants of the padding: None instead of "", one cell short.
PadRowWithNone(row, width) ==
    IF Len(row) < width THEN row \o [j \in 1..(width - Len(row)) |-> "None"] ELSE row

PadRowShort(row, width) ==
    IF Len(row) < width THEN row \o [j \in 1..(width - Len(row) - 1) |-> <<>>] ELSE row

\* row.extend([""] * (header_len - len(row))) when len(row) < header_len
PadRow(row, width) ==
    IF Len(row) < width THEN row \o [j \in 1..(width - Len(row)) |-> <<>>] ELSE row

\* row = next(csv.reader([row_text])); pad; data_rows.append(row)
ParseRow ==
    /\ pc = "parse" /\ k <= Len(row_lines)
    /\ data_rows' = Append(data_rows, PadRow(Tokenize(row_lines[k]), Len(header)))
    /\ k' = k + 1
    /\ UNCHANGED <<empty, header, data, pc, err, i, row_lines, frame>>

\* pd.to_numeric(df[col], errors="coerce") on one cell
ToNumeric(c) == IF FloatOK(c) THEN [sum |-> FloatValue(c), n |-> 1] ELSE NaN

\* One DataFrame row: the cells, the numeric columns converted in place and
\* df[col + "_mean"] = df[col].apply(per_core_mean) for the latency columns.
FrameRow(row) ==
    [cells |-> row,
     num   |-> [c \in {c \in DOMAIN header : header[c] = "num"} |-> ToNumeric(row[c])],
     lat   |-> [c \in {c \in DOMAIN header : header[c] = "lat"} |->
                   PerCoreMean([kind |-> "text", text |-> row[c]])]]

TooWide == \E r \in DOMAIN data_rows : Len(data_rows[r]) > Len(header)

\* df = pd.DataFrame(data_rows, columns=header) followed by the conversions
BuildFrame ==
    /\ pc = "parse" /\ k > Len(row_lines) /\ ~TooWide
    /\ frame' = [r \in DOMAIN data_rows |-> FrameRow(data_rows[r])]
    /\ pc' = "done"
    /\ UNCHANGED <<empty, header, data, err, i, row_lines, k, data_rows>>

\* pd.DataFrame raises ValueError when a row has more cells than columns.
FrameMismatch ==
    /\ pc = "parse" /\ k > Len(row_lines) /\ TooWide
    /\ pc' = "failed" /\ err' = "ColumnMismatch"
    /\ UNCHANGED <<empty, header, data, i, row_lines, k, data_rows, frame>>

Next ==
    \/ EmptyFile \/ ReadHeader
    \/ ScanBlank \/ ScanRowStart \/ ScanOrphan \/ ScanContinue \/ EndScan
    \/ ParseRow \/ BuildFrame \/ FrameMismatch

Spec == Init /\ [][Next]_vars

-----------------------------------------------------------------------------
Row == Seq(LineAlphabet \cup {NL})

TypeOK ==
    /\ empty \in BOOLEAN /\ header \in Headers \cup {<<>>} /\ data \in Files
    /\ pc \in {"read", "scan", "parse", "done", "failed"}
    /\ err \in {"none", "EmptyCsv", "ColumnMismatch"}
    /\ i \in 1..(MaxLines + 1) /\ k \in 1..(MaxLines + 1)
    /\ row_lines \in Seq(Row) /\ data_rows \in Seq(Seq(Row))
    /\ \A r \in DOMAIN frame :
          /\ frame[r].cells \in Seq(Row)
          /\ \A col \in {"num", "lat"} :
                /\ DOMAIN frame[r][col] \subseteq DOMAIN header
                /\ \A c \in DOMAIN frame[r][col] : frame[r][col][c] \in [sum : Nat, n : Nat]

Consumed == SubSeq(data, 1, i - 1)
Starts   == SelectSeq(Consumed, IsRowStart)

\* The non-blank lines from the first row start on: those the scan keeps.
Kept ==
    IF Starts = <<>> THEN <<>>
    ELSE LET f == CHOOSE f \in DOMAIN Consumed :
                      IsRowStart(Consumed[f]) /\ \A g \in 1..(f - 1) : ~IsRowStart(Consumed[g])
         IN SelectSeq(SubSeq(Consumed, f, Len(Consumed)), LAMBDA l : l # <<>>)

JoinNL(ls) == IF ls = <<>> THEN <<>> ELSE FoldLeft(LAMBDA a, b : a \o <<NL>> \o b, Head(ls), Tail(ls))

(***************************************************************************)
(* The scan loop loses and reorders nothing: at every point, the logical  *)
(* rows are one per row-start line read so far, each beginning with its   *)
(* row-start line, and together, joined by the "\n" marker, they spell    *)
(* exactly the non-blank lines read since the first row start.  Only blank *)
(* lines and continuation lines before any row start are dropped.          *)
(***************************************************************************)
LinesConserved ==
    /\ Len(row_lines) = Len(Starts)
    /\ \A j \in DOMAIN row_lines : IsPrefix(Starts[j], row_lines[j])
    /\ JoinNL(row_lines) = JoinNL(Kept)

(***************************************************************************)
(* Every row of the finished DataFrame has exactly one cell per header     *)
(* column: the csv tokens of its logical row, then empty strings for the   *)
(* columns the row did not reach (the right-padding of lines 70-71).       *)
(***************************************************************************)
FrameMatchesHeader ==
    pc = "done" =>
        /\ Len(frame) = Len(row_lines)
        /\ \A r \in DOMAIN frame :
              LET toks  == Tokenize(row_lines[r])
                  cells == frame[r].cells
              IN /\ Len(cells) = Len(header)
                 /\ SubSeq(cells, 1, Len(toks)) = toks
                 /\ \A c \in (Len(toks) + 1)..Len(header) : cells[c] = <<>>

(***************************************************************************)
(* A physical line that continues a quoted cell (a per-core list written   *)
(* over several lines) never starts a new logical row: every logical row   *)
(* that has been closed by a later row start ends outside quotes.          *)
(***************************************************************************)
RowsCloseQuotes ==
    \A j \in 1..(Len(row_lines) - 1) : ~EndsInOpenQuote(row_lines[j])

(***************************************************************************)
(* A garbled logical row never aborts the run (spec.md section 7): the     *)
(* reader only fails on an empty file, never with a row/column mismatch.   *)
(***************************************************************************)
NoRowRaises == err # "ColumnMismatch"

=============================================================================
