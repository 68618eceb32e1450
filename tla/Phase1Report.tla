---------------------------- MODULE Phase1Report ----------------------------
(***************************************************************************)
(* The stacked-bar charts of main() in src/scripts/plot_phase1.py, in the   *)
(* order main() draws them.  First the stage breakdowns (lines 429-532):   *)
(* stage_breakdown_bar and _stacked_stage_bar, for IO sizes 4096 and       *)
(* 16384, average each stage column per queue depth and turn the averages  *)
(* into shares of their sum.  Then the per-IO-size polling-efficiency      *)
(* charts (lines 548-555): for every distinct IO size,                     *)
(* plot_completions_stacked_by_qd normalises each row's bucketed histogram *)
(* to percentages and averages them per queue depth into one stacked bar.  *)
(* Any of these calls may raise, which ends main() before report.md.       *)
(*                                                                         *)
(* The IO size and queue depth cells went through pd.to_numeric(...,      *)
(* errors="coerce"): a number, or NaN.  pandas compares NaN unequal to      *)
(* everything, counts it once in unique(), and groupby drops it.  A share  *)
(* is the exact fraction [num, den]; a stage average or share is a        *)
(* fraction with a NaN flag.  Python's float arithmetic is taken exactly.  *)
(***************************************************************************)
EXTENDS Integers, Sequences, SequencesExt, FiniteSets, HistFormat

CONSTANTS
    QDCells,     \* the queue depths a row may have (numbers or NaNV)
    SizeCells,   \* the IO sizes a row may have (numbers or NaNV)
    Cells,       \* what the rest of a row may hold: [hist, stage], its
                 \* histogram cell and its stage columns (column -> cell)
    Headers,     \* the sets of stage columns the table may have
    SubmitCols,  \* submit_cols, the detailed submit stage columns
    CompleteCols,\* complete_cols, the detailed completion stage columns
    MaxRows,     \* bound: rows of the results table
    SaveMayRaise \* whether savefig may raise (a full disk, an unwritable directory)

Num(n) == [nan |-> FALSE, v |-> n]
NaNV   == [nan |-> TRUE, v |-> 0]

\* df[col] == value on one cell
PdEq(a, b) == ~a.nan /\ ~b.nan /\ a.v = b.v

\* df[size_col].unique(): the values in order of first appearance, NaN once.
UniqueInOrder(s) ==
    LET firsts == SelectSeq([j \in DOMAIN s |-> j], LAMBDA j : \A m \in 1..(j - 1) : s[m] # s[j])
    IN [q \in DOMAIN firsts |-> s[firsts[q]]]

Frac(n, d) == [num |-> n, den |-> d]
AddFrac(a, b) == Frac(a.num * b.den + b.num * a.den, a.den * b.den)
SameFrac(a, b) == a.num * b.den = b.num * a.den

\* Lines 175-181: the bucketed histogram as percentages of its total, or
\* all zeros when the total is not positive.
RowShares(cell) ==
    LET b     == BucketHist(ParseHist(cell))
        total == SumFunctionOnSet(b, Label)
    IN [l \in Label |-> IF total > 0 THEN Frac(100 * b[l], total) ELSE Frac(0, 1)]

\* mean() of a column of shares
MeanFrac(fs) ==
    LET s == FoldLeft(AddFrac, Frac(0, 1), fs)
    IN Frac(s.num, s.den * Len(fs))

\* groupby([qd_col]).mean() over the rows of one IO size: NaN depths dropped.
QDBars(rs) ==
    [q \in {rs[j].qd : j \in {j \in DOMAIN rs : ~rs[j].qd.nan}} |->
        LET grp == SelectSeq(rs, LAMBDA row : PdEq(row.qd, q))
        IN [l \in Label |-> MeanFrac([j \in DOMAIN grp |-> RowShares(grp[j].hist)[l]])]]

\* Fault variant: the whole table charted for every IO size (sub_df = df).
SubsetUnfiltered(rs, size) == rs

\* sub_df = df[df[size_col] == size]
Subset(rs, size) == SelectSeq(rs, LAMBDA row : PdEq(row.size, size))

-----------------------------------------------------------------------------
(***************************************************************************)
(* The stage breakdowns.  A value is [nan, num, den].                      *)
(***************************************************************************)
RECURSIVE Gcd(_, _)
Gcd(a, b) == IF b = 0 THEN a ELSE Gcd(b, a % b)

\* n / d in lowest terms (d > 0)
Val(n, d) ==
    LET g == Gcd(IF n < 0 THEN -n ELSE n, d)
    IN [nan |-> FALSE, num |-> n \div g, den |-> d \div g]
NaNVal    == [nan |-> TRUE, num |-> 0, den |-> 1]

\* a - b, NaN if either is
Minus(a, b) == IF a.nan \/ b.nan THEN NaNVal ELSE Val(a.num * b.den - b.num * a.den, a.den * b.den)

\* max(0.0, x): Python keeps 0.0 unless x compares greater, which NaN never does
MaxZero(x) == IF ~x.nan /\ x.num > 0 THEN x ELSE Val(0, 1)

\* means[cols].sum(axis=1): pandas skips NaN
SumSkipNaN(f) == FoldFunction(LAMBDA x, acc : IF x.nan THEN acc
                                   ELSE Val(x.num * acc.den + acc.num * x.den, x.den * acc.den),
                              Val(0, 1), f)

\* (100.0 * r[col] / r["Total"]) if r["Total"] > 0 else 0.0
Share(x, total) ==
    IF total.num > 0 THEN (IF x.nan THEN NaNVal ELSE Val(100 * x.num * total.den, x.den * total.num))
    ELSE Val(0, 1)

\* Fault variant: a mean that does not skip NaN (as _group_mean of plot_bdev).
ColMeanKeepNaN(grp, col) ==
    IF \E j \in DOMAIN grp : grp[j].stage[col].nan THEN NaNVal
    ELSE Val(FoldLeft(LAMBDA a, row : a + row.stage[col].v, 0, grp), Len(grp))

\* groupby(qd)[col].mean() over one group: NaN cells skipped, NaN if all are.
ColMean(grp, col) ==
    LET ok == SelectSeq(grp, LAMBDA row : ~row.stage[col].nan)
    IN IF ok = <<>> THEN NaNVal
       ELSE Val(FoldLeft(LAMBDA a, row : a + row.stage[col].v, 0, ok), Len(ok))

\* The queue depths groupby keeps, and the rows of one of them.
QDsOf(rs)    == {rs[j].qd : j \in {j \in DOMAIN rs : ~rs[j].qd.nan}}
Group(rs, q) == SelectSeq(rs, LAMBDA row : PdEq(row.qd, q))

BasicCols == {"submit", "completion", "cycles"}

\* Polling/Device Wait = max(0, cycles / CPU_GHZ - submit - completion), GHz 5.3
Wait(grp) ==
    LET cy == ColMean(grp, "cycles")
        ns == IF cy.nan THEN NaNVal ELSE Val(10 * cy.num, 53 * cy.den)
    IN MaxZero(Minus(Minus(ns, ColMean(grp, "submit")), ColMean(grp, "completion")))

\* stage_breakdown_bar, lines 228-237: one bar of three stage shares.
BasicBar(grp) ==
    LET m == [submit |-> ColMean(grp, "submit"), wait |-> Wait(grp),
              completion |-> ColMean(grp, "completion")]
    IN [c \in DOMAIN m |-> Share(m[c], SumSkipNaN(m))]

\* _stacked_stage_bar, lines 295-300: the shares of the given columns.
StackedBar(grp, cols) ==
    LET m == [c \in cols |-> ColMean(grp, c)]
    IN [c \in cols |-> Share(m[c], SumSkipNaN(m))]

\* The six calls of lines 429-532, in order.
Charts == <<[kind |-> "basic", size |-> 4096], [kind |-> "basic", size |-> 16384],
            [kind |-> "submit", size |-> 4096], [kind |-> "submit", size |-> 16384],
            [kind |-> "complete", size |-> 4096], [kind |-> "complete", size |-> 16384]>>

ChartCols(ch) == CASE ch.kind = "basic"  -> BasicCols
                   [] ch.kind = "submit" -> SubmitCols
                   [] OTHER              -> CompleteCols

-----------------------------------------------------------------------------
VARIABLES
    header,  \* the stage columns and histogram column the table has
    chart,   \* the next stage chart main() draws
    stageBars, \* stage chart -> queue depth -> stage -> share
    df,      \* the results table: per row its qd, size and histogram cell
    sizes,   \* the IO sizes the loop has still to chart
    bars,    \* IO size -> queue depth -> bucket -> mean share
    pc       \* "stages", "start", "loop", "done" or "failed" (KeyError)

vars == <<header, chart, stageBars, df, sizes, bars, pc>>

Row == {[qd |-> q, size |-> s, hist |-> c.hist, stage |-> c.stage]
          : q \in QDCells, s \in SizeCells, c \in Cells}

Init ==
    /\ header \in Headers
    /\ df \in UNION {[1..n -> Row] : n \in 0..MaxRows}
    /\ chart = 1 /\ stageBars = [k \in {} |-> {}]
    /\ sizes = <<>> /\ bars = [s \in {} |-> {}] /\ pc = "stages"

\* subset = df[df["IO Size (Bytes)"] == io_size] for the next stage chart
ChartRows == SelectSeq(df, LAMBDA row : PdEq(row.size, Num(Charts[chart].size)))

Charting == pc = "stages" /\ chart <= Len(Charts)

\* if subset.empty: a "No data" figure
NoDataChart ==
    /\ Charting /\ ChartRows = <<>>
    /\ chart' = chart + 1
    /\ UNCHANGED <<header, stageBars, df, sizes, bars, pc>>

\* A stage column the table lacks: groupby(...)[cols] (stage_breakdown_bar)
\* or the check of line 291 (_stacked_stage_bar) raises KeyError.
MissingColumn ==
    /\ Charting /\ ChartRows # <<>> /\ ~(ChartCols(Charts[chart]) \subseteq header)
    /\ pc' = "failed"
    /\ UNCHANGED <<header, chart, stageBars, df, sizes, bars>>

StageBreakdownBar ==
    /\ Charting /\ Charts[chart].kind = "basic"
    /\ ChartRows # <<>> /\ BasicCols \subseteq header
    /\ stageBars' = stageBars @@ (chart :> [q \in QDsOf(ChartRows) |-> BasicBar(Group(ChartRows, q))])
    /\ chart' = chart + 1
    /\ UNCHANGED <<header, df, sizes, bars, pc>>

StackedStageBar ==
    /\ Charting /\ Charts[chart].kind # "basic"
    /\ ChartRows # <<>> /\ ChartCols(Charts[chart]) \subseteq header
    /\ stageBars' = stageBars @@ (chart :> [q \in QDsOf(ChartRows) |->
                                   StackedBar(Group(ChartRows, q), ChartCols(Charts[chart]))])
    /\ chart' = chart + 1
    /\ UNCHANGED <<header, df, sizes, bars, pc>>

EndStages ==
    /\ pc = "stages" /\ chart > Len(Charts)
    /\ pc' = "start"
    /\ UNCHANGED <<header, chart, stageBars, df, sizes, bars>>

\* The histogram section runs only if the table has the histogram column.
HistCol == "Completions_Per_Poll_Hist"

NoHistColumn ==
    /\ pc = "start" /\ HistCol \notin header
    /\ pc' = "done"
    /\ UNCHANGED <<header, chart, stageBars, df, sizes, bars>>

\* for size in df[size_col].unique():
StartLoop ==
    /\ pc = "start" /\ HistCol \in header
    /\ sizes' = UniqueInOrder([j \in DOMAIN df |-> df[j].size]) /\ pc' = "loop"
    /\ UNCHANGED <<header, chart, stageBars, df, bars>>

\* plot_completions_stacked_by_qd(sub_df, ...) for one IO size
PlotSize ==
    /\ pc = "loop" /\ sizes # <<>>
    /\ Subset(df, Head(sizes)) # <<>>
    /\ bars' = bars @@ (Head(sizes) :> QDBars(Subset(df, Head(sizes))))
    /\ sizes' = Tail(sizes)
    /\ UNCHANGED <<header, chart, stageBars, df, pc>>

\* No row equals a NaN size: pd.DataFrame([]).groupby([qd_col]) raises
\* KeyError, which ends main() before report.md is written.
EmptySubset ==
    /\ pc = "loop" /\ sizes # <<>>
    /\ Subset(df, Head(sizes)) = <<>>
    /\ pc' = "failed"
    /\ UNCHANGED <<header, chart, stageBars, df, sizes, bars>>

\* The loop is over; the report is written.
EndLoop ==
    /\ pc = "loop" /\ sizes = <<>>
    /\ pc' = "done"
    /\ UNCHANGED <<header, chart, stageBars, df, sizes, bars>>

(***************************************************************************)
(* save_plot (lines 85-88) has no try: a savefig that raises (a full disk, *)
(* a plots directory that cannot be written) ends main() before report.md. *)
(* Any chart main() is about to save may fail: a stage chart or its "No    *)
(* data" figure, the log-scale aggregate (line 543), or a per-size chart.  *)
(***************************************************************************)
\* Fault variant: save_plot swallows the error, as plot_bdev's does, and
\* main() goes on without the stage chart.
SaveSwallowed ==
    /\ Charting /\ ChartRows # <<>> /\ ChartCols(Charts[chart]) \subseteq header
    /\ chart' = chart + 1
    /\ UNCHANGED <<header, stageBars, df, sizes, bars, pc>>

SaveRaises ==
    /\ SaveMayRaise
    /\ \/ Charting /\ (ChartRows = <<>> \/ ChartCols(Charts[chart]) \subseteq header)
       \/ pc = "start" /\ HistCol \in header
       \/ pc = "loop" /\ sizes # <<>> /\ Subset(df, Head(sizes)) # <<>>
    /\ pc' = "failed"
    /\ UNCHANGED <<header, chart, stageBars, df, sizes, bars>>

Next == SaveRaises \/ NoDataChart \/ MissingColumn \/ StageBreakdownBar \/ StackedStageBar \/ EndStages
        \/ NoHistColumn \/ StartLoop \/ PlotSize \/ EmptySubset \/ EndLoop

Spec == Init /\ [][Next]_vars

-----------------------------------------------------------------------------
(***************************************************************************)
(* Each stacked bar shows its rows' polling outcomes: for every IO size    *)
(* and queue depth observed as numbers, bucket l of that bar is the mean,  *)
(* over exactly the table rows with that IO size and queue depth, of the   *)
(* share of l in each row's histogram (spec.md 4.5 and 4.6); no bar is      *)
(* drawn for a pair no row has, and none at all without the histogram     *)
(* column.                                                                 *)
(***************************************************************************)
BarsMatchSpec ==
    pc = "done" =>
      /\ HistCol \notin header => bars = [s \in {} |-> {}]
      /\ HistCol \in header =>
         /\ \A s \in DOMAIN bars : \A q \in DOMAIN bars[s] :
               \E j \in DOMAIN df : PdEq(df[j].size, s) /\ PdEq(df[j].qd, q)
         /\ \A j \in DOMAIN df :
               ~df[j].size.nan /\ ~df[j].qd.nan =>
                 LET same == {m \in DOMAIN df : PdEq(df[m].size, df[j].size) /\ PdEq(df[m].qd, df[j].qd)}
                     bar  == bars[df[j].size][df[j].qd]
                 IN \A l \in Label :
                      SameFrac(Frac(bar[l].num * Cardinality(same), bar[l].den),
                               FoldFunctionOnSet(AddFrac, Frac(0, 1),
                                                 [m \in same |-> RowShares(df[m].hist)[l]], same))

(***************************************************************************)
(* The report survives a series with no data (spec.md section 6: the       *)
(* reporting layer must tolerate any aggregated series being empty         *)
(* without failing the whole report): main() never ends in an exception.   *)
(***************************************************************************)
ReportNeverAborts == pc # "failed"

SameVal(a, b) == (a.nan /\ b.nan) \/ (~a.nan /\ ~b.nan /\ a.num * b.den = b.num * a.den)

\* The average of stage column c over the rows in the set ms, NaN cells left out.
SpecMean(ms, c) ==
    LET ok == {m \in ms : ~df[m].stage[c].nan}
    IN IF ok = {} THEN NaNVal
       ELSE Val(SumFunctionOnSet([m \in ok |-> df[m].stage[c].v], ok), Cardinality(ok))

\* The stage averages a bar of chart ch shows for the rows ms: for the
\* per-IO breakdown, the device wait is what is left of the per-IO time
\* (cycles at 5.3 GHz) after submit and completion, and never negative.
SpecStages(ch, ms) ==
    IF ch.kind = "basic"
    THEN LET t == Minus(Minus(LET cy == SpecMean(ms, "cycles")
                                 IN IF cy.nan THEN NaNVal ELSE Val(10 * cy.num, 53 * cy.den),
                                 SpecMean(ms, "submit")), SpecMean(ms, "completion"))
         IN [submit |-> SpecMean(ms, "submit"), completion |-> SpecMean(ms, "completion"),
             wait |-> IF ~t.nan /\ t.num > 0 THEN t ELSE Val(0, 1)]
    ELSE [c \in ChartCols(ch) |-> SpecMean(ms, c)]

(***************************************************************************)
(* Each stage chart drawn so far has one bar per queue depth observed as a *)
(* number among the rows of its IO size, and no other; a chart whose IO    *)
(* size no row has is not drawn.  A bar's segment for a stage is that      *)
(* stage's share of the bar's total, where a stage's value is its average  *)
(* over exactly the rows of that IO size and queue depth, cells with no    *)
(* number left out; a stage with no number at all has no share.           *)
(***************************************************************************)
StagesMatchSpec ==
    \A k \in 1..(chart - 1) :
      LET ch  == Charts[k]
          own == {j \in DOMAIN df : PdEq(df[j].size, Num(ch.size))}
      IN /\ (k \in DOMAIN stageBars) = (own # {})
         /\ k \in DOMAIN stageBars =>
              /\ DOMAIN stageBars[k] = {df[j].qd : j \in {j \in own : ~df[j].qd.nan}}
              /\ \A q \in DOMAIN stageBars[k] :
                   LET st == SpecStages(ch, {j \in own : PdEq(df[j].qd, q)})
                   IN \A c \in DOMAIN st : SameVal(stageBars[k][q][c], Share(st[c], SumSkipNaN(st)))

=============================================================================
