----------------------------- MODULE GroupMean -----------------------------
(***************************************************************************)
(* plot_one of src/scripts/plot_bdev.py for the results table:             *)
(* load_results coerces every cell to a float; then, with make_plots, the  *)
(* seven charts are drawn in order, each by lineplot (one metric) or       *)
(* lineplot_melt (several): a chart with no rows or none of its metric     *)
(* columns returns None, otherwise it draws one line per metric and hue    *)
(* value (IO size), averaging the metric per x value (queue depth) with    *)
(* _group_mean, and is saved by save_plot, which may fail.  The report     *)
(* links the charts whose path came back.                                  *)
(*                                                                         *)
(* A float is [nan, v].  float() creates a new NaN object on every call,   *)
(* and Python's containers (set, dict, tuple) compare identity before      *)
(* value, while "==" on two NaNs is False.  So a NaN read from row j is     *)
(* [nan |-> TRUE, v |-> j]: TLA+ equality is container identity, PyEq is    *)
(* the == operator.  A mean is [sum, n] over the integer values, or NaN.   *)
(***************************************************************************)
EXTENDS Integers, Sequences, SequencesExt, FiniteSets

CONSTANTS
    X, Hue, Hist,      \* the column names: queue depth, IO size, histogram
    Charts,            \* per chart plot_one draws, in order, its metric columns
    Headers,           \* the header sets the results table may have
    Cells,             \* per column, the cells a row may hold there
    MaxRows            \* bound: rows of the results table

Float(n)   == [nan |-> FALSE, v |-> n]
NaNFrom(j) == [nan |-> TRUE, v |-> j]

\* float(a) == float(b)
PyEq(a, b) == ~a.nan /\ ~b.nan /\ a.v = b.v

(***************************************************************************)
(* out[name] = float(v) if v not in (None, "") else 0.0, and 0.0 when      *)
(* float raises: only a number or the text "nan" survive as themselves.    *)
(***************************************************************************)
Coerce(c, j) ==
    CASE c.kind = "num" -> Float(c.val)
      [] c.kind = "nan" -> NaNFrom(j)
      [] OTHER          -> Float(0)

\* The coerced record of raw row j; the histogram column is skipped.
CoerceRow(raw, j) == [k \in DOMAIN raw \ {Hist} |-> Coerce(raw[k], j)]

\* sorted({row[key] for row in rows if key in row}), as a set
UniqueValues(rs, key) == {rs[j][key] : j \in {j \in DOMAIN rs : key \in DOMAIN rs[j]}}

NaNMean == [sum |-> 0, n |-> 0]

\* sum(vals) / len(vals); one NaN makes the mean NaN.
MeanOf(vals) ==
    IF \E q \in DOMAIN vals : vals[q].nan THEN NaNMean
    ELSE [sum |-> FoldLeft(LAMBDA a, w : a + w.v, 0, vals), n |-> Len(vals)]

\* The y values of the rows whose x is key, in row order.
Bucket(rs, x, y, key) ==
    LET grp == SelectSeq(rs, LAMBDA row : row[x] = key)
    IN [q \in DOMAIN grp |-> grp[q][y]]

\* try: key = (row[x],); val = float(row[y]) except KeyError: continue
Keyed(rs, x, y) == SelectSeq(rs, LAMBDA row : {x, y} \subseteq DOMAIN row)

\* Fault variant: buckets[key] = [val], each row replacing the earlier ones.
GroupMeanOverwrite(rs, x, y) ==
    LET ok == Keyed(rs, x, y)
    IN {[x |-> key, mean |-> MeanOf(<<Last(Bucket(ok, x, y, key))>>)] : key \in UniqueValues(ok, x)}

(***************************************************************************)
(* _group_mean(rows, [x], y): a row lacking x or y is skipped; the buckets *)
(* are keyed by the tuple (row[x],) (container identity), each holding the *)
(* y values of its rows in order; one point per bucket with its mean.      *)
(***************************************************************************)
GroupMeanOp(rs, x, y) ==
    LET ok == Keyed(rs, x, y)
    IN {[x |-> key, mean |-> MeanOf(Bucket(ok, x, y, key))] : key \in UniqueValues(ok, x)}

-----------------------------------------------------------------------------
VARIABLES
    header,      \* the columns of the results table
    raw,         \* the rows csv.DictReader yields
    i,           \* the next raw row load_results reads
    rows,        \* the coerced rows
    make_plots,  \* plot_one's make_plots (main: not args.no_plots)
    c,           \* the chart plot_one draws next
    todo,        \* the lines of chart c still to draw: [y, hue]
    series,      \* [chart, y, hue] -> the points handed to ax.plot
    plots,       \* per chart called, its returned path (the chart) or None (0)
    report,      \* the charts report.md links to, in order
    pc           \* "load", "plot", "lines", "report" or "done"

vars == <<header, raw, i, rows, make_plots, c, todo, series, plots, report, pc>>

RawRow(h) == {r \in [h -> UNION {Cells[col] : col \in h}] : \A col \in h : r[col] \in Cells[col]}

Init ==
    /\ header \in Headers
    /\ raw \in UNION {[1..n -> RawRow(header)] : n \in 0..MaxRows}
    /\ make_plots \in BOOLEAN
    /\ i = 1 /\ rows = <<>> /\ c = 1 /\ todo = {} /\ series = [l \in {} |-> {}]
    /\ plots = <<>> /\ report = <<>> /\ pc = "load"

\* for raw in reader: rows.append(out)
LoadRow ==
    /\ pc = "load" /\ i <= Len(raw)
    /\ rows' = Append(rows, CoerceRow(raw[i], i)) /\ i' = i + 1
    /\ UNCHANGED <<header, raw, make_plots, c, todo, series, plots, report, pc>>

EndLoad ==
    /\ pc = "load" /\ i > Len(raw)
    /\ pc' = "plot"
    /\ UNCHANGED <<header, raw, i, rows, make_plots, c, todo, series, plots, report>>

\* rows and col in rows[0]
HasColumn(col) == rows # <<>> /\ col \in DOMAIN rows[1]

\* valid_y = [c for c in y_vars if rows and c in rows[0]]; lineplot's
\* "if not rows or y not in rows[0]" is the same test on its one y.
ValidY(k) == SelectSeq(Charts[k], HasColumn)

\* _unique_values(rows, hue) if hue in rows[0] else [None]; None is <<>>.
HueVals == IF HasColumn(Hue) THEN {<<hv>> : hv \in UniqueValues(rows, Hue)} ELSE {<<>>}

\* sub_rows = rows for None, else [r for r in rows if r.get(hue) == hv]
SubRows(h) == IF h = <<>> THEN rows ELSE SelectSeq(rows, LAMBDA row : PyEq(row[Hue], h[1]))

Charting == pc = "plot" /\ make_plots /\ c <= Len(Charts)

\* The chart returns None before drawing: no rows, or none of its columns.
SkipChart ==
    /\ Charting /\ ValidY(c) = <<>>
    /\ plots' = Append(plots, 0) /\ c' = c + 1
    /\ UNCHANGED <<header, raw, i, rows, make_plots, todo, series, report, pc>>

\* One line per valid metric and hue value.
StartChart ==
    /\ Charting /\ ValidY(c) # <<>>
    /\ todo' = {[y |-> m, hue |-> h] : m \in Range(ValidY(c)), h \in HueVals}
    /\ pc' = "lines"
    /\ UNCHANGED <<header, raw, i, rows, make_plots, c, series, plots, report>>

\* agg = _group_mean(sub_rows, [x], metric); ax.plot(...)
PlotLine ==
    /\ pc = "lines" /\ todo # {}
    /\ LET l == CHOOSE l \in todo : TRUE
       IN /\ series' = series @@ ([chart |-> c, y |-> l.y, hue |-> l.hue] :> GroupMeanOp(SubRows(l.hue), X, l.y))
          /\ todo' = todo \ {l}
    /\ UNCHANGED <<header, raw, i, rows, make_plots, c, plots, report, pc>>

\* if save_plot(fig, path): return path
SaveChart ==
    /\ pc = "lines" /\ todo = {}
    /\ plots' = Append(plots, c) /\ c' = c + 1 /\ pc' = "plot"
    /\ UNCHANGED <<header, raw, i, rows, make_plots, todo, series, report>>

\* savefig raises; save_plot swallows it and returns False: return None
SaveFailed ==
    /\ pc = "lines" /\ todo = {}
    /\ plots' = Append(plots, 0) /\ c' = c + 1 /\ pc' = "plot"
    /\ UNCHANGED <<header, raw, i, rows, make_plots, todo, series, report>>

\* The chart calls are done, or skipped with make_plots False.
EndCharts ==
    /\ pc = "plot" /\ (~make_plots \/ c > Len(Charts))
    /\ pc' = "report"
    /\ UNCHANGED <<header, raw, i, rows, make_plots, c, todo, series, plots, report>>

\* for path, desc in plots: if path and os.path.exists(path): write its section
WriteReport ==
    /\ pc = "report"
    /\ report' = SelectSeq(plots, LAMBDA p : p # 0)
    /\ pc' = "done"
    /\ UNCHANGED <<header, raw, i, rows, make_plots, c, todo, series, plots>>

Next ==
    \/ LoadRow \/ EndLoad
    \/ SkipChart \/ StartChart \/ PlotLine \/ SaveChart \/ SaveFailed
    \/ EndCharts \/ WriteReport

Spec == Init /\ [][Next]_vars

-----------------------------------------------------------------------------
(***************************************************************************)
(* spec.md 4.6 for the groups a chart draws: the records are grouped by    *)
(* the value of (hue, x), or of x alone without a hue column, and each     *)
(* group's mean is the arithmetic mean of its y values, every record       *)
(* included (a coerced 0.0 too); a NaN y makes the mean NaN.               *)
(***************************************************************************)
SpecGroupMean(y, SameGroup(_)) ==
    LET grp == SelectSeq(rows, SameGroup)
    IN IF \E q \in DOMAIN grp : grp[q][y].nan THEN NaNMean
       ELSE [sum |-> FoldLeft(LAMBDA a, row : a + row[y].v, 0, grp), n |-> Len(grp)]

\* The means plotted at x value xv on the lines of chart k and metric y
\* whose hue satisfies InLine.
PlottedMeans(k, y, InLine(_), xv) ==
    LET ls == {l \in DOMAIN series : l.chart = k /\ l.y = y /\ InLine(l.hue)}
    IN {p.mean : p \in {p \in UNION {series[l] : l \in ls} : PyEq(p.x, xv)}}

\* Metric y is a column of the table and one of chart k's.
Drawn(k, y) == pc = "done" /\ make_plots /\ rows # <<>> /\ y \in header /\ y \in Range(Charts[k])

(***************************************************************************)
(* In every chart, for every metric of it the table has, each (IO size,    *)
(* queue depth) pair observed with numbers in both columns is drawn as     *)
(* exactly one point, at the mean over all rows (all runs) with that       *)
(* pair; without an IO-size column, every queue depth is one point at the  *)
(* mean over all rows with that queue depth.                               *)
(***************************************************************************)
MeansMatchSpec ==
    \A k \in DOMAIN Charts, y \in header, j \in DOMAIN rows :
      (Drawn(k, y) /\ ~rows[j][X].nan) =>
        IF Hue \in header
        THEN ~rows[j][Hue].nan =>
               PlottedMeans(k, y, LAMBDA h : h # <<>> /\ PyEq(h[1], rows[j][Hue]), rows[j][X])
                 = {SpecGroupMean(y, LAMBDA row : PyEq(row[Hue], rows[j][Hue]) /\ PyEq(row[X], rows[j][X]))}
        ELSE PlottedMeans(k, y, LAMBDA h : TRUE, rows[j][X])
               = {SpecGroupMean(y, LAMBDA row : PyEq(row[X], rows[j][X]))}

(***************************************************************************)
(* The report links, in the order plot_one drew them, exactly the charts   *)
(* that have data and were saved: a chart is skipped, never an error and   *)
(* never an empty picture, when the table has no rows or none of the       *)
(* chart's metric columns (spec.md 6 and 7), and a chart whose save        *)
(* failed is left out rather than aborting the report.                     *)
(***************************************************************************)
(* No record silently disappears from a chart (spec.md 4.6: one group per  *)
(* grouping key observed): every row is in some line of every chart drawn *)
(* for a metric the table has.                                             *)
(***************************************************************************)
EveryRecordPlotted ==
    \A k \in DOMAIN Charts, y \in header, j \in DOMAIN rows :
      Drawn(k, y) => \E l \in DOMAIN series : l.chart = k /\ l.y = y /\ \E p \in series[l] : p.x = rows[j][X]

=============================================================================
